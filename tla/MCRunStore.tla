----------------------------- MODULE MCRunStore -----------------------------
(* Instances of RunStore for TLC: two calls, one Step, two Attempts. *)
EXTENDS RunStore, TLC

CONSTANTS c1, c2, o1, o2

\* Each call has its own owner string.
DistinctOwnerOf == (c1 :> o1) @@ (c2 :> o2)

\* Two concurrent calls of one Runner.
SharedOwnerOf == [c \in Callers |-> o1]

\* A budget that grants no compression at all, and has no limit for the other
\* purposes.
NoCompression == [p \in Purposes |-> IF p = "CONTEXT_COMPRESSION" THEN 0 ELSE NoLimit]
Unlimited == [p \in Purposes |-> NoLimit]

Symmetry == Permutations(AttemptIds)
=============================================================================
