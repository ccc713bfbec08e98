---------------------------- MODULE RunLifecycle ----------------------------
(***************************************************************************)
(* What a Run Store promises an observer that only ever reads Run records: *)
(* the abstract life of one Run.  The record appears as CREATED at version *)
(* 1; from then on every visible change is one edge of the transition      *)
(* table and counts the version up by exactly one, and the Run carries a   *)
(* waiting reason exactly while it is WAITING.  Leases, owners, clocks,    *)
(* Steps and processes are invisible here.                                 *)
(***************************************************************************)
EXTENDS RunStatus, Naturals

VARIABLES
    status,   \* "ABSENT" until create_run, then a member of RunStatuses
    version,  \* 0 until create_run
    reason    \* waiting_reason

vars == <<status, version, reason>>

Init == status = "ABSENT" /\ version = 0 /\ reason = NoReason

\* create_run persists the CREATED record.
Appear ==
    /\ status = "ABSENT"
    /\ status' = "CREATED"
    /\ version' = 1
    /\ reason' = NoReason

\* transition_run: one edge of the table, one version.
Advance ==
    /\ status \in RunStatuses
    /\ \E s \in AllowedTransitions[status] :
        /\ status' = s
        /\ reason' \in IF s = "WAITING" THEN WaitingReasons ELSE {NoReason}
    /\ version' = version + 1

Next == Appear \/ Advance

Spec == Init /\ [][Next]_vars
=============================================================================
