---------------------------- MODULE MCDurableRun ----------------------------
(* Instances of DurableRun for TLC. *)
EXTENDS DurableRun, TLC

Symmetry == Permutations(Runners)
=============================================================================
