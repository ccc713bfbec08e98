--------------------------- MODULE MCSessionTurns ---------------------------
(* Instances of SessionTurns for TLC. *)
EXTENDS SessionTurns, TLC
=============================================================================
