---------------------------- MODULE Conversation ----------------------------
(***************************************************************************)
(* What the Session Companion promises a reader of one Session: the        *)
(* history only ever grows at its end, by one turn of a Run that has none  *)
(* yet, and that Run was shown exactly the turns that precede its own.     *)
(* Claims, versions, processes and Run statuses are invisible here.        *)
(***************************************************************************)
EXTENDS Sequences

CONSTANT RunIds

VARIABLES
    turns,  \* the Runs whose turns were appended, in order
    seen    \* for each turn, the turns its Run had been shown

vars == <<turns, seen>>

Init == turns = <<>> /\ seen = <<>>

Append1(r) ==
    /\ \A i \in DOMAIN turns : turns[i] # r
    /\ turns' = Append(turns, r)
    /\ seen' = Append(seen, turns)

Next == \E r \in RunIds : Append1(r)

Spec == Init /\ [][Next]_vars
=============================================================================
