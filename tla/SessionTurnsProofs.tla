------------------------- MODULE SessionTurnsProofs -------------------------
(***************************************************************************)
(* Proofs about SessionTurns for any number of workers, Runs and faults:   *)
(* the history of a Session is linear, no turn is lost, CONFLICT is final  *)
(* and the stores implement the abstract Conversation.                     *)
(***************************************************************************)
EXTENDS SessionTurns, TLAPS, SequenceTheorems

\* submit is between its claim and the Run.
Creating(w) == pc[w] \in {"createRun", "releaseClaim"}

\* What the call of one worker may rely on, wherever it is.
LocalsHold(w) ==
    /\ pc[w] \notin {"idle", "readTurns", "claimRun"} => loc[w].run \in used
    /\ pc[w] = "readTurns" => loc[w].version <= Len(turns)
    \* The turns were read after the version, and none has been taken back.
    /\ pc[w] = "claimRun" =>
        /\ loc[w].version <= Len(loc[w].turns) /\ Len(loc[w].turns) <= Len(turns)
        /\ \A i \in 1..Len(loc[w].turns) : loc[w].turns[i] = turns[i]
    /\ Creating(w) => /\ runs[loc[w].run] = "ABSENT"
                      /\ claim.run = loc[w].run \/ loc[w].run \in robbed
    /\ pc[w] = "createRun" /\ claim.run = loc[w].run => loc[w].turns = turns
    /\ pc[w] \in {"startRun", "resumeRun", "driving", "complete"} =>
        runs[loc[w].run] # "ABSENT"
    /\ pc[w] = "complete" =>
        /\ loc[w].status \in RunStatuses
        /\ loc[w].status \in TERMINAL_STATUSES => runs[loc[w].run] = loc[w].status
    /\ pc[w] = "statusClaim" /\ claim.run = loc[w].run => loc[w].version = version
    /\ pc[w] \in {"statusTurn", "statusRun"} /\ loc[w].status = "CONFLICT" =>
        claim.run # loc[w].run
    /\ pc[w] = "statusRun" /\ loc[w].status = "CONFLICT" => ~Committed(loc[w].run)

\* A Run that is not there yet has one creator.
OneCreator ==
    \A v, w \in Workers : Creating(v) /\ Creating(w) /\ loc[v].run = loc[w].run => v = w

\* A claim is up to date, and the Run behind it was shown the present turns.
ClaimCurrent ==
    claim.run # NoRun =>
        /\ claim.run \in used /\ claim.version = version /\ ~Committed(claim.run)
        /\ runs[claim.run] # "ABSENT" => shown[claim.run] = turns

\* What is stored agrees with what was shown.
TurnsInOrder ==
    /\ version = Len(turns)
    /\ \A i \in DOMAIN turns : runs[turns[i]] # "ABSENT" /\ shown[turns[i]] = SubSeq(turns, 1, i - 1)
    /\ \A r \in RunIds : runs[r] # "ABSENT" =>
            r \in used /\ history[r] = ToConversationHistory(shown[r])

\* CONFLICT is said of Runs that have lost their claim without a turn.
ConflictsAreOver ==
    \A r \in conflicts : r \in used /\ claim.run # r /\ ~Committed(r)

SessionInv ==
    /\ \A w \in Workers : LocalsHold(w)
    /\ OneCreator /\ ClaimCurrent /\ TurnsInOrder /\ ConflictsAreOver /\ NothingForgotten

------------------------------------------------------------------------------
(* Types. *)

LEMMA StatusFacts ==
    /\ "ABSENT" \notin RunStatuses
    /\ TERMINAL_STATUSES \subseteq RunStatuses
    /\ {"CREATED", "RUNNING", "WAITING", "SUCCEEDED"} \subseteq RunStatuses
    /\ \A s \in RunStatuses : AllowedTransitions[s] \subseteq RunStatuses
    /\ \A s \in TERMINAL_STATUSES : AllowedTransitions[s] = {}
BY DEF RunStatuses, TERMINAL_STATUSES, AllowedTransitions

\* The conversion yields messages of the turns it is given.
LEMMA HistoryType ==
    ASSUME NEW ts \in Seq(RunIds)
    PROVE  ToConversationHistory(ts) \in Seq({"USER", "ASSISTANT"} \X RunIds)
<1> DEFINE n == Len(ts)
<1>1. n \in Nat
    OBVIOUS
<1>2. ASSUME NEW i \in 1..(2 * n)
      PROVE  <<IF i % 2 = 1 THEN "USER" ELSE "ASSISTANT", ts[(i + 1) \div 2]>>
                \in {"USER", "ASSISTANT"} \X RunIds
    <2>1. (i + 1) \div 2 \in 1..n
        BY <1>1
    <2> QED
        BY <2>1
<1> QED
    BY <1>1, <1>2, IsASeq DEF ToConversationHistory

\* What the steps make of a call's locals.
LEMMA LocalsOnReturn ==
    NoLocals \in Locals /\ NoLocals.run = NoRun
BY SessionAssumption DEF Locals, NoLocals

LEMMA LocalsWithRun ==
    ASSUME NEW l \in Locals, NEW r \in RunIds, NEW m, m = [l EXCEPT !.run = r]
    PROVE  /\ m \in Locals /\ m.run = r
           /\ m.version = l.version /\ m.turns = l.turns /\ m.status = l.status
BY DEF Locals

LEMMA LocalsWithVersion ==
    ASSUME NEW l \in Locals, NEW v \in Nat, NEW m, m = [l EXCEPT !.version = v]
    PROVE  /\ m \in Locals /\ m.version = v
           /\ m.run = l.run /\ m.turns = l.turns /\ m.status = l.status
BY DEF Locals

LEMMA LocalsWithTurns ==
    ASSUME NEW l \in Locals, NEW ts \in Seq(RunIds), NEW m, m = [l EXCEPT !.turns = ts]
    PROVE  /\ m \in Locals /\ m.turns = ts
           /\ m.run = l.run /\ m.version = l.version /\ m.status = l.status
BY DEF Locals

LEMMA LocalsWithStatus ==
    ASSUME NEW l \in Locals, NEW m,
           NEW s \in RunStatuses \cup {"ABSENT", "PENDING", "CONFLICT"},
           m = [l EXCEPT !.status = s]
    PROVE  /\ m \in Locals /\ m.status = s
           /\ m.run = l.run /\ m.version = l.version /\ m.turns = l.turns
BY DEF Locals

\* All calls but one are where they were.
Others(w) == \A v \in Workers \ {w} : pc'[v] = pc[v] /\ loc'[v] = loc[v]

Calls ==
    /\ pc \in [Workers -> Places] /\ loc \in [Workers -> Locals]
    /\ \A v \in Workers : pc[v] \in {"idle", "readTurns", "claimRun"} \/ loc[v].run \in RunIds

\* The step of one call leaves the others alone.
LEMMA CallStep ==
    ASSUME TypeOK, NEW w \in Workers, NEW p \in Places, NEW l \in Locals,
           p \in {"idle", "readTurns", "claimRun"} \/ l.run \in RunIds,
           Goto(w, p),
           loc' = [loc EXCEPT ![w] = l] \/ (loc' = loc /\ l = loc[w])
    PROVE  Calls' /\ pc'[w] = p /\ loc'[w] = l /\ Others(w)
BY DEF TypeOK, Calls, Others, Goto

\* A call that ends relies on nothing.
LEMMA CallReturns ==
    ASSUME TypeOK, NEW w \in Workers, Return(w)
    PROVE  Calls' /\ pc'[w] = "idle" /\ Others(w) /\ LocalsHold(w)' /\ ~Creating(w)'
<1>1. Calls' /\ pc'[w] = "idle" /\ Others(w)
    BY CallStep, LocalsOnReturn DEF Return, Places
<1> QED
    BY <1>1 DEF LocalsHold, Creating

\* A step of a call that leaves Session and Runs as they are.
LEMMA CallOnly ==
    ASSUME TypeOK, SessionInv, NEW w \in Workers, Others(w),
           UNCHANGED <<turns, version, claim, runs, history, used, shown, robbed, conflicts>>,
           LocalsHold(w)',
           Creating(w)' => Creating(w) /\ loc'[w].run = loc[w].run
    PROVE  SessionInv'
<1>1. \A v \in Workers : LocalsHold(v)'
    BY DEF SessionInv, LocalsHold, Creating, Committed, Others
<1>2. OneCreator'
    BY DEF SessionInv, OneCreator, Creating, Others
<1>3. ClaimCurrent' /\ TurnsInOrder' /\ ConflictsAreOver' /\ NothingForgotten'
    BY DEF SessionInv, ClaimCurrent, TurnsInOrder, ConflictsAreOver, NothingForgotten, Committed
<1> QED
    BY <1>1, <1>2, <1>3 DEF SessionInv

------------------------------------------------------------------------------
(* Steps of a call that only read, or only move the call. *)

\* The types of everything but the calls.
StoreTypes ==
    /\ turns \in Seq(RunIds) /\ version \in Nat
    /\ claim \in [run : RunIds, version : Nat] \cup {NoClaim}
    /\ runs \in [RunIds -> RunStatuses \cup {"ABSENT"}]
    /\ history \in [RunIds -> Seq({"USER", "ASSISTANT"} \X RunIds)]
    /\ driver \in [RunIds -> Workers \cup {NoWorker}]
    /\ used \in SUBSET RunIds
    /\ faults \in Nat
    /\ shown \in [RunIds -> Seq(RunIds)]
    /\ robbed \in SUBSET RunIds /\ conflicts \in SUBSET RunIds

LEMMA TypeParts == TypeOK <=> StoreTypes /\ Calls
BY DEF TypeOK, StoreTypes, Calls

LEMMA TypePartsNext == TypeOK' <=> StoreTypes' /\ Calls'
BY DEF TypeOK, StoreTypes, Calls

IInv == TypeOK /\ SessionInv

LEMMA ReadingSteps ==
    ASSUME IInv, NEW w \in Workers,
           ReadVersion(w) \/ GetSession(w) \/ StatusVersion(w) \/ ReadTurns(w)
    PROVE  IInv'
<1> USE DEF IInv, sessionVars, runVars, historyVars
<1>1. StoreTypes'
    BY TypeParts DEF StoreTypes, ReadVersion, GetSession, StatusVersion, ReadTurns
<1>2. loc[w] \in Locals /\ version \in Nat /\ turns \in Seq(RunIds)
    BY DEF TypeOK
<1>3. CASE ReadVersion(w)
    <2> DEFINE l == [loc[w] EXCEPT !.version = version]
    <2>1. l \in Locals /\ l.version = version
        BY <1>2, LocalsWithVersion
    <2> HIDE DEF l
    <2>2. Calls' /\ pc'[w] = "readTurns" /\ loc'[w] = l /\ Others(w)
        <3>1. loc' = [loc EXCEPT ![w] = l]
            BY <1>3 DEF ReadVersion, l
        <3> QED
            BY <1>3, <2>1, <3>1, CallStep DEF ReadVersion, Places
    <2>3. LocalsHold(w)' /\ ~Creating(w)'
        BY <1>3, <2>1, <2>2, <1>2 DEF LocalsHold, Creating, ReadVersion, SessionInv, TurnsInOrder
    <2> QED
        BY <1>1, <1>3, <2>2, <2>3, CallOnly, TypePartsNext DEF ReadVersion
<1>4. CASE ReadTurns(w)
    <2> DEFINE l == [loc[w] EXCEPT !.turns = turns]
    <2>1. l \in Locals /\ l.turns = turns /\ l.version = loc[w].version
        BY <1>2, LocalsWithTurns
    <2> HIDE DEF l
    <2>2. Calls' /\ pc'[w] = "claimRun" /\ loc'[w] = l /\ Others(w)
        <3>1. loc' = [loc EXCEPT ![w] = l]
            BY <1>4 DEF ReadTurns, l
        <3> QED
            BY <1>4, <2>1, <3>1, CallStep DEF ReadTurns, Places
    <2>3. LocalsHold(w)' /\ ~Creating(w)'
        BY <1>4, <2>1, <2>2, <1>2 DEF LocalsHold, Creating, ReadTurns, SessionInv
    <2> QED
        BY <1>1, <1>4, <2>2, <2>3, CallOnly, TypePartsNext DEF ReadTurns
<1>5. CASE GetSession(w)
    <2> DEFINE l == [loc[w] EXCEPT !.run = claim.run, !.version = claim.version]
    <2>1. claim.run \in RunIds /\ claim.version \in Nat
        BY <1>5 DEF GetSession, TypeOK
    <2>2. l \in Locals /\ l.run = claim.run
        BY <1>2, <2>1 DEF Locals
    <2> HIDE DEF l
    <2>3. Calls' /\ pc'[w] = "getRun" /\ loc'[w] = l /\ Others(w)
        <3>1. loc' = [loc EXCEPT ![w] = l]
            BY <1>5 DEF GetSession, l
        <3> QED
            BY <1>5, <2>1, <2>2, <3>1, CallStep DEF GetSession, Places
    <2>4. LocalsHold(w)' /\ ~Creating(w)'
        BY <1>5, <2>1, <2>2, <2>3, SessionAssumption
        DEF LocalsHold, Creating, GetSession, SessionInv, ClaimCurrent
    <2> QED
        BY <1>1, <1>5, <2>3, <2>4, CallOnly, TypePartsNext DEF GetSession
<1>6. CASE StatusVersion(w)
    <2>1. PICK r \in RunIds : runs[r] # "ABSENT"
                /\ loc' = [loc EXCEPT ![w].run = r, ![w].version = version]
        BY <1>6 DEF StatusVersion
    <2> DEFINE l == [loc[w] EXCEPT !.run = r, !.version = version]
    <2>2. l \in Locals /\ l.run = r /\ l.version = version
        BY <1>2 DEF Locals
    <2> HIDE DEF l
    <2>3. Calls' /\ pc'[w] = "statusClaim" /\ loc'[w] = l /\ Others(w)
        <3>1. loc' = [loc EXCEPT ![w] = l]
            BY <2>1 DEF l
        <3> QED
            BY <1>6, <2>2, <3>1, CallStep DEF StatusVersion, Places
    <2>4. LocalsHold(w)' /\ ~Creating(w)'
        BY <1>6, <2>1, <2>2, <2>3
        DEF LocalsHold, Creating, StatusVersion, SessionInv, TurnsInOrder
    <2> QED
        BY <1>1, <1>6, <2>3, <2>4, CallOnly, TypePartsNext DEF StatusVersion
<1> QED
    BY <1>3, <1>4, <1>5, <1>6

LEMMA MovingSteps ==
    ASSUME IInv, NEW w \in Workers,
           \/ CreateRunFails(w) \/ GetRun(w) \/ AcquireLease(w) \/ ResumeWaiting(w)
           \/ StatusClaim(w)
    PROVE  IInv'
<1> USE DEF IInv, sessionVars, runVars, historyVars
<1>1. StoreTypes'
    <2>1. CASE AcquireLease(w)
        <3>1. faults' \in Nat
            BY <2>1 DEF AcquireLease, TypeOK
        <3>2. driver' \in [RunIds -> Workers \cup {NoWorker}]
            BY <2>1 DEF AcquireLease, TypeOK
        <3> QED
            BY <2>1, <3>1, <3>2, TypeParts DEF StoreTypes, AcquireLease
    <2> QED
        BY <2>1, TypeParts DEF StoreTypes, CreateRunFails, GetRun, ResumeWaiting, StatusClaim
<1>2. loc[w] \in Locals /\ LocalsHold(w)
    BY DEF TypeOK, SessionInv
<1>3. CASE CreateRunFails(w) \/ AcquireLease(w)
    <2>1. PICK p \in {"releaseClaim", "driving"} :
            /\ Goto(w, p) /\ UNCHANGED loc /\ loc[w].run \in RunIds
            /\ p = "releaseClaim" => pc[w] = "createRun"
            /\ p = "driving" => pc[w] \in {"startRun", "resumeRun"}
        BY <1>3 DEF CreateRunFails, AcquireLease, TypeOK
    <2>2. Calls' /\ pc'[w] = p /\ loc'[w] = loc[w] /\ Others(w)
        BY <1>2, <2>1, CallStep DEF Places
    <2>3. LocalsHold(w)' /\ (Creating(w)' => Creating(w))
        BY <1>2, <1>3, <2>1, <2>2 DEF LocalsHold, Creating, CreateRunFails, AcquireLease
    <2> QED
        BY <1>1, <1>3, <2>2, <2>3, CallOnly, TypePartsNext DEF CreateRunFails, AcquireLease
<1>4. CASE GetRun(w) \/ ResumeWaiting(w) \/ StatusClaim(w)
    <2>1. PICK p \in Places, s \in RunStatuses \cup {"ABSENT", "PENDING", "CONFLICT"} :
            /\ Goto(w, p) /\ loc' = [loc EXCEPT ![w].status = s] /\ loc[w].run \in RunIds
            /\ pc[w] \in {"getRun", "resumeRun"} =>
                /\ s = runs[loc[w].run]
                /\ p = "cleanUp" \/ (p \in {"complete", "resumeRun"} /\ s # "ABSENT")
            /\ pc[w] = "statusClaim" =>
                /\ p = "statusTurn"
                /\ s = "CONFLICT" => claim.run # loc[w].run \/ claim.version # loc[w].version
            /\ pc[w] \in {"getRun", "resumeRun", "statusClaim"}
        <3>1. CASE GetRun(w)
            BY <3>1, StatusFacts DEF GetRun, TypeOK, Places
        <3>2. CASE ResumeWaiting(w)
            BY <3>2, StatusFacts DEF ResumeWaiting, TypeOK, Places
        <3>3. CASE StatusClaim(w)
            <4> DEFINE s == IF claim.run = loc[w].run /\ claim.version = loc[w].version
                            THEN "PENDING" ELSE "CONFLICT"
            <4>1. /\ s \in RunStatuses \cup {"ABSENT", "PENDING", "CONFLICT"}
                  /\ s = "CONFLICT" => claim.run # loc[w].run \/ claim.version # loc[w].version
                OBVIOUS
            <4>2. loc' = [loc EXCEPT ![w].status = s] /\ pc[w] = "statusClaim"
                    /\ Goto(w, "statusTurn") /\ loc[w].run \in RunIds
                BY <3>3 DEF StatusClaim, TypeOK
            <4> QED
                BY <4>1, <4>2 DEF Places
        <3> QED
            BY <1>4, <3>1, <3>2, <3>3
    <2> DEFINE l == [loc[w] EXCEPT !.status = s]
    <2>2. /\ l \in Locals /\ l.status = s
          /\ l.run = loc[w].run /\ l.version = loc[w].version /\ l.turns = loc[w].turns
        BY <1>2, LocalsWithStatus
    <2> HIDE DEF l
    <2>3. Calls' /\ pc'[w] = p /\ loc'[w] = l /\ Others(w)
        <3>1. loc' = [loc EXCEPT ![w] = l]
            BY <2>1 DEF l
        <3> QED
            BY <2>1, <2>2, <3>1, CallStep
    <2>4. UNCHANGED <<turns, version, claim, runs, history, used, shown, robbed, conflicts>>
        BY <1>4 DEF GetRun, ResumeWaiting, StatusClaim
    <2>5. LocalsHold(w)' /\ ~Creating(w)'
        <3>1. loc[w].run \in used /\ ~Creating(w)'
            BY <1>2, <2>1, <2>3 DEF LocalsHold, Creating
        <3>2. CASE pc[w] = "statusClaim"
            <4>1. p = "statusTurn"
                BY <2>1, <3>2
            <4>2. s = "CONFLICT" => claim.run # loc[w].run
                BY <1>2, <2>1, <3>2, SessionAssumption
                DEF LocalsHold, SessionInv, ClaimCurrent, TypeOK
            <4> QED
                BY <2>2, <2>3, <2>4, <3>1, <4>1, <4>2 DEF LocalsHold, Creating
        <3>3. CASE pc[w] \in {"getRun", "resumeRun"}
            <4>1. s = runs[loc[w].run] /\ s \in RunStatuses \cup {"ABSENT"}
                BY <2>1, <3>3 DEF TypeOK
            <4>2. p = "cleanUp" \/ (p \in {"complete", "resumeRun"} /\ s # "ABSENT")
                BY <2>1, <3>3
            <4> QED
                BY <2>2, <2>3, <2>4, <3>1, <4>1, <4>2 DEF LocalsHold, Creating
        <3> QED
            BY <2>1, <3>2, <3>3
    <2> QED
        BY <1>1, <2>3, <2>4, <2>5, CallOnly, TypePartsNext
<1> QED
    BY <1>3, <1>4

LEMMA ReturningSteps ==
    ASSUME IInv, NEW w \in Workers,
           AcquireRefused(w) \/ DriveRefused(w) \/ KeepClaim(w) \/ StatusTurn(w) \/ Fail(w)
    PROVE  IInv'
<1> USE DEF IInv, sessionVars, runVars, historyVars
<1>1. StoreTypes'
    BY TypeParts DEF StoreTypes, AcquireRefused, DriveRefused, KeepClaim, StatusTurn, Fail
<1>2. UNCHANGED <<turns, version, claim, runs, history, used, shown, robbed, conflicts>>
    BY DEF AcquireRefused, DriveRefused, KeepClaim, StatusTurn, Fail
<1>3. CASE Return(w)
    BY <1>1, <1>2, <1>3, CallReturns, CallOnly, TypePartsNext
<1>4. CASE StatusTurn(w) /\ ~Return(w)
    <2>1. /\ ~Committed(loc[w].run) /\ Goto(w, "statusRun") /\ UNCHANGED loc
          /\ pc[w] = "statusTurn" /\ loc[w].run \in RunIds /\ loc[w] \in Locals
        BY <1>4 DEF StatusTurn, TypeOK
    <2>2. Calls' /\ pc'[w] = "statusRun" /\ loc'[w] = loc[w] /\ Others(w)
        BY <2>1, CallStep DEF Places
    <2>3. LocalsHold(w)' /\ ~Creating(w)'
        BY <1>2, <2>1, <2>2 DEF LocalsHold, Creating, SessionInv, Committed
    <2> QED
        BY <1>1, <1>2, <2>2, <2>3, CallOnly, TypePartsNext
<1> QED
    BY <1>3, <1>4 DEF AcquireRefused, DriveRefused, KeepClaim, StatusTurn, Fail

------------------------------------------------------------------------------
(* Steps that change a Run, the claim or the turns. *)

\* A Run that is neither absent nor finished gets another status.
LEMMA RunMoves ==
    ASSUME TypeOK, SessionInv, NEW r \in RunIds, NEW s \in RunStatuses,
           runs[r] \notin TERMINAL_STATUSES \cup {"ABSENT"},
           runs' = [runs EXCEPT ![r] = s],
           UNCHANGED <<turns, version, claim, history, used, shown, robbed, conflicts>>
    PROVE  /\ ClaimCurrent' /\ TurnsInOrder' /\ ConflictsAreOver' /\ NothingForgotten'
           /\ \A v \in Workers : pc'[v] = pc[v] /\ loc'[v] = loc[v] => LocalsHold(v)'
<1>1. \A q \in RunIds : runs'[q] = IF q = r THEN s ELSE runs[q]
    BY DEF TypeOK
<1>2. runs[r] \in {"CREATED", "RUNNING", "WAITING"}
    BY DEF TypeOK, RunStatuses, TERMINAL_STATUSES
<1>3. ASSUME NEW v \in Workers, pc'[v] = pc[v], loc'[v] = loc[v] PROVE LocalsHold(v)'
    <2>1. LocalsHold(v) /\ used \subseteq RunIds
        BY DEF SessionInv, TypeOK
    <2> QED
        BY <1>1, <1>3, <2>1, StatusFacts DEF LocalsHold, Creating, Committed
<1>4. ClaimCurrent'
    BY <1>1, StatusFacts DEF ClaimCurrent, SessionInv, Committed, TypeOK
<1>5. TurnsInOrder' /\ ConflictsAreOver'
    <2>1. \A i \in DOMAIN turns : turns[i] \in RunIds
        BY DEF TypeOK
    <2> QED
        BY <1>1, <2>1, StatusFacts DEF TurnsInOrder, ConflictsAreOver, SessionInv, Committed
<1>6. NothingForgotten'
    BY <1>1, <1>2 DEF NothingForgotten, SessionInv, Committed
<1> QED
    BY <1>3, <1>4, <1>5, <1>6

LEMMA RunSteps ==
    ASSUME IInv, NEW w \in Workers, RunBegins(w) \/ RunReturns(w)
    PROVE  IInv'
<1> USE DEF IInv, sessionVars, runVars, historyVars
<1> DEFINE r == loc[w].run
<1>1. r \in RunIds /\ loc[w] \in Locals /\ LocalsHold(w) /\ pc[w] = "driving" /\ driver[r] = w
    BY DEF TypeOK, SessionInv, RunBegins, RunReturns
<1>2. PICK s \in RunStatuses :
        /\ runs' = [runs EXCEPT ![r] = s]
        /\ RunReturns(w) => loc' = [loc EXCEPT ![w].status = s]
        /\ runs[r] \notin TERMINAL_STATUSES \cup {"ABSENT"}
    <2>1. CASE RunBegins(w)
        <3>1. runs[r] \in {"CREATED", "WAITING"} /\ runs' = [runs EXCEPT ![r] = "RUNNING"]
            BY <2>1 DEF RunBegins
        <3>2. ~RunReturns(w)
            BY <2>1, <1>1 DEF RunBegins, RunReturns, Goto, TypeOK
        <3> QED
            BY <3>1, <3>2 DEF TERMINAL_STATUSES, RunStatuses
    <2>2. CASE RunReturns(w)
        <3>1. runs[r] \in {"CREATED", "RUNNING"}
            BY <2>2 DEF RunReturns
        <3>2. PICK s \in AllowedTransitions[runs[r]] :
                runs' = [runs EXCEPT ![r] = s] /\ loc' = [loc EXCEPT ![w].status = s]
            BY <2>2 DEF RunReturns
        <3>3. s \in RunStatuses
            BY <3>1, <3>2, StatusFacts
        <3> QED
            BY <3>1, <3>2, <3>3 DEF TERMINAL_STATUSES
    <2> QED
        BY <2>1, <2>2
<1>3. UNCHANGED <<turns, version, claim, history, used, shown, robbed, conflicts>>
    BY DEF RunBegins, RunReturns
<1>4. StoreTypes'
    BY <1>2, <1>3, TypeParts DEF StoreTypes, RunBegins, RunReturns
<1>5. /\ ClaimCurrent' /\ TurnsInOrder' /\ ConflictsAreOver' /\ NothingForgotten'
      /\ \A v \in Workers : pc'[v] = pc[v] /\ loc'[v] = loc[v] => LocalsHold(v)'
    BY <1>1, <1>2, <1>3, RunMoves
<1>6. CASE RunBegins(w)
    <2>1. pc' = pc /\ loc' = loc
        BY <1>6 DEF RunBegins
    <2>2. OneCreator' /\ Calls'
        BY <2>1, TypeParts DEF OneCreator, Creating, SessionInv, Calls
    <2> QED
        BY <1>4, <1>5, <2>1, <2>2, TypePartsNext DEF SessionInv
<1>7. CASE RunReturns(w)
    <2> DEFINE l == [loc[w] EXCEPT !.status = s]
    <2>1. l \in Locals /\ l.status = s /\ l.run = r
        BY <1>1, LocalsWithStatus
    <2> HIDE DEF l
    <2>2. Calls' /\ pc'[w] = "complete" /\ loc'[w] = l /\ Others(w)
        <3>1. loc' = [loc EXCEPT ![w] = l] /\ Goto(w, "complete")
            BY <1>2, <1>7 DEF RunReturns, l
        <3> QED
            BY <1>1, <2>1, <3>1, CallStep DEF Places
    <2>3. runs'[r] = s
        BY <1>1, <1>2 DEF TypeOK
    <2>4. LocalsHold(w)'
        BY <1>1, <1>3, <2>1, <2>2, <2>3, StatusFacts DEF LocalsHold, Creating
    <2>5. \A v \in Workers : LocalsHold(v)'
        BY <1>5, <2>2, <2>4 DEF Others
    <2>6. OneCreator'
        BY <2>2 DEF OneCreator, Creating, SessionInv, Others
    <2> QED
        BY <1>4, <1>5, <2>2, <2>5, <2>6, TypePartsNext DEF SessionInv
<1> QED
    BY <1>6, <1>7

LEMMA ApplicationSteps ==
    ASSUME IInv, NEW r \in RunIds, ApplicationDrives(r)
    PROVE  IInv'
<1> USE DEF IInv, sessionVars, runVars, historyVars
<1>1. PICK s \in AllowedTransitions[runs[r]] : runs' = [runs EXCEPT ![r] = s]
    BY DEF ApplicationDrives
<1>2. runs[r] \in RunStatuses
    BY DEF ApplicationDrives, TypeOK
<1>3. s \in RunStatuses /\ runs[r] \notin TERMINAL_STATUSES \cup {"ABSENT"}
    BY <1>1, <1>2, StatusFacts
<1>4. UNCHANGED <<turns, version, claim, history, used, shown, robbed, conflicts>>
        /\ pc' = pc /\ loc' = loc
    BY DEF ApplicationDrives
<1>5. SessionInv'
    <2>1. /\ ClaimCurrent' /\ TurnsInOrder' /\ ConflictsAreOver' /\ NothingForgotten'
          /\ \A v \in Workers : LocalsHold(v)'
        BY <1>1, <1>3, <1>4, RunMoves
    <2>2. OneCreator'
        BY <1>4 DEF OneCreator, Creating, SessionInv
    <2> QED
        BY <2>1, <2>2 DEF SessionInv
<1>6. StoreTypes' /\ Calls'
    BY <1>1, <1>3, <1>4, TypeParts DEF StoreTypes, Calls, ApplicationDrives
<1> QED
    BY <1>5, <1>6, TypePartsNext

LEMMA ClaimStep ==
    ASSUME IInv, NEW w \in Workers, ClaimRun(w)
    PROVE  IInv'
<1> USE DEF IInv, sessionVars, runVars, historyVars
<1>1. PICK r \in RunIds \ used :
        /\ used' = used \cup {r}
        /\ \/ /\ ClaimAllowed(r, loc[w].version)
              /\ claim' = [run |-> r, version |-> version]
              /\ loc' = [loc EXCEPT ![w].run = r] /\ Goto(w, "createRun")
           \/ Return(w) /\ claim' = claim
    BY DEF ClaimRun
<1>2. /\ UNCHANGED <<turns, version, runs, history, driver, faults, shown, robbed, conflicts>>
      /\ pc[w] = "claimRun" /\ loc[w] \in Locals /\ LocalsHold(w) /\ used \subseteq RunIds
    BY DEF ClaimRun, TypeOK, SessionInv
<1>3. StoreTypes'
    BY <1>1, <1>2, TypeParts DEF StoreTypes
\* The identity is new: nobody names it, and nothing has happened to it.
<1>4. /\ runs[r] = "ABSENT" /\ ~Committed(r) /\ claim.run # r /\ r \notin conflicts
      /\ \A v \in Workers : pc[v] \notin {"idle", "readTurns", "claimRun"} => loc[v].run # r
    BY <1>1, SessionAssumption
    DEF SessionInv, TurnsInOrder, Committed, ClaimCurrent, ConflictsAreOver, LocalsHold, TypeOK
<1>5. CASE Return(w) /\ claim' = claim
    <2>1. Calls' /\ Others(w) /\ LocalsHold(w)' /\ ~Creating(w)'
        BY <1>5, CallReturns
    <2>2. \A v \in Workers : LocalsHold(v)'
        BY <1>1, <1>2, <1>5, <2>1 DEF SessionInv, LocalsHold, Creating, Committed, Others
    <2>3. OneCreator'
        BY <2>1 DEF SessionInv, OneCreator, Creating, Others
    <2>4. ClaimCurrent' /\ TurnsInOrder' /\ ConflictsAreOver' /\ NothingForgotten'
        BY <1>1, <1>2, <1>5
        DEF SessionInv, ClaimCurrent, TurnsInOrder, ConflictsAreOver, NothingForgotten, Committed
    <2> QED
        BY <1>3, <2>1, <2>2, <2>3, <2>4, TypePartsNext DEF SessionInv
<1>6. CASE /\ ClaimAllowed(r, loc[w].version)
           /\ claim' = [run |-> r, version |-> version]
           /\ loc' = [loc EXCEPT ![w].run = r] /\ Goto(w, "createRun")
    <2> DEFINE l == [loc[w] EXCEPT !.run = r]
    <2>1. l \in Locals /\ l.run = r /\ l.turns = loc[w].turns
        BY <1>1, <1>2, LocalsWithRun
    <2> HIDE DEF l
    <2>2. Calls' /\ pc'[w] = "createRun" /\ loc'[w] = l /\ Others(w)
        <3>1. loc' = [loc EXCEPT ![w] = l]
            BY <1>6 DEF l
        <3> QED
            BY <1>1, <1>6, <2>1, <3>1, CallStep DEF Places
    <2>3. claim'.run = r /\ claim'.version = version
        BY <1>6
    \* The version is still the one read before the turns: they are all there.
    <2>4. loc[w].turns = turns
        <3>1. loc[w].version = Len(turns) /\ claim = NoClaim
            BY <1>6 DEF ClaimAllowed, SessionInv, TurnsInOrder
        <3>2. /\ loc[w].turns \in Seq(RunIds) /\ turns \in Seq(RunIds)
              /\ Len(loc[w].turns) = Len(turns)
              /\ \A i \in 1..Len(turns) : loc[w].turns[i] = turns[i]
            BY <1>2, <3>1 DEF LocalsHold, Locals, TypeOK
        <3> QED
            BY <3>2, SeqEqual
    <2>5. \A v \in Workers : LocalsHold(v)'
        <3>1. LocalsHold(w)'
            BY <1>1, <1>2, <1>4, <2>1, <2>2, <2>3, <2>4 DEF LocalsHold, Creating
        <3>2. ASSUME NEW v \in Workers, v # w PROVE LocalsHold(v)'
            <4>1. LocalsHold(v) /\ pc'[v] = pc[v] /\ loc'[v] = loc[v]
                BY <2>2, <3>2 DEF SessionInv, Others
            <4>2. claim = NoClaim
                BY <1>6 DEF ClaimAllowed
            <4> QED
                BY <1>1, <1>2, <1>4, <2>3, <4>1, <4>2, SessionAssumption
                DEF LocalsHold, Creating, Committed, NoClaim, TypeOK
        <3> QED
            BY <3>1, <3>2
    <2>6. OneCreator'
        BY <1>4, <2>1, <2>2 DEF SessionInv, OneCreator, Creating, Others
    <2>7. ClaimCurrent'
        BY <1>1, <1>2, <1>4, <2>3 DEF ClaimCurrent, Committed
    <2>8. TurnsInOrder' /\ ConflictsAreOver'
        BY <1>1, <1>2, <1>4, <2>3 DEF SessionInv, TurnsInOrder, ConflictsAreOver, Committed
    <2>9. NothingForgotten'
        <3>1. claim.run = NoRun
            BY <1>6 DEF ClaimAllowed, NoClaim
        <3> QED
            BY <1>2, <3>1, SessionAssumption DEF SessionInv, NothingForgotten, Committed
    <2> QED
        BY <1>3, <2>2, <2>5, <2>6, <2>7, <2>8, <2>9, TypePartsNext DEF SessionInv
<1> QED
    BY <1>1, <1>5, <1>6

LEMMA CreateStep ==
    ASSUME IInv, NEW w \in Workers, CreateRun(w)
    PROVE  IInv'
<1> USE DEF IInv, sessionVars, runVars, historyVars
<1> DEFINE r == loc[w].run
<1>1. /\ pc[w] = "createRun" /\ r \in RunIds /\ loc[w] \in Locals /\ LocalsHold(w)
      /\ loc[w].turns \in Seq(RunIds) /\ used \subseteq RunIds
    BY DEF CreateRun, TypeOK, SessionInv, Locals
<1>2. UNCHANGED <<turns, version, claim, driver, used, loc, faults, robbed, conflicts>>
    BY DEF CreateRun
<1>3. /\ \A q \in RunIds : runs'[q] = IF q = r THEN "CREATED" ELSE runs[q]
      /\ \A q \in RunIds : shown'[q] = IF q = r THEN loc[w].turns ELSE shown[q]
      /\ \A q \in RunIds : history'[q] =
            IF q = r THEN ToConversationHistory(loc[w].turns) ELSE history[q]
    BY <1>1 DEF CreateRun, TypeOK
<1>4. StoreTypes'
    <2>1. ToConversationHistory(loc[w].turns) \in Seq({"USER", "ASSISTANT"} \X RunIds)
        BY <1>1, HistoryType
    <2>2. history' \in [RunIds -> Seq({"USER", "ASSISTANT"} \X RunIds)]
        BY <2>1, <1>1 DEF CreateRun, TypeOK
    <2>3. /\ runs' \in [RunIds -> RunStatuses \cup {"ABSENT"}]
          /\ shown' \in [RunIds -> Seq(RunIds)]
        BY <1>1, StatusFacts DEF CreateRun, TypeOK
    <2> QED
        BY <1>2, <2>2, <2>3, TypeParts DEF StoreTypes
<1>5. Calls' /\ pc'[w] = "startRun" /\ loc'[w] = loc[w] /\ Others(w)
    BY <1>1, <1>2, CallStep DEF CreateRun, Places
\* Nothing is known of the Run but its claim.
<1>6. runs[r] = "ABSENT" /\ (claim.run = r \/ r \in robbed) /\ r \in used /\ ~Committed(r)
    BY <1>1 DEF LocalsHold, Creating, SessionInv, TurnsInOrder, Committed
<1>7. \A v \in Workers : LocalsHold(v)'
    <2>1. LocalsHold(w)'
        BY <1>1, <1>2, <1>3, <1>5, <1>6 DEF LocalsHold, Creating
    <2>2. ASSUME NEW v \in Workers, v # w PROVE LocalsHold(v)'
        <3>1. LocalsHold(v) /\ pc'[v] = pc[v] /\ loc'[v] = loc[v]
            BY <1>5, <2>2 DEF SessionInv, Others
        <3>2. Creating(v) => loc[v].run # r
            BY <1>1, <2>2 DEF SessionInv, OneCreator, Creating
        <3>3. loc[v].run = r => pc[v] \notin {"startRun", "resumeRun", "driving", "complete"}
            BY <1>6, <3>1 DEF LocalsHold
        <3> QED
            BY <1>1, <1>2, <1>3, <3>1, <3>2, <3>3 DEF LocalsHold, Creating, Committed
    <2> QED
        BY <2>1, <2>2
<1>8. OneCreator'
    BY <1>5 DEF SessionInv, OneCreator, Creating, Others
<1>9. ClaimCurrent'
    <2>1. claim.run = r => loc[w].turns = turns
        BY <1>1 DEF LocalsHold
    <2> QED
        BY <1>1, <1>2, <1>3, <1>6, <2>1 DEF SessionInv, ClaimCurrent, Committed
<1>10. TurnsInOrder' /\ ConflictsAreOver'
    <2>1. \A i \in DOMAIN turns : turns[i] \in RunIds /\ turns[i] # r
        BY <1>6 DEF Committed, TypeOK
    <2> QED
        BY <1>2, <1>3, <1>6, <2>1
        DEF SessionInv, TurnsInOrder, ConflictsAreOver, Committed
<1>11. NothingForgotten'
    BY <1>2, <1>3, <1>6 DEF SessionInv, NothingForgotten, Committed
<1> QED
    BY <1>4, <1>5, <1>7, <1>8, <1>9, <1>10, <1>11, TypePartsNext DEF SessionInv

LEMMA ReleaseSteps ==
    ASSUME IInv, NEW w \in Workers, CleanUp(w) \/ ReleaseAfterRun(w)
    PROVE  IInv'
<1> USE DEF IInv, sessionVars, runVars, historyVars
<1> DEFINE r == loc[w].run
<1>1. /\ pc[w] \in {"cleanUp", "complete", "releaseClaim"} /\ r \in RunIds
      /\ LocalsHold(w) /\ Return(w)
    BY DEF CleanUp, ReleaseAfterRun, TypeOK, SessionInv
<1>2. UNCHANGED <<turns, version, runs, history, driver, used, faults, shown, conflicts>>
    BY DEF CleanUp, ReleaseAfterRun
<1>3. (claim' = claim /\ claim.run # r) \/ (claim' = NoClaim /\ claim.run = r)
    <2>1. ReleaseClaim(w)
        BY DEF CleanUp, ReleaseAfterRun
    <2> QED
        BY <2>1, Zenon DEF ReleaseClaim
<1>4. claim'.run = IF claim.run = r THEN NoRun ELSE claim.run
    BY <1>3 DEF NoClaim
<1>5. robbed \subseteq robbed' /\ robbed' \subseteq RunIds
    BY <1>1 DEF CleanUp, ReleaseAfterRun, TypeOK
<1>6. StoreTypes'
    BY <1>2, <1>3, <1>5, TypeParts DEF StoreTypes
<1>7. Calls' /\ Others(w) /\ LocalsHold(w)' /\ ~Creating(w)'
    BY <1>1, CallReturns
\* Whoever loses the claim has failed, was not created by its one creator, or
\* is recorded as robbed.
<1>8. claim.run = r =>
        \/ r \in robbed'
        \/ runs[r] \in TERMINAL_STATUSES \ {"SUCCEEDED"}
        \/ Creating(w)
    <2>1. CASE CleanUp(w)
        BY <2>1 DEF CleanUp
    <2>2. CASE ReleaseAfterRun(w) /\ pc[w] = "complete"
        <3>1. loc[w].status \in TERMINAL_STATUSES \ {"SUCCEEDED"}
            BY <2>2 DEF ReleaseAfterRun
        <3> QED
            BY <1>1, <2>2, <3>1 DEF LocalsHold
    <2>3. CASE pc[w] = "releaseClaim"
        BY <2>3 DEF Creating
    <2> QED
        BY <1>1, <2>1, <2>2, <2>3 DEF ReleaseAfterRun
<1>9. "ABSENT" \notin TERMINAL_STATUSES /\ Creating(w) => runs[r] = "ABSENT"
    BY <1>1, StatusFacts DEF LocalsHold
<1>10. \A v \in Workers : LocalsHold(v)'
    <2>1. ASSUME NEW v \in Workers, v # w PROVE LocalsHold(v)'
        <3>1. LocalsHold(v) /\ pc'[v] = pc[v] /\ loc'[v] = loc[v]
            BY <1>7, <2>1 DEF SessionInv, Others
        <3>2. Creating(v) => loc[v].run # r \/ claim.run # r \/ r \in robbed'
            <4>1. Creating(v) /\ Creating(w) => loc[v].run # r
                BY <2>1 DEF SessionInv, OneCreator
            <4>2. Creating(v) /\ loc[v].run = r => runs[r] = "ABSENT"
                BY <3>1 DEF LocalsHold
            <4> QED
                BY <1>8, <1>9, <4>1, <4>2, StatusFacts
        <3>3. pc[v] \notin {"idle", "readTurns", "claimRun"} => loc[v].run # NoRun
            BY SessionAssumption DEF TypeOK
        <3> QED
            BY <1>2, <1>4, <1>5, <3>1, <3>2, <3>3 DEF LocalsHold, Creating, Committed
    <2> QED
        BY <1>7, <2>1
<1>11. OneCreator'
    BY <1>7 DEF SessionInv, OneCreator, Creating, Others
<1>12. ClaimCurrent' /\ TurnsInOrder' /\ ConflictsAreOver'
    <2>1. ClaimCurrent'
        BY <1>2, <1>3, <1>4 DEF SessionInv, ClaimCurrent, Committed
    <2>2. TurnsInOrder'
        BY <1>2 DEF SessionInv, TurnsInOrder
    <2>3. ConflictsAreOver'
        BY <1>2, <1>4, SessionAssumption DEF SessionInv, ConflictsAreOver, Committed, TypeOK
    <2> QED
        BY <2>1, <2>2, <2>3
<1>13. NothingForgotten'
    <2>1. claim.run = r => r \in robbed'
                \/ runs[r] \notin {"CREATED", "RUNNING", "WAITING", "SUCCEEDED"}
        BY <1>8, <1>9 DEF TERMINAL_STATUSES
    <2> QED
        BY <1>2, <1>4, <1>5, <2>1 DEF SessionInv, NothingForgotten, Committed
<1> QED
    BY <1>6, <1>7, <1>10, <1>11, <1>12, <1>13, TypePartsNext DEF SessionInv

LEMMA StatusRunStep ==
    ASSUME IInv, NEW w \in Workers, StatusRun(w)
    PROVE  IInv'
<1> USE DEF IInv, sessionVars, runVars, historyVars
<1> DEFINE r == loc[w].run
<1>1. /\ pc[w] = "statusRun" /\ r \in RunIds /\ LocalsHold(w) /\ Return(w)
      /\ UNCHANGED <<turns, version, claim, runs, history, driver, used, faults, shown, robbed>>
    BY DEF StatusRun, TypeOK, SessionInv
<1>2. conflicts' = conflicts \/ (conflicts' = conflicts \cup {r} /\ loc[w].status = "CONFLICT")
    BY DEF StatusRun
<1>3. StoreTypes'
    BY <1>1, <1>2, TypeParts DEF StoreTypes
<1>4. Calls' /\ Others(w) /\ LocalsHold(w)' /\ ~Creating(w)'
    BY <1>1, CallReturns
<1>5. \A v \in Workers : LocalsHold(v)'
    BY <1>1, <1>4 DEF SessionInv, LocalsHold, Creating, Committed, Others
<1>6. OneCreator'
    BY <1>4 DEF SessionInv, OneCreator, Creating, Others
<1>7. ClaimCurrent' /\ TurnsInOrder' /\ NothingForgotten'
    BY <1>1 DEF SessionInv, ClaimCurrent, TurnsInOrder, NothingForgotten, Committed
<1>8. ConflictsAreOver'
    BY <1>1, <1>2 DEF SessionInv, ConflictsAreOver, Committed, LocalsHold
<1> QED
    BY <1>3, <1>4, <1>5, <1>6, <1>7, <1>8, TypePartsNext DEF SessionInv

\* What the appended turn leaves of the old ones.
LEMMA AppendTurn ==
    ASSUME NEW ts \in Seq(RunIds), NEW r \in RunIds
    PROVE  /\ Append(ts, r) \in Seq(RunIds) /\ Len(Append(ts, r)) = Len(ts) + 1
           /\ DOMAIN Append(ts, r) = 1..(Len(ts) + 1) /\ DOMAIN ts = 1..Len(ts)
           /\ Append(ts, r)[Len(ts) + 1] = r
           /\ \A i \in 1..Len(ts) : Append(ts, r)[i] = ts[i]
           /\ \A i \in 1..Len(ts) : SubSeq(Append(ts, r), 1, i - 1) = SubSeq(ts, 1, i - 1)
           /\ SubSeq(Append(ts, r), 1, Len(ts)) = ts
<1>1. /\ Append(ts, r) \in Seq(RunIds) /\ Len(Append(ts, r)) = Len(ts) + 1
      /\ DOMAIN Append(ts, r) = 1..(Len(ts) + 1) /\ DOMAIN ts = 1..Len(ts)
      /\ Append(ts, r)[Len(ts) + 1] = r
      /\ \A i \in 1..Len(ts) : Append(ts, r)[i] = ts[i]
    OBVIOUS
<1> DEFINE a == Append(ts, r)
<1> HIDE DEF a
<1>2. ASSUME NEW k \in 0..Len(ts) PROVE SubSeq(a, 1, k) = SubSeq(ts, 1, k)
    <2>1. k \in Nat /\ k <= Len(ts) /\ Len(ts) \in Nat
        OBVIOUS
    <2>2. /\ SubSeq(a, 1, k) \in Seq(RunIds) /\ Len(SubSeq(a, 1, k)) = k
          /\ \A j \in 1..k : SubSeq(a, 1, k)[j] = a[j]
        BY <1>1, <2>1 DEF a
    <2>3. /\ SubSeq(ts, 1, k) \in Seq(RunIds) /\ Len(SubSeq(ts, 1, k)) = k
          /\ \A j \in 1..k : SubSeq(ts, 1, k)[j] = ts[j]
        BY <2>1
    <2>4. \A j \in 1..k : a[j] = ts[j]
        BY <1>1, <2>1 DEF a
    <2> QED
        BY <2>2, <2>3, <2>4, SeqEqual
<1>3. SubSeq(ts, 1, Len(ts)) = ts
    <2>1. /\ SubSeq(ts, 1, Len(ts)) \in Seq(RunIds) /\ Len(SubSeq(ts, 1, Len(ts))) = Len(ts)
          /\ \A j \in 1..Len(ts) : SubSeq(ts, 1, Len(ts))[j] = ts[j]
        OBVIOUS
    <2> QED
        BY <2>1, SeqEqual
<1>4. \A i \in 1..Len(ts) : i - 1 \in 0..Len(ts)
    OBVIOUS
<1> QED
    BY <1>1, <1>2, <1>3, <1>4 DEF a

LEMMA CommitStep ==
    ASSUME IInv, NEW w \in Workers, CommitTurn(w)
    PROVE  IInv'
<1> USE DEF IInv, sessionVars, runVars, historyVars
<1> DEFINE r == loc[w].run
<1>1. /\ pc[w] = "complete" /\ r \in RunIds /\ LocalsHold(w) /\ Return(w)
      /\ loc[w].status = "SUCCEEDED"
      /\ UNCHANGED <<runs, history, driver, used, faults, shown, robbed, conflicts>>
    BY DEF CommitTurn, TypeOK, SessionInv
<1>2. Calls' /\ Others(w) /\ LocalsHold(w)' /\ ~Creating(w)'
    BY <1>1, CallReturns
<1>3. CASE UNCHANGED sessionVars
    <2>1. StoreTypes'
        BY <1>1, <1>3, TypeParts DEF StoreTypes
    <2> QED
        BY <1>1, <1>2, <1>3, <2>1, CallOnly, TypePartsNext
<1>4. CASE ~Committed(r) /\ CommitAllowed(w) /\ turns' = Append(turns, r)
            /\ version' = version + 1 /\ claim' = NoClaim
    <2>1. claim.run = r /\ claim.run # NoRun /\ claim'.run = NoRun
        BY <1>1, <1>4, SessionAssumption DEF CommitAllowed, NoClaim
    <2>2. /\ turns \in Seq(RunIds) /\ version = Len(turns) /\ version \in Nat
          /\ used \subseteq RunIds /\ conflicts \subseteq RunIds
        BY DEF SessionInv, TurnsInOrder, TypeOK
    <2>3. /\ turns' \in Seq(RunIds) /\ Len(turns') = version + 1
          /\ DOMAIN turns' = 1..(version + 1) /\ DOMAIN turns = 1..version
          /\ turns'[version + 1] = r
          /\ \A i \in 1..version : turns'[i] = turns[i]
          /\ \A i \in 1..version : SubSeq(turns', 1, i - 1) = SubSeq(turns, 1, i - 1)
          /\ SubSeq(turns', 1, version) = turns
        BY <1>1, <1>4, <2>2, AppendTurn
    <2>4. runs[r] # "ABSENT" /\ shown[r] = turns
        <3>1. runs[r] # "ABSENT"
            BY <1>1 DEF LocalsHold
        <3> QED
            BY <2>1, <3>1 DEF SessionInv, ClaimCurrent
    <2>5. \A q \in RunIds : Committed(q)' <=> Committed(q) \/ q = r
        BY <2>2, <2>3 DEF Committed
    <2>6. StoreTypes'
        BY <1>1, <1>4, <2>2, <2>3, TypeParts DEF StoreTypes
    <2>7. \A v \in Workers : LocalsHold(v)'
        <3>1. ASSUME NEW v \in Workers, v # w PROVE LocalsHold(v)'
            <4>1. LocalsHold(v) /\ pc'[v] = pc[v] /\ loc'[v] = loc[v] /\ loc[v] \in Locals
                BY <1>2, <3>1 DEF SessionInv, Others, TypeOK
            <4>2. pc[v] \notin {"idle", "readTurns", "claimRun"} =>
                    loc[v].run # NoRun /\ loc[v].run \in RunIds
                BY SessionAssumption DEF TypeOK
            <4>3. Creating(v) => loc[v].run # r
                BY <2>4, <4>1 DEF LocalsHold
            <4>4. pc[v] = "claimRun" =>
                    /\ loc[v].version <= Len(loc[v].turns) /\ Len(loc[v].turns) <= Len(turns')
                    /\ \A i \in 1..Len(loc[v].turns) : loc[v].turns[i] = turns'[i]
                <5>1. Len(loc[v].turns) \in Nat /\ loc[v].version \in Nat
                    BY <4>1 DEF Locals
                <5> QED
                    BY <2>2, <2>3, <4>1, <5>1 DEF LocalsHold
            <4>5. pc[v] = "readTurns" => loc[v].version <= Len(turns')
                <5>1. loc[v].version \in Nat
                    BY <4>1 DEF Locals
                <5> QED
                    BY <2>2, <2>3, <4>1, <5>1 DEF LocalsHold
            <4>6. pc[v] \in {"statusTurn", "statusRun"} /\ loc[v].status = "CONFLICT" =>
                    loc[v].run # r
                BY <2>1, <4>1 DEF LocalsHold
            <4> QED
                BY <1>1, <2>1, <2>5, <4>1, <4>2, <4>3, <4>4, <4>5, <4>6 DEF LocalsHold, Creating
        <3> QED
            BY <1>2, <3>1
    <2>8. OneCreator' /\ ClaimCurrent'
        BY <1>2, <2>1 DEF SessionInv, OneCreator, ClaimCurrent, Creating, Others
    <2>9. TurnsInOrder'
        <3>1. ASSUME NEW i \in DOMAIN turns'
              PROVE  runs'[turns'[i]] # "ABSENT" /\ shown'[turns'[i]] = SubSeq(turns', 1, i - 1)
            <4>1. CASE i \in 1..version
                BY <1>1, <2>3, <4>1 DEF SessionInv, TurnsInOrder
            <4>2. CASE i = version + 1
                <5>1. i - 1 = version
                    BY <4>2, <2>2
                <5> QED
                    BY <1>1, <2>3, <2>4, <4>2, <5>1
            <4> QED
                BY <2>2, <2>3, <4>1, <4>2
        <3>2. version' = Len(turns')
            BY <1>4, <2>3
        <3> QED
            BY <1>1, <3>1, <3>2 DEF SessionInv, TurnsInOrder
    <2>10. ConflictsAreOver'
        BY <1>1, <2>1, <2>2, <2>5, SessionAssumption DEF SessionInv, ConflictsAreOver
    <2>11. NothingForgotten'
        BY <1>1, <2>1, <2>5 DEF SessionInv, NothingForgotten
    <2> QED
        BY <1>2, <2>6, <2>7, <2>8, <2>9, <2>10, <2>11, TypePartsNext DEF SessionInv
<1> QED
    BY <1>3, <1>4 DEF CommitTurn

------------------------------------------------------------------------------
(* The theorems. *)

LEMMA InvInit == Init => IInv
<1> SUFFICES ASSUME Init PROVE IInv
    OBVIOUS
<1>1. StoreTypes
    BY SessionAssumption DEF Init, StoreTypes, NoClaim
<1>2. Calls
    BY LocalsOnReturn DEF Init, Calls, Places
<1>3. \A w \in Workers : LocalsHold(w) /\ ~Creating(w)
    BY DEF Init, LocalsHold, Creating
<1>4. OneCreator
    BY <1>3 DEF OneCreator
<1>5. ClaimCurrent /\ TurnsInOrder /\ ConflictsAreOver /\ NothingForgotten
    BY DEF Init, ClaimCurrent, TurnsInOrder, ConflictsAreOver, NothingForgotten, NoClaim
<1> QED
    BY <1>1, <1>2, <1>3, <1>4, <1>5, TypeParts DEF IInv, SessionInv

LEMMA InvStep == IInv /\ [Next]_vars => IInv'
<1> SUFFICES ASSUME IInv, [Next]_vars PROVE IInv'
    OBVIOUS
<1>1. ASSUME NEW w \in Workers, ReadVersion(w) \/ GetSession(w) \/ StatusVersion(w) PROVE IInv'
    BY <1>1, ReadingSteps
<1>2. ASSUME NEW w \in Workers, Fail(w) PROVE IInv'
    BY <1>2, ReturningSteps
<1>3. ASSUME NEW w \in Workers, Advance(w) PROVE IInv'
    BY <1>3, ReadingSteps, MovingSteps, ReturningSteps, RunSteps, ClaimStep, CreateStep,
       ReleaseSteps, CommitStep, StatusRunStep
    DEF Advance
<1>4. ASSUME NEW r \in RunIds, ApplicationDrives(r) PROVE IInv'
    BY <1>4, ApplicationSteps
<1>5. CASE UNCHANGED vars
    <2>1. /\ UNCHANGED <<turns, version, claim, runs, history, driver, used, pc, loc, faults>>
          /\ UNCHANGED <<shown, robbed, conflicts>>
        BY <1>5 DEF vars, sessionVars, runVars, historyVars
    <2>2. StoreTypes' /\ Calls'
        BY <2>1, TypeParts DEF IInv, StoreTypes, Calls
    <2>3. \A w \in Workers : LocalsHold(w)'
        BY <2>1 DEF IInv, SessionInv, LocalsHold, Creating, Committed
    <2>4. OneCreator' /\ ClaimCurrent' /\ TurnsInOrder' /\ ConflictsAreOver' /\ NothingForgotten'
        BY <2>1 DEF IInv, SessionInv, OneCreator, Creating, ClaimCurrent, TurnsInOrder,
            ConflictsAreOver, NothingForgotten, Committed
    <2> QED
        BY <2>2, <2>3, <2>4, TypePartsNext DEF IInv, SessionInv
<1> QED
    BY <1>1, <1>2, <1>3, <1>4, <1>5 DEF Next

LEMMA Invariance == Spec => []IInv
<1> QED
    BY InvInit, InvStep, PTL DEF Spec

\* Type correctness, for any number of SessionRunners and Runs.
THEOREM TypeCorrect == Spec => []TypeOK
<1>1. IInv => TypeOK
    BY DEF IInv
<1> QED
    BY <1>1, Invariance, PTL

\* Every turn's Run was given exactly the conversation before its own turn,
\* whatever was committed between submit's two reads, its claim and its Run.
THEOREM LinearHistoryHolds == Spec => []LinearHistory
<1>1. IInv => LinearHistory
    <2> SUFFICES ASSUME IInv, NEW i \in DOMAIN turns
                 PROVE  history[turns[i]] = ToConversationHistory(SubSeq(turns, 1, i - 1))
        BY DEF LinearHistory
    <2>1. turns[i] \in RunIds
        BY DEF IInv, TypeOK
    <2>2. runs[turns[i]] # "ABSENT" /\ shown[turns[i]] = SubSeq(turns, 1, i - 1)
        BY DEF IInv, SessionInv, TurnsInOrder
    <2>3. history[turns[i]] = ToConversationHistory(shown[turns[i]])
        BY <2>1, <2>2 DEF IInv, SessionInv, TurnsInOrder
    <2> QED
        BY <2>2, <2>3
<1> QED
    BY <1>1, Invariance, PTL

\* A Run that is active or has succeeded has its turn or the claim, unless a
\* resume took the claim before the Run was created.
THEOREM NothingForgottenHolds == Spec => []NothingForgotten
<1>1. IInv => NothingForgotten
    BY DEF IInv, SessionInv
<1> QED
    BY <1>1, Invariance, PTL

\* A Run that commit_status once called CONFLICT never has a turn.
THEOREM ConflictIsFinalHolds == Spec => []ConflictIsFinal
<1>1. IInv => ConflictIsFinal
    BY DEF IInv, SessionInv, ConflictsAreOver, ConflictIsFinal
<1> QED
    BY <1>1, Invariance, PTL

\* The only step that touches the turns appends one, of a Run that has none.
LEMMA TurnsGrow ==
    ASSUME IInv, [Next]_vars
    PROVE  \/ turns' = turns
           \/ \E r \in RunIds : ~Committed(r) /\ turns' = Append(turns, r)
<1> USE DEF sessionVars
<1>1. ASSUME NEW w \in Workers, CommitTurn(w)
      PROVE  \/ turns' = turns
             \/ \E r \in RunIds : ~Committed(r) /\ turns' = Append(turns, r)
    <2>1. loc[w].run \in RunIds
        BY <1>1 DEF CommitTurn, IInv, TypeOK
    <2> QED
        BY <1>1, <2>1 DEF CommitTurn
<1>2. ASSUME NEW w \in Workers, Advance(w), ~CommitTurn(w) PROVE turns' = turns
    BY <1>2 DEF Advance, ReadTurns, ClaimRun, CreateRun, CreateRunFails, GetRun, CleanUp,
        AcquireLease, AcquireRefused, ResumeWaiting, RunBegins, RunReturns, DriveRefused,
        ReleaseAfterRun, KeepClaim, StatusClaim, StatusTurn, StatusRun
<1>3. ASSUME NEW w \in Workers,
             ReadVersion(w) \/ GetSession(w) \/ StatusVersion(w) \/ Fail(w)
      PROVE  turns' = turns
    BY <1>3 DEF ReadVersion, GetSession, StatusVersion, Fail
<1>4. ASSUME NEW r \in RunIds, ApplicationDrives(r) PROVE turns' = turns
    BY <1>4 DEF ApplicationDrives
<1> QED
    BY <1>1, <1>2, <1>3, <1>4 DEF Next, vars

\* The stores and their callers implement the abstract Conversation: what a
\* Run was shown is, turn for turn, what precedes it.
THEOREM ConversationHolds == Spec => ConversationSpec
<1> DEFINE seen == [i \in DOMAIN turns |-> shown[turns[i]]]
<1>1. Init => TheConversation!Init
    <2> SUFFICES ASSUME Init PROVE turns = <<>> /\ seen = <<>>
        BY DEF TheConversation!Init
    <2>1. turns = <<>> /\ DOMAIN turns = {}
        BY DEF Init
    <2> QED
        BY <2>1
<1>2. IInv /\ IInv' /\ [Next]_vars => [TheConversation!Next]_(TheConversation!vars)
    <2> SUFFICES ASSUME IInv, IInv', [Next]_vars
                 PROVE  (TheConversation!Next) \/ (turns' = turns /\ seen' = seen)
        BY DEF TheConversation!vars
    <2>1. /\ turns \in Seq(RunIds) /\ turns' \in Seq(RunIds)
          /\ seen = [i \in DOMAIN turns |-> SubSeq(turns, 1, i - 1)]
          /\ seen' = [i \in DOMAIN turns' |-> SubSeq(turns', 1, i - 1)]
        BY DEF IInv, TypeOK, SessionInv, TurnsInOrder
    <2> HIDE DEF seen
    <2>2. CASE turns' = turns
        BY <2>1, <2>2
    <2>3. ASSUME NEW r \in RunIds, ~Committed(r), turns' = Append(turns, r)
          PROVE  TheConversation!Next
        <3> DEFINE n == Len(turns)
        <3>1. /\ DOMAIN turns' = 1..(n + 1) /\ DOMAIN turns = 1..n /\ n \in Nat
              /\ \A i \in 1..n : SubSeq(turns', 1, i - 1) = SubSeq(turns, 1, i - 1)
              /\ SubSeq(turns', 1, n) = turns /\ Len(turns') = n + 1
            BY <2>1, <2>3, AppendTurn
        <3> HIDE DEF n
        <3>2. seen \in Seq(Seq(RunIds)) /\ Len(seen) = n
            <4>1. \A i \in 1..n : SubSeq(turns, 1, i - 1) \in Seq(RunIds)
                BY <2>1, <3>1 DEF n
            <4> QED
                BY <2>1, <3>1, <4>1, IsASeq
        <3>3. seen' = Append(seen, turns)
            <4> DEFINE a == Append(seen, turns)
            <4>1. /\ a \in Seq(Seq(RunIds)) /\ Len(a) = n + 1 /\ a[n + 1] = turns
                  /\ \A i \in 1..n : a[i] = seen[i]
                BY <2>1, <3>1, <3>2
            <4> HIDE DEF a
            <4>2. seen' \in Seq(Seq(RunIds)) /\ Len(seen') = n + 1
                <5>1. \A i \in 1..(n + 1) : SubSeq(turns', 1, i - 1) \in Seq(RunIds)
                    BY <2>1, <3>1
                <5> QED
                    BY <2>1, <3>1, <5>1, IsASeq
            <4>3. ASSUME NEW i \in 1..(n + 1) PROVE seen'[i] = a[i]
                <5>1. seen'[i] = SubSeq(turns', 1, i - 1)
                    BY <2>1, <3>1
                <5>2. CASE i = n + 1
                    <6>1. i - 1 = n
                        BY <3>1, <5>2
                    <6> QED
                        BY <3>1, <4>1, <5>1, <5>2, <6>1
                <5>3. CASE i \in 1..n
                    BY <2>1, <3>1, <4>1, <5>1, <5>3
                <5>4. i = n + 1 \/ i \in 1..n
                    BY <3>1
                <5> QED
                    BY <5>2, <5>3, <5>4
            <4>4. seen' = a
                BY <3>1, <4>1, <4>2, <4>3, SeqEqual
            <4> QED
                BY <4>4 DEF a
        <3>4. \A i \in DOMAIN turns : turns[i] # r
            BY <2>3 DEF Committed
        <3> QED
            BY <2>3, <3>3, <3>4 DEF TheConversation!Next, TheConversation!Append1, seen
    <2> QED
        BY <2>2, <2>3, TurnsGrow
<1> QED
    BY <1>1, <1>2, Invariance, PTL DEF Spec, ConversationSpec, TheConversation!Spec
=============================================================================
