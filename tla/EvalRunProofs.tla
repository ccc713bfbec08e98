---------------------------- MODULE EvalRunProofs ----------------------------
(***************************************************************************)
(* Proofs about EvalRun for any number of engines, Suites and faults: all  *)
(* evidence belongs to one Suite, observations stay true, turns are        *)
(* accounted for, verdicts answer the question that was asked, a report    *)
(* passes only if everything in it did and it never leaves the evidence.   *)
(***************************************************************************)
EXTENDS EvalRun, TLAPS

\* A subject that is there has its claim or its turn, has lost the claim to a
\* rollback, or has failed.
Held(i) ==
    \/ session[i] \in {"CLAIMED", "COMMITTED"} \/ i \in robbed
    \/ runs[Subject(i)] \in TERMINAL_STATUSES \ {"SUCCEEDED"}

\* A call is in a Run: about to create it, or with a Run that exists.
BeforeRun(e) == pc[e] \in {"getRun", "createRun"}
InRun(e) == pc[e] \in {"startRun", "resumeRun", "driving", "driven"}

\* The Run of a call is its item's subject, or the Judge of its result.
RunKnown(e) ==
    /\ loc[e].run \in Runs
    /\ ~IsSubject(e) => loc[e].run = ResultId(e) /\ observations[Item(e)] # NoRecord

\* Where a call is in the loops of run_suite.
PlaceKnown(e) ==
    /\ loc[e].suite \in Suites
    /\ loc[e].item \in 1..Len(Plan[loc[e].suite])
    /\ loc[e].ev \in 1..Len(EvaluatorRefs[loc[e].suite][Item(e)])

\* What a call may rely on wherever it is.
LocalsHold(e) ==
    pc[e] # "idle" =>
        /\ PlaceKnown(e)
        /\ pc[e] # "recordExecution" => execution = loc[e].suite
        /\ BeforeRun(e) \/ InRun(e) => RunKnown(e)
        /\ BeforeRun(e) /\ IsSubject(e) => Held(Item(e))
        /\ InRun(e) => /\ runs[loc[e].run] # "ABSENT"
                       /\ ~IsSubject(e) => input[loc[e].run] = Asked(e)
        /\ pc[e] = "driven" /\ loc[e].status \in TERMINAL_STATUSES =>
            runs[loc[e].run] = loc[e].status
        /\ pc[e] = "inspect" => loc[e].run = Subject(Item(e))
        /\ pc[e] = "recordObservation" =>
            /\ loc[e].record \in Observations
            /\ loc[e].record.status # NoValue =>
                /\ loc[e].record.completeness = "COMPLETE"
                /\ loc[e].record = ObserveRun(Subject(Item(e)))
        /\ pc[e] \in {"getResult", "recordResult"} => observations[Item(e)] # NoRecord
        /\ pc[e] = "recordResult" /\ ResultId(e) \in JudgeRuns =>
            runs[ResultId(e)] # "ABSENT" /\ input[ResultId(e)] = loc[e].record.asked

IsLocals(l) ==
    l = [suite |-> l.suite, item |-> l.item, ev |-> l.ev, allowed |-> l.allowed, run |-> l.run,
         status |-> l.status, record |-> l.record]

\* Types, as far as the arguments need them.
Calls ==
    /\ pc = [e \in Engines |-> pc[e]] /\ loc = [e \in Engines |-> loc[e]]
    /\ \A e \in Engines : IsLocals(loc[e])

StoreTypes ==
    /\ execution \in Suites \cup {NoSuite}
    /\ observations \in [Items -> Observations \cup {NoRecord}]
    /\ results = [x \in ResultIds |-> results[x]]
    /\ session \in [Items -> {"ABSENT", "OPEN", "CLAIMED", "COMMITTED"}]
    /\ runs \in [Runs -> RunStatuses \cup {"ABSENT"}]
    /\ output \in [Runs -> OutputValues]
    /\ input = [r \in JudgeRuns |-> input[r]]

\* Judge Runs are there for their verdicts, with the input they answer.
Verdicts ==
    \A r \in JudgeRuns :
        results[r] # NoRecord => runs[r] # "ABSENT" /\ input[r] = results[r].asked

\* A turn is a success; a Run is held.
SessionsHold ==
    \A i \in Items :
        /\ session[i] = "COMMITTED" => runs[Subject(i)] = "SUCCEEDED"
        /\ runs[Subject(i)] # "ABSENT" => Held(i)

IInv ==
    /\ StoreTypes /\ Calls
    /\ \A e \in Engines : LocalsHold(e)
    /\ OneSuite /\ ObservationFaithful /\ Verdicts /\ SessionsHold
------------------------------------------------------------------------------
(* Facts about the operators. *)

LEMMA StatusFacts ==
    /\ "ABSENT" \notin RunStatuses /\ TERMINAL_STATUSES \subseteq RunStatuses
    /\ {"CREATED", "RUNNING", "WAITING", "SUCCEEDED"} \subseteq RunStatuses
    /\ NoValue \notin RunStatuses /\ "SUCCEEDED" \in TERMINAL_STATUSES
    /\ \A s \in {"CREATED", "RUNNING", "WAITING"} : s \notin TERMINAL_STATUSES
    /\ \A s \in RunStatuses : AllowedTransitions[s] \subseteq RunStatuses
BY DEF RunStatuses, TERMINAL_STATUSES, AllowedTransitions, NoValue

\* What inspecting a Run shows: nothing of one that is missing, an
\* inconclusive status, or all of one that has ended.
LEMMA InspectionFacts ==
    ASSUME NEW s \in RunStatuses \cup {"ABSENT"}, NEW o \in OutputValues
    PROVE  LET obs == ObservationFromInspection(s, o, FALSE) IN
           /\ obs \in Observations
           /\ (obs.completeness = "COMPLETE") <=> (s \in TERMINAL_STATUSES)
           /\ (obs.completeness = "INCONCLUSIVE") <=> (s \in RunStatuses \ TERMINAL_STATUSES)
           /\ s = "ABSENT" => obs.status = NoValue
           /\ s \in TERMINAL_STATUSES => obs.status = s
<1> DEFINE obs == ObservationFromInspection(s, o, FALSE)
<1>1. CASE s = "ABSENT"
    <2>1. obs = [completeness |-> "UNAVAILABLE", status |-> NoValue, output |-> NoValue]
        BY <1>1, StatusFacts DEF ObservationFromInspection, Observation
    <2>2. /\ "UNAVAILABLE" \in Completenesses /\ NoValue \in RunStatuses \cup {NoValue}
          /\ NoValue \in OutputValues
        BY <1>1, StatusFacts DEF Completenesses, OutputValues
    <2> HIDE DEF obs
    <2>3. obs.completeness = "UNAVAILABLE" /\ obs.status = NoValue /\ obs \in Observations
        BY <2>1, <2>2 DEF Observations
    <2> QED
        BY <1>1, <2>3, StatusFacts DEF obs
<1>2. CASE s \in RunStatuses \ TERMINAL_STATUSES
    <2>1. obs = [completeness |-> "INCONCLUSIVE", status |-> s, output |-> NoValue]
        BY <1>2, StatusFacts DEF ObservationFromInspection, Observation
    <2>2. /\ "INCONCLUSIVE" \in Completenesses /\ s \in RunStatuses \cup {NoValue}
          /\ NoValue \in OutputValues
        BY <1>2, StatusFacts DEF Completenesses, OutputValues
    <2> HIDE DEF obs
    <2>3. obs.completeness = "INCONCLUSIVE" /\ obs.status = s /\ obs \in Observations
        BY <2>1, <2>2 DEF Observations
    <2> QED
        BY <1>2, <2>3, StatusFacts DEF obs
<1>3. CASE s \in TERMINAL_STATUSES
    <2>1. obs = [completeness |-> "COMPLETE", status |-> s, output |-> o]
        BY <1>3, StatusFacts DEF ObservationFromInspection, Observation
    <2>2. /\ "COMPLETE" \in Completenesses /\ s \in RunStatuses \cup {NoValue}
          /\ o \in OutputValues
        BY <1>3, StatusFacts DEF Completenesses, OutputValues
    <2> HIDE DEF obs
    <2>3. obs.completeness = "COMPLETE" /\ obs.status = s /\ obs \in Observations
        BY <2>1, <2>2 DEF Observations
    <2> QED
        BY <1>3, <2>3, StatusFacts DEF obs
<1> QED
    BY <1>1, <1>2, <1>3, StatusFacts

\* A call that knows its place names an item, a subject and a result.
LEMMA PlaceFacts ==
    ASSUME NEW e \in Engines, PlaceKnown(e)
    PROVE  /\ Item(e) \in Items /\ Subject(Item(e)) \in Runs
           /\ ResultId(e) \in ResultIds /\ ResultId(e)[2] = EvName(e)
           /\ Item(e) \in Range(Plan[loc[e].suite])
           /\ ResultId(e) \in JudgeRuns <=> Ev(e).kind = "judge"
<1> DEFINE s == loc[e].suite
<1>1. Item(e) \in Range(Plan[s])
    BY SuiteAssumption DEF PlaceKnown, Item, Range
<1>2. Item(e) \in Items
    BY <1>1 DEF PlaceKnown, Items
<1>3. EvName(e) \in Range(EvaluatorRefs[s][Item(e)])
    BY <1>1, SuiteAssumption DEF PlaceKnown, EvName, Range
<1>4. ResultId(e) \in ResultIds
    BY <1>1, <1>3 DEF PlaceKnown, ResultIds, ResultId
<1>5. ResultId(e)[2] = EvName(e)
    BY DEF ResultId
<1> QED
    BY <1>1, <1>2, <1>4, <1>5 DEF Runs, JudgeRuns, Ev

------------------------------------------------------------------------------
(* The step of one call. *)

Others(e) == \A v \in Engines \ {e} : pc'[v] = pc[v] /\ loc'[v] = loc[v]

LEMMA CallStep ==
    ASSUME Calls, NEW e \in Engines, NEW p, NEW l, IsLocals(l), Goto(e, p),
           loc' = [loc EXCEPT ![e] = l] \/ (loc' = loc /\ l = loc[e])
    PROVE  Calls' /\ pc'[e] = p /\ loc'[e] = l /\ Others(e)
<1> HIDE DEF IsLocals
<1>1. pc'[e] = p /\ loc'[e] = l /\ Others(e)
    BY DEF Calls, Others, Goto
<1>2. pc' = [v \in Engines |-> pc'[v]] /\ loc' = [v \in Engines |-> loc'[v]]
    BY DEF Calls, Goto
<1>3. \A v \in Engines : IsLocals(loc'[v])
    BY <1>1 DEF Calls, Others
<1> QED
    BY <1>1, <1>2, <1>3 DEF Calls

LEMMA WithRecord ==
    ASSUME NEW l, IsLocals(l), NEW x, NEW m, m = [l EXCEPT !.record = x]
    PROVE  /\ IsLocals(m) /\ m.record = x
           /\ m.suite = l.suite /\ m.item = l.item /\ m.ev = l.ev
           /\ m.allowed = l.allowed /\ m.run = l.run /\ m.status = l.status
BY DEF IsLocals

LEMMA WithRun ==
    ASSUME NEW l, IsLocals(l), NEW x, NEW m, m = [l EXCEPT !.run = x]
    PROVE  /\ IsLocals(m) /\ m.run = x
           /\ m.suite = l.suite /\ m.item = l.item /\ m.ev = l.ev
BY DEF IsLocals

LEMMA WithStatus ==
    ASSUME NEW l, IsLocals(l), NEW x, NEW m, m = [l EXCEPT !.status = x]
    PROVE  /\ IsLocals(m) /\ m.status = x
           /\ m.suite = l.suite /\ m.item = l.item /\ m.ev = l.ev
           /\ m.allowed = l.allowed /\ m.run = l.run /\ m.record = l.record
BY DEF IsLocals

LEMMA NoLocalsFacts == IsLocals(NoLocals)
BY DEF IsLocals, NoLocals

LEMMA AtStart ==
    ASSUME NEW s, NEW m, m = [NoLocals EXCEPT !.suite = s]
    PROVE  IsLocals(m) /\ m.suite = s /\ m.item = 1 /\ m.ev = 1
BY DEF IsLocals, NoLocals

\* The derived names follow the place.
LEMMA SamePlace ==
    ASSUME NEW e \in Engines, loc'[e].suite = loc[e].suite, loc'[e].item = loc[e].item,
           loc'[e].ev = loc[e].ev
    PROVE  /\ Item(e)' = Item(e) /\ EvName(e)' = EvName(e) /\ ResultId(e)' = ResultId(e)
           /\ Ev(e)' = Ev(e) /\ PlaceKnown(e)' = PlaceKnown(e)
BY DEF Item, EvName, ResultId, Ev, PlaceKnown

LEMMA CallReturns ==
    ASSUME Calls, NEW e \in Engines, Return(e)
    PROVE  Calls' /\ Others(e) /\ LocalsHold(e)'
<1>1. Calls' /\ pc'[e] = "idle" /\ Others(e)
    BY NoLocalsFacts, CallStep DEF Return
<1> QED
    BY <1>1 DEF LocalsHold

\* An error while a Run is driven.
LEMMA CallRaises ==
    ASSUME Calls, NEW e \in Engines, LocalsHold(e), Raise(e),
           pc[e] \notin {"idle", "recordExecution"}, execution' = execution
    PROVE  Calls' /\ Others(e) /\ LocalsHold(e)'
<1>1. CASE Return(e)
    BY <1>1, CallReturns
<1>2. CASE Goto(e, "rollback") /\ UNCHANGED loc
    <2>1. IsLocals(loc[e])
        BY DEF Calls
    <2>2. Calls' /\ pc'[e] = "rollback" /\ loc'[e] = loc[e] /\ Others(e)
        BY <1>2, <2>1, CallStep
    <2> QED
        BY <2>2, SamePlace DEF LocalsHold, BeforeRun, InRun
<1> QED
    BY <1>1, <1>2 DEF Raise

\* The loops of run_suite stay inside the plan.
LEMMA CallProceeds ==
    ASSUME Calls, NEW e \in Engines, LocalsHold(e), Proceed(e),
           pc[e] \in {"getResult", "recordResult"},
           execution' = execution, observations' = observations
    PROVE  Calls' /\ Others(e) /\ LocalsHold(e)'
<1> DEFINE s == loc[e].suite
           n == Len(EvaluatorRefs[s][Item(e)])
<1>1. /\ PlaceKnown(e) /\ execution = s /\ observations[Item(e)] # NoRecord
      /\ IsLocals(loc[e])
    BY DEF LocalsHold, Calls
<1>2. /\ s \in Suites /\ loc[e].item \in 1..Len(Plan[s]) /\ loc[e].ev \in 1..n
      /\ n \in Nat /\ Len(Plan[s]) \in Nat /\ Item(e) \in Range(Plan[s])
    BY <1>1, PlaceFacts, SuiteAssumption DEF PlaceKnown
<1>3. CASE loc[e].ev < n
    <2> DEFINE k == loc[e].ev + 1
    <2> HIDE DEF k
    <2>0. PICK l : l = [NoLocals EXCEPT !.suite = s, !.item = loc[e].item, !.ev = k]
        OBVIOUS
    <2>1. IsLocals(l) /\ l.suite = s /\ l.item = loc[e].item /\ l.ev = k
        BY <2>0 DEF IsLocals, NoLocals
    <2>2. loc' = [loc EXCEPT ![e] = l] /\ Goto(e, "getResult")
        BY <1>3, <2>0 DEF Proceed, k
    <2>3. Calls' /\ pc'[e] = "getResult" /\ loc'[e] = l /\ Others(e)
        BY <2>1, <2>2, CallStep
    <2>4. Item(e)' = Item(e)
        BY <2>1, <2>3 DEF Item
    <2>5. PlaceKnown(e)'
        BY <1>2, <1>3, <2>1, <2>3, <2>4 DEF PlaceKnown, k
    <2> QED
        BY <1>1, <2>1, <2>3, <2>4, <2>5 DEF LocalsHold, BeforeRun, InRun
<1>4. CASE ~(loc[e].ev < n) /\ loc[e].ev = n /\ loc[e].item < Len(Plan[s])
    <2> DEFINE k == loc[e].item + 1
    <2> HIDE DEF k
    <2>0. PICK l : l = [NoLocals EXCEPT !.suite = s, !.item = k]
        OBVIOUS
    <2>1. IsLocals(l) /\ l.suite = s /\ l.item = k /\ l.ev = 1
        BY <2>0 DEF IsLocals, NoLocals
    <2>2. loc' = [loc EXCEPT ![e] = l] /\ Goto(e, "getObservation")
        BY <1>4, <2>0 DEF Proceed, k
    <2>3. Calls' /\ pc'[e] = "getObservation" /\ loc'[e] = l /\ Others(e)
        BY <2>1, <2>2, CallStep
    <2>4. l.item \in 1..Len(Plan[s]) /\ Item(e)' = Plan[s][l.item]
        <3>1. l.item \in 1..Len(Plan[s])
            BY <1>2, <1>4, <2>1 DEF k
        <3>2. Item(e)' = Plan[s][l.item]
            BY <2>1, <2>3 DEF Item
        <3> QED
            BY <3>1, <3>2
    <2>5. Item(e)' \in Range(Plan[s])
        BY <1>2, <2>4, SuiteAssumption DEF Range
    <2>6. 1 \in 1..Len(EvaluatorRefs[s][Item(e)'])
        <3>1. /\ EvaluatorRefs[s][Item(e)'] \in Seq(Range(EvaluatorRefs[s][Item(e)']))
              /\ EvaluatorRefs[s][Item(e)'] # <<>>
            BY <1>2, <2>5, SuiteAssumption
        <3> QED
            BY <3>1
    <2>7. PlaceKnown(e)'
        BY <1>2, <2>1, <2>3, <2>4, <2>6 DEF PlaceKnown
    <2> QED
        BY <1>1, <2>1, <2>3, <2>7 DEF LocalsHold, BeforeRun, InRun
<1>5. CASE ~(loc[e].ev < n) /\ ~(loc[e].ev = n /\ loc[e].item < Len(Plan[s]))
    <2>1. Goto(e, "report") /\ UNCHANGED loc
        BY <1>5 DEF Proceed
    <2>2. Calls' /\ pc'[e] = "report" /\ loc'[e] = loc[e] /\ Others(e)
        BY <1>1, <2>1, CallStep
    <2> QED
        BY <1>1, <2>2, SamePlace DEF LocalsHold, BeforeRun, InRun
<1> QED
    BY <1>3, <1>4, <1>5
------------------------------------------------------------------------------
(* What every step does to the records that others rely on: evidence is only *)
(* added, an ended Run stays as it is, a Judge keeps its input.              *)

Evolves ==
    /\ execution' = execution \/ execution = NoSuite
    /\ \A i \in Items : observations[i] # NoRecord => observations'[i] = observations[i]
    /\ \A r \in Runs : runs[r] # "ABSENT" => runs'[r] # "ABSENT"
    /\ \A r \in Runs : runs[r] \in TERMINAL_STATUSES => runs'[r] = runs[r] /\ output'[r] = output[r]
    /\ \A r \in JudgeRuns : runs[r] # "ABSENT" => input'[r] = input[r]
    /\ \A i \in Items : Held(i) => Held(i)'

\* An observation of an ended Run stays true.
LEMMA ObservationStays ==
    ASSUME StoreTypes, Evolves, NEW r \in Runs, ObserveRun(r).completeness = "COMPLETE"
    PROVE  ObserveRun(r)' = ObserveRun(r)
<1>1. runs[r] \in RunStatuses \cup {"ABSENT"} /\ output[r] \in OutputValues
    BY DEF StoreTypes
<1>2. runs[r] \in TERMINAL_STATUSES
    BY <1>1, InspectionFacts DEF ObserveRun
<1> QED
    BY <1>2 DEF Evolves, ObserveRun

\* A call that does not move keeps what it relies on.
LEMMA CallKeeps ==
    ASSUME StoreTypes, Evolves, NEW v \in Engines, LocalsHold(v),
           pc'[v] = pc[v], loc'[v] = loc[v]
    PROVE  LocalsHold(v)'
<1> SUFFICES ASSUME pc[v] # "idle" PROVE LocalsHold(v)'
    BY DEF LocalsHold
<1>1. /\ Item(v)' = Item(v) /\ EvName(v)' = EvName(v) /\ ResultId(v)' = ResultId(v)
      /\ Ev(v)' = Ev(v) /\ PlaceKnown(v) /\ PlaceKnown(v)' /\ IsSubject(v)' = IsSubject(v)
    <2>1. PlaceKnown(v)
        BY DEF LocalsHold
    <2> QED
        BY <2>1, SamePlace DEF IsSubject
<1>2. /\ Item(v) \in Items /\ Subject(Item(v)) \in Runs /\ ResultId(v) \in ResultIds
    BY <1>1, PlaceFacts
<1>3. pc[v] # "recordExecution" => execution' = loc[v].suite
    <2>1. loc[v].suite # NoSuite
        BY <1>1, EvalAssumption DEF PlaceKnown
    <2> QED
        BY <2>1 DEF LocalsHold, Evolves
<1>4. observations[Item(v)] # NoRecord =>
        observations'[Item(v)] = observations[Item(v)] /\ Asked(v)' = Asked(v)
    BY <1>1, <1>2 DEF Evolves, Asked
<1>5. BeforeRun(v) \/ InRun(v) => RunKnown(v) /\ RunKnown(v)'
    BY <1>1, <1>4 DEF LocalsHold, RunKnown
<1>6. BeforeRun(v) /\ IsSubject(v) => Held(Item(v))'
    BY <1>1, <1>2 DEF LocalsHold, Evolves, Held
<1>7. InRun(v) => /\ runs'[loc[v].run] # "ABSENT"
                  /\ ~IsSubject(v) => input'[loc[v].run] = Asked(v)'
    <2> SUFFICES ASSUME InRun(v) PROVE /\ runs'[loc[v].run] # "ABSENT"
                                       /\ ~IsSubject(v) => input'[loc[v].run] = Asked(v)'
        OBVIOUS
    <2>1. RunKnown(v) /\ runs[loc[v].run] # "ABSENT"
            /\ (~IsSubject(v) => input[loc[v].run] = Asked(v))
        BY <1>5 DEF LocalsHold
    <2>2. runs'[loc[v].run] # "ABSENT"
        BY <2>1 DEF RunKnown, Evolves
    <2>3. ~IsSubject(v) => loc[v].run \in JudgeRuns
        BY <1>2, <2>1 DEF RunKnown, IsSubject, Runs, ResultId, Subject, ResultIds, JudgeRuns
    <2> QED
        BY <1>4, <2>1, <2>2, <2>3 DEF RunKnown, Evolves
<1>8. pc[v] = "driven" /\ loc[v].status \in TERMINAL_STATUSES => runs'[loc[v].run] = loc[v].status
    BY <1>5 DEF LocalsHold, RunKnown, Evolves, InRun
<1>9. pc[v] = "recordObservation" =>
        /\ loc[v].record \in Observations
        /\ loc[v].record.status # NoValue =>
            /\ loc[v].record.completeness = "COMPLETE"
            /\ loc[v].record = ObserveRun(Subject(Item(v)))'
    BY <1>1, <1>2, ObservationStays DEF LocalsHold
<1>10. pc[v] = "recordResult" /\ ResultId(v) \in JudgeRuns =>
        runs'[ResultId(v)] # "ABSENT" /\ input'[ResultId(v)] = loc[v].record.asked
    BY DEF LocalsHold, Evolves, Runs
<1> QED
    BY <1>1, <1>3, <1>4, <1>5, <1>6, <1>7, <1>8, <1>9, <1>10 DEF LocalsHold, BeforeRun, InRun

\* A step of one call that leaves all records and Runs alone.
Quiet == UNCHANGED <<execution, observations, results, session, runs, output, input, origin, robbed>>

LEMMA QuietStep ==
    ASSUME IInv, NEW e \in Engines, Quiet, Calls', Others(e), LocalsHold(e)'
    PROVE  IInv'
<1>1. StoreTypes'
    BY DEF IInv, StoreTypes, Quiet
<1>2. Evolves
    BY DEF Evolves, Quiet, Held
<1>3. \A v \in Engines : LocalsHold(v)'
    BY <1>2, CallKeeps DEF IInv, Others
<1>4. OneSuite' /\ Verdicts'
    BY DEF IInv, OneSuite, Verdicts, Quiet
<1>5. ObservationFaithful'
    BY DEF IInv, ObservationFaithful, ObserveRun, Quiet
<1>6. SessionsHold'
    BY DEF IInv, SessionsHold, Held, Quiet
<1> QED
    BY <1>1, <1>3, <1>4, <1>5, <1>6 DEF IInv

LEMMA StartingSteps ==
    ASSUME IInv, NEW e \in Engines, NEW s \in Suites, RunSuite(e, s)
    PROVE  IInv'
<1> USE DEF storeVars, runVars, historyVars
<1>1. PICK l : l = [NoLocals EXCEPT !.suite = s]
    OBVIOUS
<1>2. IsLocals(l) /\ l.suite = s /\ l.item = 1 /\ l.ev = 1
    BY <1>1, AtStart
<1>3. loc' = [loc EXCEPT ![e] = l] /\ Quiet
    BY <1>1 DEF RunSuite, Quiet
<1>4. PICK p \in {"recordExecution", "getObservation"} :
        Goto(e, p) /\ (p = "getObservation" => execution = s)
    BY DEF RunSuite, SameSuite
<1>5. Calls' /\ pc'[e] = p /\ loc'[e] = l /\ Others(e)
    BY <1>2, <1>3, <1>4, CallStep DEF IInv
<1>6. PlaceKnown(e)'
    <2>1. Plan[s] \in Seq(Range(Plan[s])) /\ Plan[s] # <<>>
        BY SuiteAssumption
    <2>2. Item(e)' = Plan[s][1] /\ 1 \in 1..Len(Plan[s]) /\ Plan[s][1] \in Range(Plan[s])
        BY <1>2, <1>5, <2>1 DEF Item, Range
    <2>3. /\ EvaluatorRefs[s][Plan[s][1]] \in Seq(Range(EvaluatorRefs[s][Plan[s][1]]))
          /\ EvaluatorRefs[s][Plan[s][1]] # <<>>
        BY <2>2, SuiteAssumption
    <2>4. 1 \in 1..Len(EvaluatorRefs[s][Plan[s][1]])
        BY <2>3
    <2> QED
        BY <1>2, <1>5, <2>2, <2>4 DEF PlaceKnown
<1>7. LocalsHold(e)'
    BY <1>2, <1>3, <1>4, <1>5, <1>6 DEF LocalsHold, BeforeRun, InRun, Quiet
<1> QED
    BY <1>3, <1>5, <1>7, QuietStep

\* What the names of a call mean after a step that leaves the records alone.
LEMMA QuietNames ==
    ASSUME NEW e \in Engines, Quiet, loc'[e].suite = loc[e].suite, loc'[e].item = loc[e].item,
           loc'[e].ev = loc[e].ev
    PROVE  /\ Item(e)' = Item(e) /\ EvName(e)' = EvName(e) /\ ResultId(e)' = ResultId(e)
           /\ Ev(e)' = Ev(e) /\ PlaceKnown(e)' = PlaceKnown(e)
           /\ Held(Item(e))' = Held(Item(e))
           /\ ObserveRun(Subject(Item(e)))' = ObserveRun(Subject(Item(e)))
           /\ loc'[e].run = loc[e].run =>
                IsSubject(e)' = IsSubject(e) /\ RunKnown(e)' = RunKnown(e)
           /\ loc'[e].allowed = loc[e].allowed => Asked(e)' = Asked(e)
<1>1. /\ Item(e)' = Item(e) /\ EvName(e)' = EvName(e) /\ ResultId(e)' = ResultId(e)
      /\ Ev(e)' = Ev(e) /\ PlaceKnown(e)' = PlaceKnown(e)
    BY SamePlace
<1>2. Held(Item(e))' = Held(Item(e))
    BY <1>1 DEF Held, Quiet
<1>3. ObserveRun(Subject(Item(e)))' = ObserveRun(Subject(Item(e)))
    BY <1>1 DEF ObserveRun, Quiet
<1>4. ASSUME loc'[e].run = loc[e].run
      PROVE  IsSubject(e)' = IsSubject(e) /\ RunKnown(e)' = RunKnown(e)
    <2>1. IsSubject(e)' = IsSubject(e)
        BY <1>1, <1>4 DEF IsSubject
    <2> QED
        BY <1>1, <1>4, <2>1 DEF RunKnown, Quiet
<1>5. ASSUME loc'[e].allowed = loc[e].allowed PROVE Asked(e)' = Asked(e)
    BY <1>1, <1>5 DEF Asked, Quiet
<1> QED
    BY <1>1, <1>2, <1>3, <1>4, <1>5

\* A call moves and keeps its locals.
LEMMA MovingSteps ==
    ASSUME IInv, NEW e \in Engines,
           ReuseObservation(e) \/ ExecuteItem(e) \/ AcquireLease(e) \/ LeaveClaim(e)
    PROVE  IInv'
<1> USE DEF storeVars, runVars, historyVars
<1>1. Quiet
    BY DEF Quiet, ReuseObservation, ExecuteItem, AcquireLease, LeaveClaim
<1>2. LocalsHold(e) /\ IsLocals(loc[e]) /\ Calls /\ UNCHANGED loc
    BY DEF IInv, Calls, ReuseObservation, ExecuteItem, AcquireLease, LeaveClaim
<1>3. PICK p \in {"getResult", "getClaim", "driving", "inspect"} :
        /\ Goto(e, p)
        /\ p = "getResult" => pc[e] = "getObservation" /\ observations[Item(e)] # NoRecord
        /\ p = "getClaim" => pc[e] = "getObservation"
        /\ p = "driving" => pc[e] \in {"startRun", "resumeRun"}
        /\ p = "inspect" => pc[e] = "driven" /\ IsSubject(e)
    <2>1. CASE ReuseObservation(e)
        BY <2>1 DEF ReuseObservation
    <2>2. CASE ExecuteItem(e)
        BY <2>2 DEF ExecuteItem
    <2>3. CASE AcquireLease(e)
        BY <2>3 DEF AcquireLease
    <2>4. CASE LeaveClaim(e)
        BY <2>4 DEF LeaveClaim
    <2> QED
        BY <2>1, <2>2, <2>3, <2>4
<1>4. Calls' /\ pc'[e] = p /\ loc'[e] = loc[e] /\ Others(e)
    BY <1>2, <1>3, CallStep
<1>5. LocalsHold(e)'
    <2>1. /\ Item(e)' = Item(e) /\ PlaceKnown(e)' = PlaceKnown(e)
          /\ IsSubject(e)' = IsSubject(e) /\ RunKnown(e)' = RunKnown(e) /\ Asked(e)' = Asked(e)
        BY <1>1, <1>4, QuietNames
    <2> QED
        BY <1>1, <1>2, <1>3, <1>4, <2>1 DEF LocalsHold, BeforeRun, InRun, Quiet, IsSubject
<1> QED
    BY <1>1, <1>4, <1>5, QuietStep

LEMMA EndingSteps ==
    ASSUME IInv, NEW e \in Engines,
           \/ OutsideFixture(e) \/ EvaluatorUnknown(e) \/ PublishReport(e)
           \/ AcquireRefused(e) \/ DriveRefused(e) \/ Fail(e)
    PROVE  IInv'
<1> USE DEF storeVars, runVars, historyVars
<1>1. Quiet /\ Calls /\ LocalsHold(e)
    BY DEF IInv, Quiet, OutsideFixture, EvaluatorUnknown, PublishReport, AcquireRefused,
        DriveRefused, Fail
<1>2. CASE Return(e)
    BY <1>1, <1>2, CallReturns, QuietStep
<1>3. CASE Raise(e) /\ pc[e] \in {"getRun", "createRun", "startRun", "resumeRun", "driving"}
    BY <1>1, <1>3, CallRaises, QuietStep DEF Quiet
<1> QED
    BY <1>2, <1>3 DEF OutsideFixture, EvaluatorUnknown, PublishReport, AcquireRefused,
        DriveRefused, Fail

LEMMA ClaimFound ==
    ASSUME IInv, NEW e \in Engines, GetClaim(e)
    PROVE  IInv'
<1> USE DEF storeVars, runVars, historyVars
<1>1. Quiet /\ Calls /\ LocalsHold(e) /\ IsLocals(loc[e]) /\ pc[e] = "getClaim"
    BY DEF IInv, Calls, Quiet, GetClaim
<1>2. PlaceKnown(e) /\ execution = loc[e].suite
    BY <1>1 DEF LocalsHold
<1>3. CASE Goto(e, "getSession") /\ UNCHANGED loc
    <2>1. Calls' /\ pc'[e] = "getSession" /\ loc'[e] = loc[e] /\ Others(e)
        BY <1>1, <1>3, CallStep
    <2>2. LocalsHold(e)'
        BY <1>1, <1>2, <2>1, QuietNames DEF LocalsHold, BeforeRun, InRun, Quiet
    <2> QED
        BY <1>1, <2>1, <2>2, QuietStep
<1>4. CASE session[Item(e)] = "CLAIMED" /\ DriveNext(e, Subject(Item(e)))
    <2>1. PICK l : l = [loc[e] EXCEPT !.run = Subject(Item(e))]
        OBVIOUS
    <2>2. /\ IsLocals(l) /\ l.run = Subject(Item(e))
          /\ l.suite = loc[e].suite /\ l.item = loc[e].item /\ l.ev = loc[e].ev
        BY <1>1, <2>1, WithRun
    <2>3. loc' = [loc EXCEPT ![e] = l] /\ Goto(e, "getRun")
        BY <1>4, <2>1 DEF DriveNext
    <2>4. Calls' /\ pc'[e] = "getRun" /\ loc'[e] = l /\ Others(e)
        BY <1>1, <2>2, <2>3, CallStep
    <2>5. LocalsHold(e)'
        <3>1. Item(e)' = Item(e) /\ PlaceKnown(e)' /\ Held(Item(e))'
            BY <1>1, <1>2, <1>4, <2>2, <2>4, QuietNames DEF Held
        <3>2. IsSubject(e)' /\ Subject(Item(e)) \in Runs
            BY <1>2, <2>2, <2>4, <3>1, PlaceFacts DEF IsSubject
        <3> QED
            BY <1>1, <1>2, <2>2, <2>4, <3>1, <3>2
            DEF LocalsHold, BeforeRun, InRun, RunKnown, Quiet
    <2> QED
        BY <1>1, <2>4, <2>5, QuietStep
<1> QED
    BY <1>3, <1>4 DEF GetClaim

\* run_judge reuses a Judge Run only with the input it would give now.
LEMMA RunFound ==
    ASSUME IInv, NEW e \in Engines, GetRun(e) \/ ResumeWaiting(e)
    PROVE  IInv'
<1> USE DEF storeVars, runVars, historyVars
<1>1. Quiet /\ Calls /\ LocalsHold(e) /\ IsLocals(loc[e]) /\ pc[e] \in {"getRun", "resumeRun"}
    BY DEF IInv, Calls, Quiet, GetRun, ResumeWaiting
<1>2. PlaceKnown(e) /\ execution = loc[e].suite /\ RunKnown(e)
    BY <1>1 DEF LocalsHold, BeforeRun, InRun
<1>3. CASE Return(e)
    BY <1>1, <1>3, CallReturns, QuietStep
<1>4. CASE pc[e] = "getRun" /\ Goto(e, "createRun") /\ UNCHANGED loc
    <2>1. Calls' /\ pc'[e] = "createRun" /\ loc'[e] = loc[e] /\ Others(e)
        BY <1>1, <1>4, CallStep
    <2>2. LocalsHold(e)'
        <3>1. /\ Item(e)' = Item(e) /\ PlaceKnown(e)' /\ RunKnown(e)'
              /\ IsSubject(e)' = IsSubject(e) /\ Held(Item(e))' = Held(Item(e))
            BY <1>1, <1>2, <2>1, QuietNames
        <3> QED
            BY <1>1, <1>2, <1>4, <2>1, <3>1 DEF LocalsHold, BeforeRun, InRun, Quiet
    <2> QED
        BY <1>1, <2>1, <2>2, QuietStep
<1>5. ASSUME NEW p \in {"driven", "resumeRun"}, Goto(e, p), runs[loc[e].run] # "ABSENT",
             IsSubject(e) \/ input[loc[e].run] = Asked(e),
             loc' = [loc EXCEPT ![e].status = runs[loc[e].run]]
      PROVE  IInv'
    <2>1. PICK l : l = [loc[e] EXCEPT !.status = runs[loc[e].run]]
        OBVIOUS
    <2>2. /\ IsLocals(l) /\ l.status = runs[loc[e].run] /\ l.run = loc[e].run
          /\ l.suite = loc[e].suite /\ l.item = loc[e].item /\ l.ev = loc[e].ev
          /\ l.allowed = loc[e].allowed
        BY <1>1, <2>1, WithStatus
    <2>3. loc' = [loc EXCEPT ![e] = l]
        BY <1>5, <2>1
    <2>4. Calls' /\ pc'[e] = p /\ loc'[e] = l /\ Others(e)
        BY <1>1, <1>5, <2>2, <2>3, CallStep
    <2>5. LocalsHold(e)'
        <3>1. /\ Item(e)' = Item(e) /\ PlaceKnown(e)' /\ RunKnown(e)'
              /\ IsSubject(e)' = IsSubject(e) /\ Asked(e)' = Asked(e)
            BY <1>1, <1>2, <2>2, <2>4, QuietNames
        <3> QED
            BY <1>1, <1>2, <1>5, <2>2, <2>4, <3>1 DEF LocalsHold, BeforeRun, InRun, Quiet
    <2> QED
        BY <1>1, <2>4, <2>5, QuietStep
<1>6. CASE GetRun(e)
    <2>1. CASE runs[loc[e].run] = "ABSENT"
        BY <1>4, <1>6, <2>1 DEF GetRun
    <2>2. CASE runs[loc[e].run] # "ABSENT" /\ ~InputUnchanged(e)
        BY <1>3, <1>6, <2>2 DEF GetRun
    <2>3. CASE runs[loc[e].run] # "ABSENT" /\ InputUnchanged(e)
        <3>1. /\ loc' = [loc EXCEPT ![e].status = runs[loc[e].run]]
              /\ Goto(e, IF runs[loc[e].run] \in TERMINAL_STATUSES THEN "driven" ELSE "resumeRun")
            BY <1>6, <2>3 DEF GetRun
        <3> QED
            BY <1>5, <2>3, <3>1 DEF InputUnchanged
    <2> QED
        BY <2>1, <2>2, <2>3
<1>7. CASE ResumeWaiting(e)
    <2>1. /\ runs[loc[e].run] = "WAITING" /\ Goto(e, "driven") /\ pc[e] = "resumeRun"
          /\ loc' = [loc EXCEPT ![e].status = runs[loc[e].run]]
        BY <1>7 DEF ResumeWaiting
    <2>2. IsSubject(e) \/ input[loc[e].run] = Asked(e)
        BY <1>1, <2>1 DEF LocalsHold, InRun
    <2> QED
        BY <1>5, <2>1, <2>2
<1> QED
    BY <1>6, <1>7

\* An observation to be recorded is true, or says that there was no Run.
LEMMA ObservationMade ==
    ASSUME IInv, NEW e \in Engines, ShortCircuit(e) \/ InspectRun(e)
    PROVE  IInv'
<1> USE DEF storeVars, runVars, historyVars
<1>1. /\ Quiet /\ Calls /\ LocalsHold(e) /\ IsLocals(loc[e])
      /\ pc[e] \in {"getObservation", "inspect"}
    BY DEF IInv, Calls, Quiet, ShortCircuit, InspectRun
<1>2. PlaceKnown(e) /\ execution = loc[e].suite
    BY <1>1 DEF LocalsHold
<1>3. CASE Return(e)
    BY <1>1, <1>3, CallReturns, QuietStep
<1>4. ASSUME NEW o \in Observations, Goto(e, "recordObservation"),
             o.status # NoValue =>
                o.completeness = "COMPLETE" /\ o = ObserveRun(Subject(Item(e))),
             loc' = [loc EXCEPT ![e].record = o]
      PROVE  IInv'
    <2>1. PICK l : l = [loc[e] EXCEPT !.record = o]
        OBVIOUS
    <2>2. /\ IsLocals(l) /\ l.record = o
          /\ l.suite = loc[e].suite /\ l.item = loc[e].item /\ l.ev = loc[e].ev
        BY <1>1, <2>1, WithRecord
    <2>3. loc' = [loc EXCEPT ![e] = l]
        BY <1>4, <2>1
    <2>4. Calls' /\ pc'[e] = "recordObservation" /\ loc'[e] = l /\ Others(e)
        BY <1>1, <1>4, <2>2, <2>3, CallStep
    <2>5. LocalsHold(e)'
        <3>1. /\ Item(e)' = Item(e) /\ PlaceKnown(e)'
              /\ ObserveRun(Subject(Item(e)))' = ObserveRun(Subject(Item(e)))
            BY <1>1, <1>2, <2>2, <2>4, QuietNames
        <3> QED
            BY <1>1, <1>2, <1>4, <2>2, <2>4, <3>1 DEF LocalsHold, BeforeRun, InRun, Quiet
    <2> QED
        BY <1>1, <2>4, <2>5, QuietStep
<1>5. CASE ShortCircuit(e)
    <2>1. PICK c \in {"UNAVAILABLE", "UNSUPPORTED"} :
            loc' = [loc EXCEPT ![e].record = Observation(c, NoValue, NoValue)]
        BY <1>5 DEF ShortCircuit
    <2>2. PICK o : o = Observation(c, NoValue, NoValue)
        OBVIOUS
    <2>3. o \in Observations /\ o.status = NoValue
        BY <2>2 DEF Observation, Observations, Completenesses, OutputValues
    <2>4. loc' = [loc EXCEPT ![e].record = o] /\ Goto(e, "recordObservation")
        BY <1>5, <2>1, <2>2 DEF ShortCircuit
    <2> QED
        BY <1>4, <2>3, <2>4
<1>6. CASE InspectRun(e) /\ ~Return(e)
    <2> DEFINE r == Subject(Item(e))
    <2>1. loc[e].run = r /\ r \in Runs
        BY <1>1, <1>2, <1>6, PlaceFacts DEF LocalsHold, InspectRun
    <2>2. PICK o : o = ObserveRun(r)
        OBVIOUS
    <2>3. /\ o.completeness # "INCONCLUSIVE"
          /\ loc' = [loc EXCEPT ![e].record = o] /\ Goto(e, "recordObservation")
        BY <1>6, <2>1, <2>2 DEF InspectRun
    <2>4. runs[r] \in RunStatuses \cup {"ABSENT"} /\ output[r] \in OutputValues
        BY <2>1 DEF IInv, StoreTypes
    <2>5. o \in Observations /\ (o.status # NoValue => o.completeness = "COMPLETE")
        BY <2>2, <2>3, <2>4, InspectionFacts DEF ObserveRun
    <2> QED
        BY <1>4, <2>2, <2>3, <2>5
<1> QED
    BY <1>3, <1>5, <1>6

LEMMA JudgeStarts ==
    ASSUME IInv, NEW e \in Engines, ExecuteJudge(e)
    PROVE  IInv'
<1> USE DEF storeVars, runVars, historyVars
<1>1. Quiet /\ Calls /\ LocalsHold(e) /\ IsLocals(loc[e]) /\ pc[e] = "getResult"
    BY DEF IInv, Calls, Quiet, ExecuteJudge
<1>2. PlaceKnown(e) /\ execution = loc[e].suite /\ observations[Item(e)] # NoRecord
    BY <1>1 DEF LocalsHold
<1>3. ResultId(e) \in JudgeRuns
    BY <1>2, PlaceFacts DEF ExecuteJudge
<1>4. PICK allowed : loc' = [loc EXCEPT ![e].allowed = allowed, ![e].run = ResultId(e)]
    BY DEF ExecuteJudge
<1>5. PICK l : l = [loc[e] EXCEPT !.allowed = allowed, !.run = ResultId(e)]
    OBVIOUS
<1>6. /\ IsLocals(l) /\ l.run = ResultId(e)
      /\ l.suite = loc[e].suite /\ l.item = loc[e].item /\ l.ev = loc[e].ev
    BY <1>1, <1>5 DEF IsLocals
<1>7. loc' = [loc EXCEPT ![e] = l] /\ Goto(e, "getRun")
    BY <1>4, <1>5 DEF ExecuteJudge
<1>8. Calls' /\ pc'[e] = "getRun" /\ loc'[e] = l /\ Others(e)
    BY <1>1, <1>6, <1>7, CallStep
<1>9. LocalsHold(e)'
    <2>1. Item(e)' = Item(e) /\ ResultId(e)' = ResultId(e) /\ PlaceKnown(e)'
        BY <1>1, <1>2, <1>6, <1>8, QuietNames
    <2>2. RunKnown(e)'
        BY <1>1, <1>2, <1>3, <1>6, <1>8, <2>1 DEF RunKnown, Runs, Quiet
    <2>3. IsSubject(e)' => Held(Item(e))'
        \* No Judge Run bears the name of a subject.
        <3>1. ResultId(e) # Subject(Item(e))
            BY <1>3, SubjectAssumption DEF JudgeRuns, Subject, ResultId
        <3> QED
            BY <1>6, <1>8, <2>1, <3>1 DEF IsSubject
    <2> QED
        BY <1>1, <1>2, <1>8, <1>6, <2>1, <2>2, <2>3 DEF LocalsHold, BeforeRun, InRun, Quiet
<1> QED
    BY <1>1, <1>8, <1>9, QuietStep

LEMMA ResultMade ==
    ASSUME IInv, NEW e \in Engines, ExecuteEvaluator(e) \/ JudgeReturns(e)
    PROVE  IInv'
<1> USE DEF storeVars, runVars, historyVars
<1>1. /\ Quiet /\ Calls /\ LocalsHold(e) /\ IsLocals(loc[e]) /\ Goto(e, "recordResult")
      /\ pc[e] \in {"getResult", "driven"}
    BY DEF IInv, Calls, Quiet, ExecuteEvaluator, JudgeReturns
<1>2. PlaceKnown(e) /\ execution = loc[e].suite
    BY <1>1 DEF LocalsHold
<1>3. PICK x : /\ loc' = [loc EXCEPT ![e].record = x] /\ observations[Item(e)] # NoRecord
               /\ ResultId(e) \in JudgeRuns =>
                    runs[ResultId(e)] # "ABSENT" /\ input[ResultId(e)] = x.asked
    <2>1. CASE ExecuteEvaluator(e)
        <3>1. ResultId(e) \notin JudgeRuns
            BY <1>2, <2>1, PlaceFacts DEF ExecuteEvaluator
        <3>2. observations[Item(e)] # NoRecord
            BY <1>1, <2>1 DEF LocalsHold, ExecuteEvaluator
        <3>3. \E x : loc' = [loc EXCEPT ![e].record = x]
            BY <2>1 DEF ExecuteEvaluator
        <3> QED
            BY <3>1, <3>2, <3>3
    <2>2. CASE JudgeReturns(e)
        <3>1. /\ ~IsSubject(e) /\ loc[e].run = ResultId(e) /\ runs[ResultId(e)] # "ABSENT"
              /\ input[ResultId(e)] = Asked(e) /\ observations[Item(e)] # NoRecord
            BY <1>1, <2>2 DEF JudgeReturns, LocalsHold, InRun, RunKnown
        <3>2. PICK x : x = [outcome |-> IF loc[e].status = "SUCCEEDED"
                                        THEN ParseJudgeVerdict(output[loc[e].run]) ELSE "ERROR",
                            item |-> Item(e), hard |-> FALSE, asked |-> Asked(e)]
            OBVIOUS
        <3>3. loc' = [loc EXCEPT ![e].record = x]
            BY <2>2, <3>2 DEF JudgeReturns
        <3>4. x.asked = Asked(e)
            BY <3>2
        <3> QED
            BY <3>1, <3>3, <3>4
    <2> QED
        BY <2>1, <2>2
<1>4. PICK l : l = [loc[e] EXCEPT !.record = x]
    OBVIOUS
<1>5. /\ IsLocals(l) /\ l.record = x
      /\ l.suite = loc[e].suite /\ l.item = loc[e].item /\ l.ev = loc[e].ev
    BY <1>1, <1>4, WithRecord
<1>6. Calls' /\ pc'[e] = "recordResult" /\ loc'[e] = l /\ Others(e)
    <2>1. loc' = [loc EXCEPT ![e] = l]
        BY <1>3, <1>4
    <2> QED
        BY <1>1, <1>5, <2>1, CallStep
<1>7. LocalsHold(e)'
    <2>1. Item(e)' = Item(e) /\ ResultId(e)' = ResultId(e) /\ PlaceKnown(e)'
        BY <1>1, <1>2, <1>5, <1>6, QuietNames
    <2> QED
        BY <1>1, <1>2, <1>3, <1>5, <1>6, <2>1 DEF LocalsHold, BeforeRun, InRun, Quiet
<1> QED
    BY <1>1, <1>6, <1>7, QuietStep

LEMMA ResultReused ==
    ASSUME IInv, NEW e \in Engines, ReuseResult(e)
    PROVE  IInv'
<1> USE DEF storeVars, runVars, historyVars
<1>1. Quiet /\ Calls /\ LocalsHold(e) /\ pc[e] = "getResult" /\ Proceed(e)
    BY DEF IInv, Quiet, ReuseResult
<1> QED
    BY <1>1, CallProceeds, QuietStep DEF Quiet

------------------------------------------------------------------------------
(* Steps that change the Session of an item. *)

\* What is on record stays true through a step that records nothing.
LEMMA EvidenceStays ==
    ASSUME IInv, Evolves, UNCHANGED <<execution, observations, results, origin>>
    PROVE  OneSuite' /\ ObservationFaithful' /\ Verdicts'
<1>1. OneSuite'
    BY DEF IInv, OneSuite
<1>2. Verdicts'
    BY DEF IInv, Verdicts, Evolves, Runs
<1>3. ObservationFaithful'
    <2> SUFFICES ASSUME NEW i \in Items,
                        observations[i] # NoRecord, observations[i].status # NoValue
                 PROVE  /\ ClaimsFullPopulation(observations[i])
                        /\ observations[i] = ObserveRun(Subject(i))'
        BY DEF ObservationFaithful
    <2>1. ClaimsFullPopulation(observations[i]) /\ observations[i] = ObserveRun(Subject(i))
        BY DEF IInv, ObservationFaithful
    <2>2. ObserveRun(Subject(i)).completeness = "COMPLETE" /\ Subject(i) \in Runs
        BY <2>1 DEF ClaimsFullPopulation, Runs
    <2> QED
        BY <2>1, <2>2, ObservationStays DEF IInv
<1> QED
    BY <1>1, <1>2, <1>3

LEMMA OtherCalls ==
    ASSUME IInv, NEW e \in Engines, Evolves, Others(e), LocalsHold(e)'
    PROVE  \A v \in Engines : LocalsHold(v)'
BY CallKeeps DEF IInv, Others

\* The Session of the item i goes from one state to another.
LEMMA SessionMoves ==
    ASSUME IInv, NEW e \in Engines, NEW i \in Items,
           NEW t \in {"ABSENT", "OPEN", "CLAIMED", "COMMITTED"},
           session' = [session EXCEPT ![i] = t],
           UNCHANGED <<execution, observations, results, runs, output, input, origin>>,
           robbed \subseteq robbed',
           t = "COMMITTED" => runs[Subject(i)] = "SUCCEEDED",
           Held(i) => Held(i)',
           Calls', Others(e), LocalsHold(e)'
    PROVE  IInv'
<1>1. \A j \in Items : session'[j] = IF j = i THEN t ELSE session[j]
    BY DEF IInv, StoreTypes
<1>2. StoreTypes'
    BY DEF IInv, StoreTypes
<1>3. \A j \in Items : Held(j) => Held(j)'
    BY <1>1 DEF Held
<1>4. Evolves
    BY <1>3 DEF Evolves
<1>5. OneSuite' /\ ObservationFaithful' /\ Verdicts'
    BY <1>4, EvidenceStays
<1>6. \A v \in Engines : LocalsHold(v)'
    BY <1>4, OtherCalls
<1>7. SessionsHold'
    BY <1>1, <1>3 DEF IInv, SessionsHold
<1> QED
    BY <1>2, <1>5, <1>6, <1>7 DEF IInv

\* The Session is found or created; a committed turn leads straight to the Run.
LEMMA SessionFound ==
    ASSUME IInv, NEW e \in Engines, GetSession(e) \/ CreateSession(e) \/ FindTurn(e) \/ ClaimRun(e)
    PROVE  IInv'
<1> USE DEF storeVars, runVars, historyVars
<1>0. PICK i : i = Item(e)
    OBVIOUS
<1>1. /\ Calls /\ LocalsHold(e) /\ IsLocals(loc[e])
      /\ pc[e] \in {"getSession", "createSession", "findTurn", "claimRun"}
      /\ UNCHANGED <<execution, observations, results, runs, output, input, origin, robbed>>
    BY DEF IInv, Calls, GetSession, CreateSession, FindTurn, ClaimRun
<1>2. PlaceKnown(e) /\ execution = loc[e].suite
    BY <1>1 DEF LocalsHold
<1>3. i \in Items /\ Subject(i) \in Runs
    BY <1>0, <1>2, PlaceFacts
<1>4. session[i] \in {"ABSENT", "OPEN", "CLAIMED", "COMMITTED"}
    BY <1>3 DEF IInv, StoreTypes
<1>5. PICK t \in {"ABSENT", "OPEN", "CLAIMED", "COMMITTED"} :
        /\ session' = [session EXCEPT ![i] = t]
        /\ \/ t = session[i]
           \/ t = "OPEN" /\ session[i] = "ABSENT"
           \/ t = "CLAIMED" /\ session[i] = "OPEN"
        /\ \/ t \in {"CLAIMED", "COMMITTED"} /\ DriveNext(e, Subject(i))
           \/ \E p \in {"createSession", "findTurn", "claimRun"} : Goto(e, p) /\ UNCHANGED loc
           \/ Return(e)
    <2>1. session = [session EXCEPT ![i] = session[i]]
        BY <1>3 DEF IInv, StoreTypes
    <2>2. CASE FindTurn(e)
        BY <1>0, <1>4, <2>1, <2>2 DEF FindTurn
    <2>4. CASE GetSession(e)
        BY <1>0, <1>4, <2>1, <2>4 DEF GetSession
    <2>5. CASE CreateSession(e)
        BY <1>0, <1>4, <2>1, <2>5 DEF CreateSession
    <2>3. CASE ClaimRun(e)
        BY <1>0, <1>4, <2>1, <2>3 DEF ClaimRun
    <2> QED
        BY <2>2, <2>3, <2>4, <2>5
<1>6. session'[i] = t
    BY <1>3, <1>5 DEF IInv, StoreTypes
<1>7. Held(i) => Held(i)'
    BY <1>1, <1>5, <1>6 DEF Held
<1>8. t = "COMMITTED" => runs[Subject(i)] = "SUCCEEDED"
    BY <1>3, <1>5 DEF IInv, SessionsHold
<1>9. Calls' /\ Others(e) /\ LocalsHold(e)'
    <2>1. CASE Return(e)
        BY <1>1, <2>1, CallReturns
    <2>2. ASSUME NEW p \in {"createSession", "findTurn", "claimRun"}, Goto(e, p), UNCHANGED loc
          PROVE  Calls' /\ Others(e) /\ LocalsHold(e)'
        <3>1. Calls' /\ pc'[e] = p /\ loc'[e] = loc[e] /\ Others(e)
            BY <1>1, <2>2, CallStep
        <3> QED
            BY <1>1, <1>2, <3>1, SamePlace DEF LocalsHold, BeforeRun, InRun
    <2>3. CASE t \in {"CLAIMED", "COMMITTED"} /\ DriveNext(e, Subject(i))
        <3>1. PICK l : l = [loc[e] EXCEPT !.run = Subject(i)]
            OBVIOUS
        <3>2. /\ IsLocals(l) /\ l.run = Subject(i)
              /\ l.suite = loc[e].suite /\ l.item = loc[e].item /\ l.ev = loc[e].ev
            BY <1>1, <3>1, WithRun
        <3>3. Calls' /\ pc'[e] = "getRun" /\ loc'[e] = l /\ Others(e)
            <4>1. loc' = [loc EXCEPT ![e] = l] /\ Goto(e, "getRun")
                BY <2>3, <3>1 DEF DriveNext
            <4> QED
                BY <1>1, <3>2, <4>1, CallStep
        <3>4. Item(e)' = i /\ PlaceKnown(e)' /\ IsSubject(e)'
            BY <1>0, <1>2, <3>2, <3>3, SamePlace DEF IsSubject
        <3>5. Held(Item(e))'
            BY <1>6, <2>3, <3>4 DEF Held
        <3> QED
            BY <1>1, <1>2, <1>3, <3>2, <3>3, <3>4, <3>5
            DEF LocalsHold, BeforeRun, InRun, RunKnown
    <2> QED
        BY <1>5, <2>1, <2>2, <2>3
<1> QED
    BY <1>1, <1>3, <1>5, <1>7, <1>8, <1>9, SessionMoves

\* Releasing or committing the claim.
LEMMA SessionClosed ==
    ASSUME IInv, NEW e \in Engines, Rollback(e) \/ CompleteSession(e)
    PROVE  IInv'
<1> USE DEF storeVars, runVars, historyVars
<1>0. PICK i : i = Item(e)
    OBVIOUS
<1>1. /\ Calls /\ LocalsHold(e) /\ IsLocals(loc[e]) /\ pc[e] \in {"rollback", "driven"}
      /\ UNCHANGED <<execution, observations, results, runs, output, input, origin>>
    BY DEF IInv, Calls, Rollback, CompleteSession
<1>2. PlaceKnown(e) /\ execution = loc[e].suite
    BY <1>1 DEF LocalsHold
<1>3. i \in Items /\ Subject(i) \in Runs
    BY <1>0, <1>2, PlaceFacts
<1>4. /\ session[i] \in {"ABSENT", "OPEN", "CLAIMED", "COMMITTED"}
      /\ session = [session EXCEPT ![i] = session[i]]
    BY <1>3 DEF IInv, StoreTypes
<1>5. session[i] = "COMMITTED" => runs[Subject(i)] = "SUCCEEDED"
    BY <1>3 DEF IInv, SessionsHold
<1>6. CASE Rollback(e)
    <2>1. PICK t \in {"ABSENT", "OPEN", "CLAIMED", "COMMITTED"} :
            /\ session' = [session EXCEPT ![i] = t] /\ robbed \subseteq robbed'
            /\ t = session[i] \/ (t = "OPEN" /\ i \in robbed')
        BY <1>0, <1>4, <1>6 DEF Rollback
    <2>2. session'[i] = t
        BY <1>3, <2>1 DEF IInv, StoreTypes
    <2>3. Held(i) => Held(i)'
        BY <1>1, <2>1, <2>2 DEF Held
    <2>4. Calls' /\ Others(e) /\ LocalsHold(e)'
        BY <1>1, <1>6, CallReturns DEF Rollback
    <2> QED
        BY <1>1, <1>3, <1>5, <2>1, <2>3, <2>4, SessionMoves
<1>7. CASE CompleteSession(e)
    <2>1. /\ IsSubject(e) /\ loc[e].run = Subject(i)
          /\ loc[e].status \in TERMINAL_STATUSES => runs[Subject(i)] = loc[e].status
        BY <1>0, <1>1, <1>7 DEF CompleteSession, LocalsHold, IsSubject
    <2>2. PICK t \in {"ABSENT", "OPEN", "CLAIMED", "COMMITTED"} :
            /\ session' = [session EXCEPT ![i] = t] /\ robbed \subseteq robbed'
            /\ \/ t = session[i]
               \/ t = "COMMITTED" /\ runs[Subject(i)] = "SUCCEEDED"
               \/ t = "OPEN" /\ runs[Subject(i)] \in TERMINAL_STATUSES \ {"SUCCEEDED"}
        <3>1. CASE session[i] # "CLAIMED" \/ loc[e].status \notin TERMINAL_STATUSES
            BY <1>0, <1>4, <1>7, <3>1 DEF CompleteSession
        <3>2. CASE ~(session[i] # "CLAIMED" \/ loc[e].status \notin TERMINAL_STATUSES)
            BY <1>0, <1>7, <2>1, <3>2 DEF CompleteSession
        <3> QED
            BY <3>1, <3>2
    <2>3. session'[i] = t
        BY <1>3, <2>2 DEF IInv, StoreTypes
    <2>4. Held(i) => Held(i)'
        BY <1>1, <2>2, <2>3 DEF Held
    <2>5. Calls' /\ Others(e) /\ LocalsHold(e)'
        <3>1. Goto(e, "inspect") /\ UNCHANGED loc
            BY <1>7 DEF CompleteSession
        <3>2. Calls' /\ pc'[e] = "inspect" /\ loc'[e] = loc[e] /\ Others(e)
            BY <1>1, <3>1, CallStep
        <3> QED
            BY <1>0, <1>1, <1>2, <2>1, <3>2, SamePlace DEF LocalsHold, BeforeRun, InRun
    <2>6. t = "COMMITTED" => runs[Subject(i)] = "SUCCEEDED"
        BY <1>5, <2>2
    <2> QED
        BY <1>1, <1>3, <2>2, <2>4, <2>5, <2>6, SessionMoves
<1> QED
    BY <1>6, <1>7

------------------------------------------------------------------------------
(* Steps that change a Run. *)

LEMMA RunMoves ==
    ASSUME IInv, NEW r \in Runs, NEW s \in RunStatuses, runs[r] \notin TERMINAL_STATUSES,
           runs' = [runs EXCEPT ![r] = s],
           output' \in [Runs -> OutputValues], \A q \in Runs \ {r} : output'[q] = output[q],
           input' = [q \in JudgeRuns |-> input'[q]],
           \A q \in JudgeRuns : q # r \/ runs[r] # "ABSENT" => input'[q] = input[q],
           UNCHANGED <<execution, observations, results, session, origin, robbed>>,
           \A i \in Items : Subject(i) = r => Held(i)
    PROVE  /\ StoreTypes' /\ Evolves /\ SessionsHold'
           /\ OneSuite' /\ ObservationFaithful' /\ Verdicts'
<1>1. \A q \in Runs : runs'[q] = IF q = r THEN s ELSE runs[q]
    BY DEF IInv, StoreTypes
<1>2. \A i \in Items : Subject(i) \in Runs
    BY DEF Runs
<1>3. StoreTypes'
    BY DEF IInv, StoreTypes
<1>4. \A i \in Items : Held(i) => Held(i)'
    BY <1>1, <1>2 DEF Held
<1>5. Evolves
    BY <1>1, <1>4, StatusFacts DEF Evolves, Runs
<1>6. SessionsHold'
    BY <1>1, <1>2, <1>4, StatusFacts DEF IInv, SessionsHold
<1> QED
    BY <1>3, <1>5, <1>6, EvidenceStays

\* Of a Run that is there, the Session is held.
LEMMA SubjectHeld ==
    ASSUME IInv, NEW r \in Runs, runs[r] # "ABSENT"
    PROVE  \A i \in Items : Subject(i) = r => Held(i)
BY DEF IInv, SessionsHold

LEMMA RunEnds ==
    ASSUME IInv, NEW r \in Runs, NEW s \in RunStatuses, runs[r] \notin TERMINAL_STATUSES,
           EndRun(r, s)
    PROVE  /\ runs' = [runs EXCEPT ![r] = s]
           /\ output' \in [Runs -> OutputValues] /\ \A q \in Runs \ {r} : output'[q] = output[q]
<1>1. output \in [Runs -> OutputValues]
    BY DEF IInv, StoreTypes
<1>2. \/ output' = output
      \/ \E o \in OutputValues : output' = [output EXCEPT ![r] = o]
    BY DEF EndRun, OutputsOf, OutputValues
<1> QED
    BY <1>1, <1>2 DEF EndRun

LEMMA ApplicationSteps ==
    ASSUME IInv, NEW r \in Runs, ApplicationDrives(r)
    PROVE  IInv'
<1> USE DEF storeVars, runVars, historyVars
<1>1. PICK s \in AllowedTransitions[runs[r]] : EndRun(r, s)
    BY DEF ApplicationDrives
<1>2. /\ s \in RunStatuses /\ runs[r] \notin TERMINAL_STATUSES /\ runs[r] # "ABSENT"
      /\ runs[r] \in RunStatuses
    BY <1>1, StatusFacts DEF ApplicationDrives
<1>3. /\ UNCHANGED <<execution, observations, results, session, input, origin, robbed>>
      /\ pc' = pc /\ loc' = loc
    BY DEF ApplicationDrives
<1>4. /\ StoreTypes' /\ Evolves /\ SessionsHold'
      /\ OneSuite' /\ ObservationFaithful' /\ Verdicts'
    <2>1. input' = [q \in JudgeRuns |-> input'[q]]
        BY <1>3 DEF IInv, StoreTypes
    <2> QED
        BY <1>1, <1>2, <1>3, <2>1, RunEnds, SubjectHeld, RunMoves
<1>5. \A v \in Engines : LocalsHold(v)'
    BY <1>3, <1>4, CallKeeps DEF IInv
<1>6. Calls'
    BY <1>3 DEF IInv, Calls
<1> QED
    BY <1>4, <1>5, <1>6 DEF IInv

LEMMA DrivingSteps ==
    ASSUME IInv, NEW e \in Engines, RunBegins(e) \/ RunReturns(e)
    PROVE  IInv'
<1> USE DEF storeVars, runVars, historyVars
<1>0. PICK r : r = loc[e].run
    OBVIOUS
<1>1. /\ Calls /\ LocalsHold(e) /\ IsLocals(loc[e]) /\ pc[e] = "driving"
      /\ UNCHANGED <<execution, observations, results, session, input, origin, robbed>>
    BY DEF IInv, Calls, RunBegins, RunReturns
<1>2. /\ PlaceKnown(e) /\ execution = loc[e].suite /\ RunKnown(e)
      /\ ~IsSubject(e) => input[r] = Asked(e)
    BY <1>0, <1>1 DEF LocalsHold, InRun
<1>3. r \in Runs /\ runs[r] \in {"CREATED", "RUNNING", "WAITING"}
    BY <1>0, <1>2 DEF RunKnown, RunBegins, RunReturns
<1>4. PICK s \in RunStatuses :
        /\ runs' = [runs EXCEPT ![r] = s]
        /\ output' \in [Runs -> OutputValues] /\ \A q \in Runs \ {r} : output'[q] = output[q]
        /\ \/ RunBegins(e)
           \/ loc' = [loc EXCEPT ![e].status = s] /\ Goto(e, "driven")
    <2>1. CASE RunBegins(e)
        <3>1. runs' = [runs EXCEPT ![r] = "RUNNING"] /\ output' = output
            BY <1>0, <2>1 DEF RunBegins
        <3> QED
            BY <2>1, <3>1, StatusFacts DEF IInv, StoreTypes
    <2>2. CASE RunReturns(e)
        <3>1. PICK s \in AllowedTransitions["RUNNING"] :
                EndRun(r, s) /\ loc' = [loc EXCEPT ![e].status = s] /\ Goto(e, "driven")
            BY <1>0, <2>2 DEF RunReturns
        <3>2. s \in RunStatuses
            BY <3>1, StatusFacts
        <3>3. /\ runs' = [runs EXCEPT ![r] = s]
              /\ output' \in [Runs -> OutputValues] /\ \A q \in Runs \ {r} : output'[q] = output[q]
            BY <1>3, <3>1, <3>2, StatusFacts, RunEnds
        <3> QED
            BY <3>1, <3>2, <3>3
    <2> QED
        BY <2>1, <2>2
<1>5. /\ StoreTypes' /\ Evolves /\ SessionsHold'
      /\ OneSuite' /\ ObservationFaithful' /\ Verdicts'
    <2>1. input' = [q \in JudgeRuns |-> input'[q]]
        BY <1>1 DEF IInv, StoreTypes
    <2> QED
        BY <1>1, <1>3, <1>4, <2>1, StatusFacts, SubjectHeld, RunMoves
<1>6. CASE RunBegins(e)
    <2>1. pc' = pc /\ loc' = loc
        BY <1>6 DEF RunBegins
    <2>2. \A v \in Engines : LocalsHold(v)'
        BY <1>5, <2>1, CallKeeps DEF IInv
    <2>3. Calls'
        BY <1>1, <2>1 DEF Calls
    <2> QED
        BY <1>5, <2>2, <2>3 DEF IInv
<1>7. CASE loc' = [loc EXCEPT ![e].status = s] /\ Goto(e, "driven")
    <2>1. PICK l : l = [loc[e] EXCEPT !.status = s]
        OBVIOUS
    <2>2. /\ IsLocals(l) /\ l.status = s /\ l.run = r /\ l.allowed = loc[e].allowed
          /\ l.suite = loc[e].suite /\ l.item = loc[e].item /\ l.ev = loc[e].ev
        BY <1>0, <1>1, <2>1, WithStatus
    <2>3. Calls' /\ pc'[e] = "driven" /\ loc'[e] = l /\ Others(e)
        <3>1. loc' = [loc EXCEPT ![e] = l]
            BY <1>7, <2>1
        <3> QED
            BY <1>1, <1>7, <2>2, <3>1, CallStep
    <2>4. runs'[r] = s
        BY <1>3, <1>4 DEF IInv, StoreTypes
    <2>5. LocalsHold(e)'
        <3>1. /\ Item(e)' = Item(e) /\ ResultId(e)' = ResultId(e) /\ PlaceKnown(e)'
              /\ IsSubject(e)' = IsSubject(e) /\ Ev(e)' = Ev(e)
            BY <1>0, <1>2, <2>2, <2>3, SamePlace DEF IsSubject
        <3>2. Asked(e)' = Asked(e) /\ RunKnown(e)'
            BY <1>0, <1>1, <1>2, <2>2, <2>3, <3>1 DEF Asked, RunKnown
        <3> QED
            BY <1>0, <1>1, <1>2, <2>2, <2>3, <2>4, <3>1, <3>2, StatusFacts
            DEF LocalsHold, BeforeRun, InRun
    <2> QED
        BY <1>5, <2>3, <2>5, OtherCalls DEF IInv
<1> QED
    BY <1>4, <1>6, <1>7

\* create_run: a Judge Run freezes the projection of the engine that creates it.
LEMMA CreateStep ==
    ASSUME IInv, NEW e \in Engines, CreateRun(e)
    PROVE  IInv'
<1> USE DEF storeVars, runVars, historyVars
<1>0. PICK r : r = loc[e].run
    OBVIOUS
<1>1. /\ Calls /\ LocalsHold(e) /\ IsLocals(loc[e]) /\ pc[e] = "createRun"
      /\ UNCHANGED <<execution, observations, results, session, output, origin, robbed>>
    BY DEF IInv, Calls, CreateRun
<1>2. /\ PlaceKnown(e) /\ execution = loc[e].suite /\ RunKnown(e)
      /\ IsSubject(e) => Held(Item(e))
    BY <1>1 DEF LocalsHold, BeforeRun
<1>3. r \in Runs /\ Item(e) \in Items /\ Subject(Item(e)) \in Runs /\ ResultId(e) \in ResultIds
    BY <1>0, <1>2, PlaceFacts DEF RunKnown
<1>4. CASE runs[r] # "ABSENT"
    <2>1. Raise(e) /\ Quiet
        BY <1>0, <1>1, <1>4 DEF CreateRun, Quiet
    <2> QED
        BY <1>1, <2>1, CallRaises, QuietStep
<1>5. CASE runs[r] = "ABSENT"
    <2>1. /\ runs' = [runs EXCEPT ![r] = "CREATED"] /\ Goto(e, "startRun") /\ UNCHANGED loc
          /\ input' = IF IsSubject(e) THEN input ELSE [input EXCEPT ![r] = Asked(e)]
        BY <1>0, <1>5 DEF CreateRun
    <2>2. ~IsSubject(e) => r \in JudgeRuns /\ r = ResultId(e) /\ observations[Item(e)] # NoRecord
        BY <1>0, <1>2, <1>3 DEF RunKnown, IsSubject, Runs, ResultId, Subject, ResultIds, JudgeRuns
    <2>3. input = [q \in JudgeRuns |-> input[q]]
        BY DEF IInv, StoreTypes
    <2>4. /\ input' = [q \in JudgeRuns |-> input'[q]]
          /\ \A q \in JudgeRuns : q # r => input'[q] = input[q]
          /\ ~IsSubject(e) => input'[r] = Asked(e)
        <3>1. CASE IsSubject(e)
            BY <2>1, <2>3, <3>1
        <3>2. CASE ~IsSubject(e)
            BY <2>1, <2>2, <2>3, <3>2
        <3> QED
            BY <3>1, <3>2
    <2>5. \A i \in Items : Subject(i) = r => Held(i)
        <3>1. CASE IsSubject(e)
            <4>1. \A i \in Items : Subject(i) = Subject(Item(e)) => i = Item(e)
                BY DEF Subject
            <4> QED
                BY <1>0, <1>2, <3>1, <4>1 DEF IsSubject
        <3>2. CASE ~IsSubject(e)
            <4>1. \A i : Subject(i)[2] = "subject"
                BY DEF Subject
            <4> QED
                BY <1>3, <2>2, <3>2, <4>1, SubjectAssumption
        <3> QED
            BY <3>1, <3>2
    <2>6. /\ StoreTypes' /\ Evolves /\ SessionsHold'
          /\ OneSuite' /\ ObservationFaithful' /\ Verdicts'
        <3>1. /\ "CREATED" \in RunStatuses /\ runs[r] \notin TERMINAL_STATUSES
              /\ output' \in [Runs -> OutputValues]
            BY <1>1, <1>5, StatusFacts DEF IInv, StoreTypes
        <3> QED
            BY <1>1, <1>3, <1>5, <2>1, <2>4, <2>5, <3>1, RunMoves
    <2>7. Calls' /\ pc'[e] = "startRun" /\ loc'[e] = loc[e] /\ Others(e)
        BY <1>1, <2>1, CallStep
    <2>8. runs'[r] = "CREATED"
        BY <1>3, <2>1 DEF IInv, StoreTypes
    <2>9. LocalsHold(e)'
        <3>1. /\ Item(e)' = Item(e) /\ ResultId(e)' = ResultId(e) /\ PlaceKnown(e)'
              /\ IsSubject(e)' = IsSubject(e) /\ Ev(e)' = Ev(e)
            BY <1>0, <1>2, <2>7, SamePlace DEF IsSubject
        <3>2. Asked(e)' = Asked(e) /\ RunKnown(e)'
            BY <1>0, <1>1, <1>2, <2>7, <3>1 DEF Asked, RunKnown
        <3> QED
            BY <1>0, <1>1, <1>2, <2>4, <2>7, <2>8, <3>1, <3>2 DEF LocalsHold, BeforeRun, InRun
    <2> QED
        BY <2>6, <2>7, <2>9, OtherCalls DEF IInv
<1> QED
    BY <1>4, <1>5

------------------------------------------------------------------------------
(* Steps that add a record. *)

LEMMA ExecutionRecorded ==
    ASSUME IInv, NEW e \in Engines, RecordExecution(e)
    PROVE  IInv'
<1> USE DEF storeVars, runVars, historyVars
<1>1. /\ Calls /\ LocalsHold(e) /\ IsLocals(loc[e]) /\ pc[e] = "recordExecution"
      /\ PlaceKnown(e)
      /\ UNCHANGED <<observations, results, session, runs, output, input, origin, robbed>>
    BY DEF IInv, Calls, RecordExecution, LocalsHold
<1>2. CASE Return(e) /\ UNCHANGED execution
    <2>1. Quiet
        BY <1>1, <1>2 DEF Quiet
    <2> QED
        BY <1>1, <1>2, <2>1, CallReturns, QuietStep
<1>3. CASE /\ execution = NoSuite /\ execution' = loc[e].suite
           /\ Goto(e, "getObservation") /\ UNCHANGED loc
    <2>1. StoreTypes'
        BY <1>1, <1>3 DEF IInv, StoreTypes, PlaceKnown
    <2>2. Evolves
        BY <1>1, <1>3 DEF Evolves, Held
    <2>3. Calls' /\ pc'[e] = "getObservation" /\ loc'[e] = loc[e] /\ Others(e)
        BY <1>1, <1>3, CallStep
    <2>4. LocalsHold(e)'
        BY <1>1, <1>3, <2>3, SamePlace DEF LocalsHold, BeforeRun, InRun
    \* Nothing has been recorded without an execution.
    <2>5. OneSuite'
        BY <1>1, <1>3 DEF IInv, OneSuite
    <2>6. ObservationFaithful' /\ Verdicts' /\ SessionsHold'
        BY <1>1 DEF IInv, ObservationFaithful, ObserveRun, Verdicts, SessionsHold, Held
    <2> QED
        BY <2>1, <2>2, <2>3, <2>4, <2>5, <2>6, OtherCalls DEF IInv
<1> QED
    BY <1>2, <1>3 DEF RecordExecution

LEMMA ObservationRecorded ==
    ASSUME IInv, NEW e \in Engines, RecordObservation(e)
    PROVE  IInv'
<1> USE DEF storeVars, runVars, historyVars
<1>0. PICK i, o : i = Item(e) /\ o = loc[e].record
    OBVIOUS
<1>1. /\ Calls /\ LocalsHold(e) /\ IsLocals(loc[e]) /\ pc[e] = "recordObservation"
      /\ UNCHANGED <<execution, results, session, runs, output, input, robbed>>
    BY DEF IInv, Calls, RecordObservation
<1>2. /\ PlaceKnown(e) /\ execution = loc[e].suite
      /\ o \in Observations
      /\ o.status # NoValue => o.completeness = "COMPLETE" /\ o = ObserveRun(Subject(i))
    BY <1>0, <1>1 DEF LocalsHold
<1>3. i \in Items /\ Subject(i) \in Runs
    BY <1>0, <1>2, PlaceFacts
<1>4. CASE Return(e) /\ UNCHANGED <<observations, origin>>
    <2>1. Quiet
        BY <1>1, <1>4 DEF Quiet
    <2> QED
        BY <1>1, <1>4, <2>1, CallReturns, QuietStep
<1>5. CASE /\ observations[i] = NoRecord /\ observations' = [observations EXCEPT ![i] = o]
           /\ origin' = [origin EXCEPT ![i] = loc[e].suite]
           /\ loc' = [loc EXCEPT ![e].record = NoRecord, ![e].run = NoRecord,
                                 ![e].status = "ABSENT"]
           /\ Goto(e, "getResult")
    <2>1. \A j \in Items : observations'[j] = IF j = i THEN o ELSE observations[j]
        BY <1>3, <1>5 DEF IInv, StoreTypes
    <2>2. StoreTypes'
        BY <1>1, <1>2, <1>3, <1>5 DEF IInv, StoreTypes
    <2>3. Evolves
        BY <1>1, <1>5, <2>1 DEF Evolves, Held
    <2>4. PICK l : l = [loc[e] EXCEPT !.record = NoRecord, !.run = NoRecord, !.status = "ABSENT"]
        OBVIOUS
    <2>5. /\ IsLocals(l) /\ l.suite = loc[e].suite /\ l.item = loc[e].item /\ l.ev = loc[e].ev
        BY <1>1, <2>4 DEF IsLocals
    <2>6. Calls' /\ pc'[e] = "getResult" /\ loc'[e] = l /\ Others(e)
        <3>1. loc' = [loc EXCEPT ![e] = l]
            BY <1>5, <2>4
        <3> QED
            BY <1>1, <1>5, <2>5, <3>1, CallStep
    <2>7. LocalsHold(e)'
        <3>1. Item(e)' = i /\ PlaceKnown(e)'
            BY <1>0, <1>2, <2>5, <2>6, SamePlace
        <3>2. observations'[i] # NoRecord
            BY <1>2, <1>3, <2>1, SuiteAssumption
        <3> QED
            BY <1>1, <1>2, <2>5, <2>6, <3>1, <3>2 DEF LocalsHold, BeforeRun, InRun
    <2>8. OneSuite'
        BY <1>1, <1>2, <1>5 DEF IInv, OneSuite
    <2>9. ObservationFaithful'
        BY <1>1, <1>2, <2>1 DEF IInv, ObservationFaithful, ObserveRun, ClaimsFullPopulation
    <2>10. Verdicts' /\ SessionsHold'
        BY <1>1 DEF IInv, Verdicts, SessionsHold, Held
    <2> QED
        BY <2>2, <2>3, <2>6, <2>7, <2>8, <2>9, <2>10, OtherCalls DEF IInv
<1> QED
    BY <1>0, <1>4, <1>5 DEF RecordObservation

LEMMA ResultRecorded ==
    ASSUME IInv, NEW e \in Engines, RecordResult(e)
    PROVE  IInv'
<1> USE DEF storeVars, runVars, historyVars
<1>0. PICK x, o : x = ResultId(e) /\ o = loc[e].record
    OBVIOUS
<1>1. /\ Calls /\ LocalsHold(e) /\ pc[e] = "recordResult"
      /\ UNCHANGED <<execution, observations, session, runs, output, input, robbed>>
    BY DEF IInv, RecordResult
<1>2. /\ PlaceKnown(e) /\ execution = loc[e].suite
      /\ x \in JudgeRuns => runs[x] # "ABSENT" /\ input[x] = o.asked
    BY <1>0, <1>1 DEF LocalsHold
<1>3. x \in ResultIds
    BY <1>0, <1>2, PlaceFacts
<1>4. CASE Return(e) /\ UNCHANGED <<results, origin>>
    <2>1. Quiet
        BY <1>1, <1>4 DEF Quiet
    <2> QED
        BY <1>1, <1>4, <2>1, CallReturns, QuietStep
<1>5. CASE /\ results' = [results EXCEPT ![x] = o]
           /\ origin' = [origin EXCEPT ![x] = loc[e].suite]
           /\ Proceed(e)
    <2>1. results = [y \in ResultIds |-> results[y]]
        BY DEF IInv, StoreTypes
    <2>2. /\ \A y \in ResultIds : results'[y] = IF y = x THEN o ELSE results[y]
          /\ results' = [y \in ResultIds |-> results'[y]]
        BY <1>3, <1>5, <2>1
    <2>3. StoreTypes'
        BY <1>1, <2>2 DEF IInv, StoreTypes
    <2>4. Evolves
        BY <1>1 DEF Evolves, Held
    <2>5. Calls' /\ Others(e) /\ LocalsHold(e)'
        BY <1>1, <1>5, CallProceeds
    <2>6. OneSuite'
        BY <1>1, <1>2, <1>5 DEF IInv, OneSuite
    <2>7. Verdicts'
        BY <1>1, <1>2, <2>2 DEF IInv, Verdicts, JudgeRuns
    <2>8. ObservationFaithful' /\ SessionsHold'
        BY <1>1 DEF IInv, ObservationFaithful, ObserveRun, SessionsHold, Held
    <2> QED
        BY <2>3, <2>4, <2>5, <2>6, <2>7, <2>8, OtherCalls DEF IInv
<1> QED
    BY <1>0, <1>4, <1>5 DEF RecordResult

------------------------------------------------------------------------------
(* The theorems. *)

LEMMA InvInit == Init => IInv
<1> SUFFICES ASSUME Init PROVE IInv
    OBVIOUS
<1>1. StoreTypes
    <2>1. NoValue \in OutputValues
        BY DEF OutputValues
    <2> QED
        BY <2>1 DEF Init, StoreTypes
<1>2. Calls
    BY NoLocalsFacts DEF Init, Calls
<1>3. \A e \in Engines : LocalsHold(e)
    BY DEF Init, LocalsHold
<1>4. OneSuite /\ ObservationFaithful /\ Verdicts
    <2>1. OneSuite
        <3>1. \A x \in Items \cup ResultIds : origin[x] = NoSuite
            BY DEF Init
        <3>2. DOMAIN origin = Items \cup ResultIds
            BY DEF Init
        <3> QED
            BY <3>1, <3>2 DEF OneSuite
    <2>2. ObservationFaithful
        BY DEF Init, ObservationFaithful
    <2>3. Verdicts
        <3>1. \A r \in ResultIds : results[r] = NoRecord
            BY DEF Init
        <3> QED
            BY <3>1 DEF Verdicts, JudgeRuns
    <2> QED
        BY <2>1, <2>2, <2>3
<1>5. SessionsHold
    BY DEF Init, SessionsHold, Runs
<1> QED
    BY <1>1, <1>2, <1>3, <1>4, <1>5 DEF IInv

LEMMA InvStep == IInv /\ [Next]_vars => IInv'
<1> SUFFICES ASSUME IInv, [Next]_vars PROVE IInv'
    OBVIOUS
<1>1. ASSUME NEW e \in Engines, NEW s \in Suites, RunSuite(e, s) PROVE IInv'
    BY <1>1, StartingSteps
<1>2. ASSUME NEW e \in Engines, PublishReport(e) \/ LeaveClaim(e) \/ Fail(e) PROVE IInv'
    BY <1>2, MovingSteps, EndingSteps
<1>3. ASSUME NEW e \in Engines, Advance(e) PROVE IInv'
    BY <1>3, ExecutionRecorded, MovingSteps, ObservationMade, EndingSteps, ClaimFound,
       SessionFound, RunFound, CreateStep, DrivingSteps, SessionClosed, ObservationRecorded,
       ResultReused, JudgeStarts, ResultMade, ResultRecorded
    DEF Advance
<1>4. ASSUME NEW r \in Runs, ApplicationDrives(r) PROVE IInv'
    BY <1>4, ApplicationSteps
<1>5. CASE UNCHANGED vars
    <2>1. Quiet /\ pc' = pc /\ loc' = loc
        BY <1>5 DEF vars, Quiet, storeVars, runVars, historyVars
    <2>2. StoreTypes' /\ Calls'
        BY <2>1 DEF IInv, StoreTypes, Calls, Quiet
    <2>3. Evolves
        BY <2>1 DEF Evolves, Quiet, Held
    <2>4. \A e \in Engines : LocalsHold(e)'
        BY <2>1, <2>3, CallKeeps DEF IInv
    <2>5. OneSuite' /\ ObservationFaithful' /\ Verdicts'
        BY <2>1, <2>3, EvidenceStays DEF Quiet
    <2>6. SessionsHold'
        BY <2>1 DEF IInv, SessionsHold, Held, Quiet
    <2> QED
        BY <2>2, <2>4, <2>5, <2>6 DEF IInv
<1> QED
    BY <1>1, <1>2, <1>3, <1>4, <1>5 DEF Next

LEMMA Invariance == Spec => []IInv
<1> QED
    BY InvInit, InvStep, PTL DEF Spec

\* All evidence of an execution was made for the Suite it was created for,
\* whatever Suites the engines came with.
THEOREM OneSuiteHolds == Spec => []OneSuite
<1>1. IInv => OneSuite
    BY DEF IInv
<1> QED
    BY <1>1, Invariance, PTL

\* A stored observation of a Run is what inspecting the Run shows, now and for
\* ever, although the Run may have been resumed between driving and recording.
THEOREM ObservationFaithfulHolds == Spec => []ObservationFaithful
<1>1. IInv => ObservationFaithful
    BY DEF IInv
<1> QED
    BY <1>1, Invariance, PTL

\* A turn belongs to a success, and a recorded success has its turn or its
\* claim, unless a rollback had released the claim.
THEOREM TurnAccountedHolds == Spec => []TurnAccounted
<1>1. IInv => TurnAccounted
    <2> SUFFICES ASSUME IInv, NEW i \in Items
                 PROVE  /\ session[i] = "COMMITTED" => runs[Subject(i)] = "SUCCEEDED"
                        /\ observations[i] # NoRecord =>
                            (observations[i].status = "SUCCEEDED" =>
                                session[i] \in {"CLAIMED", "COMMITTED"} \/ i \in robbed)
        BY DEF TurnAccounted
    <2>1. session[i] = "COMMITTED" => runs[Subject(i)] = "SUCCEEDED"
        BY DEF IInv, SessionsHold
    <2>2. ASSUME observations[i] # NoRecord, observations[i].status = "SUCCEEDED"
          PROVE  session[i] \in {"CLAIMED", "COMMITTED"} \/ i \in robbed
        <3> DEFINE r == Subject(i)
        <3>1. /\ observations[i].completeness = "COMPLETE" /\ observations[i] = ObserveRun(r)
              /\ r \in Runs
            BY <2>2, StatusFacts DEF IInv, ObservationFaithful, ClaimsFullPopulation, Runs
        <3>2. runs[r] \in RunStatuses \cup {"ABSENT"} /\ output[r] \in OutputValues
            BY <3>1 DEF IInv, StoreTypes
        <3>3. runs[r] \in TERMINAL_STATUSES /\ observations[i].status = runs[r]
            <4>1. PICK s \in RunStatuses \cup {"ABSENT"}, o \in OutputValues :
                    s = runs[r] /\ o = output[r]
                BY <3>2
            <4>2. PICK obs : obs = ObservationFromInspection(s, o, FALSE)
                OBVIOUS
            <4>3. /\ (obs.completeness = "COMPLETE") <=> (s \in TERMINAL_STATUSES)
                  /\ s \in TERMINAL_STATUSES => obs.status = s
                BY <4>2, InspectionFacts
            <4>4. observations[i] = obs
                BY <3>1, <4>1, <4>2 DEF ObserveRun
            <4> QED
                BY <3>1, <4>1, <4>3, <4>4
        <3>4. runs[r] = "SUCCEEDED" /\ Held(i)
            BY <2>2, <3>3, StatusFacts DEF IInv, SessionsHold
        <3> QED
            BY <3>4 DEF Held
    <2> QED
        BY <2>1, <2>2
<1> QED
    BY <1>1, Invariance, PTL

\* A verdict answers the question of the engine that recorded it, whichever
\* engine created the Judge Run, under whichever projection policy.
THEOREM JudgedAsAskedHolds == Spec => []JudgedAsAsked
<1>1. IInv => JudgedAsAsked
    BY DEF IInv, Verdicts, JudgedAsAsked
<1> QED
    BY <1>1, Invariance, PTL

------------------------------------------------------------------------------
(* Reports.  A second invariant, on top of IInv: records say what they were    *)
(* made from, and a call is as far as the results it has seen.                 *)

Judged(s, i) == \A ev \in Range(EvaluatorRefs[s][i]) : results[<<i, ev>>] # NoRecord

\* What the result of x may say.
Honest(x, r) ==
    /\ r \in ResultRecords /\ r.item = x[1]
    /\ r.outcome = "PASS" /\ Evaluator[x[2]].kind # "judge" =>
        observations[x[1]].completeness = "COMPLETE"

\* The items and evaluators before a place in the loops of run_suite are done.
PassedAt(s, n, k) ==
    /\ \A m \in 1..(n - 1) : Judged(s, Plan[s][m])
    /\ \A m \in 1..(k - 1) : results[<<Plan[s][n], EvaluatorRefs[s][Plan[s][n]][m]>>] # NoRecord

Passed(e) == PassedAt(loc[e].suite, loc[e].item, loc[e].ev)

Worked(e) ==
    pc[e] # "idle" =>
        /\ Passed(e)
        /\ pc[e] = "recordObservation" => loc[e].record.completeness # "SAMPLED"
        /\ pc[e] = "recordResult" => Honest(ResultId(e), loc[e].record)
        /\ pc[e] = "report" => \A i \in Range(Plan[loc[e].suite]) : Judged(loc[e].suite, i)

RecordsHonest ==
    /\ \A i \in Items : observations[i] # NoRecord => observations[i].completeness # "SAMPLED"
    /\ \A x \in ResultIds : results[x] # NoRecord =>
        observations[x[1]] # NoRecord /\ Honest(x, results[x])

ReportKnown ==
    report # NoRecord =>
        execution \in Suites /\ \A i \in Range(Plan[execution]) : Judged(execution, i)

RInv == RecordsHonest /\ ReportKnown /\ ReportHonest /\ \A e \in Engines : Worked(e)

------------------------------------------------------------------------------
(* Evaluators and reports as operators. *)

LEMMA ResultIdFacts ==
    ASSUME NEW s \in Suites, NEW i \in Range(Plan[s]), NEW ev \in Range(EvaluatorRefs[s][i])
    PROVE  /\ <<i, ev>> \in ResultIds /\ <<i, ev>>[1] = i /\ <<i, ev>>[2] = ev
           /\ i \in Items
<1>1. i \in Items
    BY DEF Items
<1>2. <<i, ev>> \in {<<i, f>> : f \in Range(EvaluatorRefs[s][i])}
    OBVIOUS
<1>3. <<i, ev>> \in UNION {{<<j, f>> : f \in Range(EvaluatorRefs[s][j])} : j \in Range(Plan[s])}
    BY <1>2
<1> QED
    BY <1>1, <1>3 DEF ResultIds

LEMMA ResultIdItem ==
    ASSUME NEW x \in ResultIds
    PROVE  x[1] \in Items
<1>1. PICK s \in Suites : x \in UNION {{<<i, ev>> : ev \in Range(EvaluatorRefs[s][i])} :
                                        i \in Range(Plan[s])}
    BY DEF ResultIds
<1>2. PICK i \in Range(Plan[s]) : x \in {<<i, ev>> : ev \in Range(EvaluatorRefs[s][i])}
    BY <1>1
<1> QED
    BY <1>2 DEF Items

LEMMA ProjectionTyped ==
    ASSUME NEW obs \in Observations, NEW required \in SUBSET EvidenceFields, NEW allowed
    PROVE  /\ Projection(obs, required, allowed) \in Projections
           /\ Projection(obs, required, allowed).completeness = obs.completeness
<1> DEFINE denied == required \ allowed
           unavailable == {f \in required \cap allowed : FieldValue(obs, f) = NoValue}
           F == required \ (denied \cup unavailable)
           values == [f \in F |-> FieldValue(obs, f)]
<1>1. obs.completeness \in Completenesses
    BY DEF Observations
<1>2. \A f \in F : FieldValue(obs, f) \in RunStatuses \cup OutputValues
    BY DEF FieldValue, Observations, OutputValues, EvidenceFields
<1>3. F \in SUBSET EvidenceFields /\ denied \in SUBSET EvidenceFields
      /\ unavailable \in SUBSET EvidenceFields
    OBVIOUS
<1>4. Projection(obs, required, allowed) =
        [completeness |-> obs.completeness, values |-> values, denied |-> denied,
         unavailable |-> unavailable]
    BY DEF Projection
<1> HIDE DEF denied, unavailable, F
<1>5. values \in [F -> RunStatuses \cup OutputValues]
    BY <1>2
<1> HIDE DEF values
<1>6. values \in UNION {[G -> RunStatuses \cup OutputValues] : G \in SUBSET EvidenceFields}
    BY <1>3, <1>5
<1>7. PICK c, V, S : /\ c = obs.completeness /\ S = SUBSET EvidenceFields
                     /\ V = UNION {[G -> RunStatuses \cup OutputValues] : G \in SUBSET EvidenceFields}
    OBVIOUS
<1>8. [completeness |-> c, values |-> values, denied |-> denied, unavailable |-> unavailable]
        \in [completeness : Completenesses, values : V, denied : S, unavailable : S]
    BY <1>1, <1>3, <1>6, <1>7
<1> QED
    BY <1>4, <1>7, <1>8 DEF Projections

\* run_evaluator passes nothing that was not observed.
LEMMA EvaluatorFacts ==
    ASSUME NEW evaluator, NEW p, p.completeness \in Completenesses
    PROVE  /\ RunEvaluator(evaluator, p) \in Outcomes
           /\ RunEvaluator(evaluator, p) = "PASS" => p.completeness \in {"COMPLETE", "SAMPLED"}
<1>1. Evaluate(evaluator, p) \in Outcomes
    BY DEF Evaluate, Outcomes
<1>2. CASE p.completeness = "UNSUPPORTED"
    BY <1>2 DEF RunEvaluator, Outcomes
<1>3. CASE p.completeness \in {"UNAVAILABLE", "INCONCLUSIVE"}
    BY <1>3 DEF RunEvaluator, Outcomes
<1>4. CASE p.completeness \in {"COMPLETE", "SAMPLED"}
    BY <1>1, <1>4 DEF RunEvaluator, Outcomes
<1> QED
    BY <1>2, <1>3, <1>4 DEF Completenesses

LEMMA WorstFacts ==
    ASSUME NEW S
    PROVE  /\ Worst(S) \in Outcomes
           /\ Worst(S) = "PASS" => \A o \in S : o \in Outcomes => o = "PASS"
BY DEF Worst, Outcomes

LEMMA RepetitionFacts ==
    ASSUME NEW records
    PROVE  /\ RepetitionOutcome(records).overall \in Outcomes
           /\ RepetitionOutcome(records).overall = "PASS" =>
                \A r \in records : r.outcome \in Outcomes => r.outcome = "PASS"
<1>1. CASE records = {}
    BY <1>1 DEF RepetitionOutcome, Gates, Outcomes
<1>2. CASE records # {}
    <2>1. PICK S : S = {r.outcome : r \in records}
        OBVIOUS
    <2>2. RepetitionOutcome(records).overall = Worst(S)
        BY <1>2, <2>1 DEF RepetitionOutcome, Gates
    <2> QED
        BY <2>1, <2>2, WorstFacts
<1> QED
    BY <1>1, <1>2

\* A case passes only if all its repetitions do.
Passing(c) == c.gates.overall = "PASS" \/ c.passAtK
Repetition(records, case, variant, k) == {r \in records : r.item = <<case.id, variant, k>>}

LEMMA CaseFacts ==
    ASSUME NEW s, NEW case, NEW variant, NEW records, NEW k \in 1..case.repetitions,
           Passing(CaseReport(s, case, variant, records))
    PROVE  RepetitionOutcome(Repetition(records, case, variant, k)).overall = "PASS"
<1> DEFINE Rep(n) == RepetitionOutcome(Repetition(records, case, variant, n))
           ordered == {Rep(n) : n \in 1..case.repetitions}
           S == {g.overall : g \in ordered}
<1>1. Rep(k).overall \in Outcomes
    BY RepetitionFacts
<1>2. /\ CaseReport(s, case, variant, records).gates.overall = Worst(S)
      /\ CaseReport(s, case, variant, records).passAtK = (\A g \in ordered : g.overall = "PASS")
    BY DEF CaseReport, WorstGates, Gates, Repetition
<1> HIDE DEF Rep
<1>3. Rep(k) \in ordered
    OBVIOUS
<1> HIDE DEF ordered
<1>4. Rep(k).overall \in S
    BY <1>3
<1> HIDE DEF S
<1>5. CASE Worst(S) = "PASS"
    BY <1>1, <1>4, <1>5, WorstFacts DEF Rep
<1>6. CASE \A g \in ordered : g.overall = "PASS"
    BY <1>3, <1>6 DEF Rep
<1> QED
    BY <1>2, <1>5, <1>6 DEF Passing

\* A report passes only if all its cases do.
LEMMA ReportFacts ==
    ASSUME NEW s \in Suites, NEW records, NEW i \in Range(Plan[s]), NEW report0,
           report0 = BuildReportRevision(s, records),
           report0.gates.overall = "PASS" \/ report0.cases[<<i[1], i[2]>>].passAtK
    PROVE  \A r \in records : r.item = i /\ r.outcome \in Outcomes => r.outcome = "PASS"
<1> DEFINE Case(k) == CaseReport(s, CaseById(s, k[1]), k[2], records)
           cases == [k \in CaseVariants(s) |-> Case(k)]
<1>1. PICK key : key = <<i[1], i[2]>>
    OBVIOUS
<1>2. /\ key \in CaseVariants(s) /\ key[1] = i[1] /\ key[2] = i[2] /\ i[3] \in 1..CaseById(s, i[1]).repetitions
      /\ i = <<CaseById(s, i[1]).id, i[2], i[3]>>
    BY <1>1, ItemAssumption DEF CaseVariants
<1>3. /\ report0.cases = cases
      /\ report0.gates = WorstGates({cases[k].gates : k \in CaseVariants(s)})
    <2>1. report0 = [cases |-> cases, gates |-> WorstGates({cases[k].gates : k \in CaseVariants(s)})]
        BY DEF BuildReportRevision
    <2> HIDE DEF Case, cases
    <2> QED
        BY <2>1
<1> HIDE DEF Case
<1>4. cases[key] = Case(key)
    BY <1>2
<1>5. Case(key).gates.overall \in Outcomes
    <2>1. PICK S : Case(key).gates.overall = Worst(S)
        BY DEF Case, CaseReport, WorstGates, Gates
    <2> QED
        BY <2>1, WorstFacts
<1>6. Case(key).gates.overall = "PASS" \/ Case(key).passAtK
    <2>1. CASE report0.gates.overall = "PASS"
        <3> HIDE DEF cases
        <3>1. PICK G : G = {cases[k].gates : k \in CaseVariants(s)}
            OBVIOUS
        <3>2. PICK S : S = {g.overall : g \in G}
            OBVIOUS
        <3>3. Worst(S) = "PASS"
            BY <1>3, <2>1, <3>1, <3>2 DEF WorstGates, Gates
        <3>4. cases[key].gates \in G
            BY <1>2, <3>1
        <3>5. cases[key].gates.overall \in S
            BY <3>2, <3>4
        <3> QED
            BY <1>4, <1>5, <3>3, <3>5, WorstFacts
    <2>2. CASE report0.cases[<<i[1], i[2]>>].passAtK
        BY <1>1, <1>3, <1>4, <2>2
    <2> QED
        BY <2>1, <2>2
<1>7. PICK case : case = CaseById(s, i[1])
    OBVIOUS
<1>8. Case(key) = CaseReport(s, case, i[2], records)
    BY <1>2, <1>7 DEF Case
<1>9. RepetitionOutcome({r \in records : r.item = <<case.id, i[2], i[3]>>}).overall = "PASS"
    <2>1. PICK v, k : v = i[2] /\ k = i[3]
        OBVIOUS
    <2>2. k \in 1..case.repetitions
        BY <1>2, <1>7, <2>1
    <2>3. Passing(CaseReport(s, case, v, records))
        BY <1>6, <1>8, <2>1 DEF Passing
    <2>4. RepetitionOutcome(Repetition(records, case, v, k)).overall = "PASS"
        BY <2>2, <2>3, CaseFacts
    <2> QED
        BY <2>1, <2>4 DEF Repetition
<1>10. RepetitionOutcome({r \in records : r.item = i}).overall = "PASS"
    BY <1>2, <1>7, <1>9
<1> QED
    BY <1>10, RepetitionFacts

------------------------------------------------------------------------------
(* What is on record stays. *)

Grows ==
    /\ execution # NoSuite => execution' = execution
    /\ \A i \in Items : observations[i] # NoRecord => observations'[i] = observations[i]
    /\ \A x \in ResultIds : results[x] # NoRecord => results'[x] = results[x]

LEMMA HonestStays ==
    ASSUME Grows, NEW x \in ResultIds, NEW r, observations[x[1]] # NoRecord, Honest(x, r)
    PROVE  Honest(x, r)'
<1>1. observations'[x[1]] = observations[x[1]]
    BY ResultIdItem DEF Grows
<1> QED
    BY <1>1 DEF Honest

LEMMA JudgedStays ==
    ASSUME Grows, NEW s \in Suites, NEW i \in Range(Plan[s]), Judged(s, i)
    PROVE  Judged(s, i)'
BY ResultIdFacts DEF Judged, Grows

\* The items and evaluators of a Suite by their numbers.
LEMMA Numbered ==
    ASSUME NEW s \in Suites
    PROVE  /\ Len(Plan[s]) \in Nat
           /\ \A n \in 1..Len(Plan[s]) : Plan[s][n] \in Range(Plan[s])
           /\ \A i \in Range(Plan[s]) : \E n \in 1..Len(Plan[s]) : i = Plan[s][n]
           /\ \A i \in Range(Plan[s]) :
                /\ Len(EvaluatorRefs[s][i]) \in Nat
                /\ \A n \in 1..Len(EvaluatorRefs[s][i]) :
                    EvaluatorRefs[s][i][n] \in Range(EvaluatorRefs[s][i])
                /\ \A ev \in Range(EvaluatorRefs[s][i]) :
                    \E n \in 1..Len(EvaluatorRefs[s][i]) : ev = EvaluatorRefs[s][i][n]
<1>1. ASSUME NEW q, q \in Seq(Range(q))
      PROVE  /\ Len(q) \in Nat /\ \A n \in 1..Len(q) : q[n] \in Range(q)
             /\ \A x \in Range(q) : \E n \in 1..Len(q) : x = q[n]
    BY <1>1 DEF Range
<1>2. Plan[s] \in Seq(Range(Plan[s]))
    BY SuiteAssumption
<1>3. ASSUME NEW i \in Range(Plan[s])
      PROVE  EvaluatorRefs[s][i] \in Seq(Range(EvaluatorRefs[s][i]))
    BY SuiteAssumption
<1> QED
    BY <1>1, <1>2, <1>3

LEMMA PassedStays ==
    ASSUME Grows, NEW s \in Suites, NEW n \in 1..Len(Plan[s]),
           NEW k \in 1..Len(EvaluatorRefs[s][Plan[s][n]]), PassedAt(s, n, k)
    PROVE  PassedAt(s, n, k)'
<1>1. Len(Plan[s]) \in Nat /\ Plan[s][n] \in Range(Plan[s])
    BY Numbered
<1>2. ASSUME NEW m \in 1..(n - 1) PROVE Judged(s, Plan[s][m])'
    <2>1. PICK i : i = Plan[s][m]
        OBVIOUS
    <2>2. i \in Range(Plan[s])
        BY <1>1, <2>1, Numbered
    <2>3. Judged(s, i)
        BY <2>1 DEF PassedAt
    <2>4. Judged(s, i)'
        BY <2>2, <2>3, JudgedStays
    <2> QED
        BY <2>1, <2>4
<1>3. ASSUME NEW m \in 1..(k - 1)
      PROVE  results'[<<Plan[s][n], EvaluatorRefs[s][Plan[s][n]][m]>>] # NoRecord
    <2>1. PICK i, ev : i = Plan[s][n] /\ ev = EvaluatorRefs[s][i][m]
        OBVIOUS
    <2>2. i \in Range(Plan[s]) /\ Len(EvaluatorRefs[s][i]) \in Nat
        BY <1>1, <2>1, Numbered
    <2>3. m \in 1..Len(EvaluatorRefs[s][i])
        BY <2>1, <2>2
    <2>4. ev \in Range(EvaluatorRefs[s][i])
        BY <2>1, <2>2, <2>3, Numbered
    <2>5. <<i, ev>> \in ResultIds
        BY <2>2, <2>4, ResultIdFacts
    <2>6. results[<<i, ev>>] # NoRecord
        BY <2>1 DEF PassedAt
    <2> QED
        BY <2>1, <2>5, <2>6 DEF Grows
<1> QED
    BY <1>2, <1>3 DEF PassedAt

LEMMA PassedSame ==
    ASSUME NEW e, Passed(e), results' = results, loc'[e].suite = loc[e].suite,
           loc'[e].item = loc[e].item, loc'[e].ev = loc[e].ev
    PROVE  Passed(e)'
<1>1. PICK s, n, k : s = loc[e].suite /\ n = loc[e].item /\ k = loc[e].ev
    OBVIOUS
<1>2. PassedAt(s, n, k)
    BY <1>1 DEF Passed
<1>3. PassedAt(s, n, k)'
    BY <1>2 DEF PassedAt, Judged
<1> QED
    BY <1>1, <1>3 DEF Passed

\* A call that does not move stays as far as it was.
LEMMA WorkedStays ==
    ASSUME Grows, NEW e \in Engines, LocalsHold(e), Worked(e), pc'[e] = pc[e], loc'[e] = loc[e]
    PROVE  Worked(e)'
<1> SUFFICES ASSUME pc[e] # "idle" PROVE Worked(e)'
    BY DEF Worked
<1>1. PICK s, n, k, x, r : /\ s = loc[e].suite /\ n = loc[e].item /\ k = loc[e].ev
                           /\ x = ResultId(e) /\ r = loc[e].record
    OBVIOUS
<1>2. PlaceKnown(e)
    BY DEF LocalsHold
<1>3. /\ s \in Suites /\ n \in 1..Len(Plan[s]) /\ k \in 1..Len(EvaluatorRefs[s][Plan[s][n]])
    BY <1>1, <1>2 DEF PlaceKnown, Item
<1>4. x \in ResultIds /\ x[1] = Item(e)
    BY <1>1, <1>2, PlaceFacts DEF ResultId
<1>5. Passed(e)'
    <2>1. PassedAt(s, n, k)
        BY <1>1 DEF Worked, Passed
    <2>2. PassedAt(s, n, k)'
        BY <1>3, <2>1, PassedStays
    <2> QED
        BY <1>1, <2>2 DEF Passed
<1>6. pc[e] = "recordResult" => Honest(ResultId(e), loc[e].record)'
    <2> SUFFICES ASSUME pc[e] = "recordResult" PROVE Honest(ResultId(e), loc[e].record)'
        OBVIOUS
    <2>1. Honest(x, r) /\ observations[x[1]] # NoRecord
        BY <1>1, <1>4 DEF Worked, LocalsHold
    <2>2. Honest(x, r)'
        BY <1>4, <2>1, HonestStays
    <2>3. ResultId(e)' = x
        BY <1>1, SamePlace
    <2> QED
        BY <1>1, <2>2, <2>3
<1>7. pc[e] = "report" => \A i \in Range(Plan[s]) : Judged(s, i)'
    BY <1>1, <1>3, JudgedStays DEF Worked
<1> QED
    BY <1>1, <1>5, <1>6, <1>7 DEF Worked

\* A report stays true.
LEMMA ReportStays ==
    ASSUME StoreTypes, Grows, ReportKnown, RecordsHonest, ReportHonest, report' = report
    PROVE  ReportKnown' /\ ReportHonest'
<1> SUFFICES ASSUME report # NoRecord PROVE ReportKnown' /\ ReportHonest'
    BY DEF ReportKnown, ReportHonest
<1>1. execution \in Suites /\ execution' = execution
    BY EvalAssumption DEF ReportKnown, Grows
<1>2. PICK s : s = execution
    OBVIOUS
<1>3. ASSUME NEW i \in Range(Plan[s]) PROVE Judged(s, i)'
    BY <1>1, <1>2, JudgedStays DEF ReportKnown
<1>4. ASSUME NEW i \in Range(Plan[s]), NEW ev \in Range(EvaluatorRefs[s][i])
      PROVE  results'[<<i, ev>>] = results[<<i, ev>>] /\ observations'[i] = observations[i]
    <2>1. <<i, ev>> \in ResultIds /\ <<i, ev>>[1] = i /\ i \in Items
        BY <1>1, <1>2, ResultIdFacts
    <2>2. results[<<i, ev>>] # NoRecord
        BY <1>1, <1>2 DEF ReportKnown, Judged
    <2>3. observations[i] # NoRecord
        BY <2>1, <2>2 DEF RecordsHonest
    <2> QED
        BY <2>1, <2>2, <2>3 DEF Grows
<1> QED
    BY <1>1, <1>2, <1>3, <1>4 DEF ReportKnown, ReportHonest

\* What a step that adds to the records leaves to be shown.
LEMMA StepKeeps ==
    ASSUME IInv, RInv, Grows, NEW e \in Engines, Others(e), report' = report,
           RecordsHonest', Worked(e)'
    PROVE  RInv'
<1>1. ReportKnown' /\ ReportHonest'
    BY ReportStays DEF IInv, RInv
<1>2. ASSUME NEW v \in Engines \ {e} PROVE Worked(v)'
    BY WorkedStays DEF IInv, RInv, Others
<1> QED
    BY <1>1, <1>2 DEF RInv

------------------------------------------------------------------------------
(* Steps that leave the stored records alone and make none: the call ends, or *)
(* stays at its place in the loops.                                           *)

Shifts(e) ==
    /\ Others(e)
    /\ \/ pc'[e] = "idle"
       \/ /\ pc[e] # "idle" /\ pc'[e] \notin {"recordObservation", "recordResult", "report"}
          /\ loc'[e].suite = loc[e].suite /\ loc'[e].item = loc[e].item /\ loc'[e].ev = loc[e].ev

LEMMA ShiftKeeps ==
    ASSUME IInv, RInv, NEW e \in Engines, Shifts(e), UNCHANGED storeVars
    PROVE  RInv'
<1> USE DEF storeVars
<1>1. Grows
    BY DEF Grows
<1>2. RecordsHonest'
    BY DEF RInv, RecordsHonest, Honest
<1>3. Worked(e)'
    <2>1. CASE pc'[e] = "idle"
        BY <2>1 DEF Worked
    <2>2. CASE pc'[e] # "idle"
        <3>1. Passed(e)
            BY <2>2 DEF Shifts, RInv, Worked
        <3>2. Passed(e)'
            BY <2>2, <3>1, PassedSame DEF Shifts
        <3> QED
            BY <2>2, <3>2 DEF Shifts, Worked
    <2> QED
        BY <2>1, <2>2
<1> QED
    BY <1>1, <1>2, <1>3, StepKeeps DEF Shifts

LEMMA ReturnShifts ==
    ASSUME Calls, NEW e \in Engines, Return(e)
    PROVE  Shifts(e)
<1>1. pc'[e] = "idle" /\ Others(e)
    BY NoLocalsFacts, CallStep DEF Return
<1> QED
    BY <1>1 DEF Shifts

LEMMA GotoShifts ==
    ASSUME Calls, NEW e \in Engines, pc[e] # "idle", UNCHANGED loc,
           NEW p, p \notin {"recordObservation", "recordResult", "report"}, Goto(e, p)
    PROVE  Shifts(e)
<1>1. IsLocals(loc[e])
    BY DEF Calls
<1>2. pc'[e] = p /\ loc'[e] = loc[e] /\ Others(e)
    BY <1>1, CallStep
<1> QED
    BY <1>2 DEF Shifts

LEMMA MoveShifts ==
    ASSUME Calls, NEW e \in Engines, pc[e] # "idle",
           NEW l, IsLocals(l), l.suite = loc[e].suite, l.item = loc[e].item, l.ev = loc[e].ev,
           loc' = [loc EXCEPT ![e] = l],
           NEW p, p \notin {"recordObservation", "recordResult", "report"}, Goto(e, p)
    PROVE  Shifts(e)
<1>1. pc'[e] = p /\ loc'[e] = l /\ Others(e)
    BY CallStep
<1> QED
    BY <1>1 DEF Shifts

LEMMA DriveShifts ==
    ASSUME Calls, NEW e \in Engines, pc[e] # "idle", NEW r, DriveNext(e, r)
    PROVE  Shifts(e)
<1>1. IsLocals(loc[e])
    BY DEF Calls
<1>2. PICK l : l = [loc[e] EXCEPT !.run = r]
    OBVIOUS
<1>3. IsLocals(l) /\ l.suite = loc[e].suite /\ l.item = loc[e].item /\ l.ev = loc[e].ev
    BY <1>1, <1>2, WithRun
<1>4. loc' = [loc EXCEPT ![e] = l] /\ Goto(e, "getRun")
    BY <1>2 DEF DriveNext
<1> QED
    BY <1>3, <1>4, MoveShifts

LEMMA StatusShifts ==
    ASSUME Calls, NEW e \in Engines, pc[e] # "idle", NEW x,
           loc' = [loc EXCEPT ![e].status = x], NEW p \in {"driven", "resumeRun"}, Goto(e, p)
    PROVE  Shifts(e)
<1>1. IsLocals(loc[e])
    BY DEF Calls
<1>2. PICK l : l = [loc[e] EXCEPT !.status = x]
    OBVIOUS
<1>3. IsLocals(l) /\ l.suite = loc[e].suite /\ l.item = loc[e].item /\ l.ev = loc[e].ev
    BY <1>1, <1>2, WithStatus
<1>4. loc' = [loc EXCEPT ![e] = l]
    BY <1>2
<1> QED
    BY <1>3, <1>4, MoveShifts

LEMMA RaiseShifts ==
    ASSUME Calls, NEW e \in Engines, pc[e] # "idle", Raise(e)
    PROVE  Shifts(e)
<1>1. CASE Return(e)
    BY <1>1, ReturnShifts
<1>2. CASE Goto(e, "rollback") /\ UNCHANGED loc
    BY <1>2, GotoShifts
<1> QED
    BY <1>1, <1>2 DEF Raise

\* The steps before an item's Run, and around its Session.
LEMMA ShiftingSteps ==
    ASSUME IInv, NEW e \in Engines,
           \/ ReuseObservation(e) \/ ExecuteItem(e) \/ OutsideFixture(e) \/ GetClaim(e)
           \/ GetSession(e) \/ CreateSession(e) \/ FindTurn(e) \/ ClaimRun(e) \/ Rollback(e)
           \/ CompleteSession(e) \/ LeaveClaim(e)
           \/ ExecuteJudge(e) \/ EvaluatorUnknown(e)
    PROVE  Shifts(e) /\ UNCHANGED storeVars
<1>1. Calls
    BY DEF IInv
<1>2. CASE ReuseObservation(e) \/ ExecuteItem(e) \/ CompleteSession(e) \/ LeaveClaim(e)
    <2>1. /\ pc[e] # "idle" /\ UNCHANGED <<storeVars, loc>>
          /\ \E p \in {"getResult", "getClaim", "inspect"} : Goto(e, p)
        BY <1>2 DEF ReuseObservation, ExecuteItem, CompleteSession, LeaveClaim
    <2> QED
        BY <1>1, <2>1, GotoShifts
<1>3. CASE OutsideFixture(e) \/ EvaluatorUnknown(e) \/ Rollback(e)
    <2>1. Return(e) /\ UNCHANGED storeVars
        BY <1>3 DEF OutsideFixture, EvaluatorUnknown, Rollback
    <2> QED
        BY <1>1, <2>1, ReturnShifts
<1>4. CASE GetClaim(e) \/ GetSession(e) \/ CreateSession(e) \/ FindTurn(e) \/ ClaimRun(e)
    <2>1. /\ pc[e] # "idle" /\ UNCHANGED storeVars
          /\ \/ DriveNext(e, Subject(Item(e))) \/ Return(e)
             \/ \E p \in {"getSession", "createSession", "findTurn", "claimRun"} : Goto(e, p) /\ UNCHANGED loc
        BY <1>4 DEF GetClaim, GetSession, CreateSession, FindTurn, ClaimRun
    <2> QED
        BY <1>1, <2>1, ReturnShifts, GotoShifts, DriveShifts
<1>5. CASE ExecuteJudge(e)
    <2>1. pc[e] # "idle" /\ IsLocals(loc[e])
        BY <1>1, <1>5 DEF ExecuteJudge, Calls
    <2>2. PICK allowed : loc' = [loc EXCEPT ![e].allowed = allowed, ![e].run = ResultId(e)]
        BY <1>5 DEF ExecuteJudge
    <2>3. PICK l : l = [loc[e] EXCEPT !.allowed = allowed, !.run = ResultId(e)]
        OBVIOUS
    <2>4. IsLocals(l) /\ l.suite = loc[e].suite /\ l.item = loc[e].item /\ l.ev = loc[e].ev
        BY <2>1, <2>3 DEF IsLocals
    <2>5. loc' = [loc EXCEPT ![e] = l] /\ Goto(e, "getRun") /\ UNCHANGED storeVars
        BY <1>5, <2>2, <2>3 DEF ExecuteJudge
    <2> QED
        BY <1>1, <2>1, <2>4, <2>5, MoveShifts
<1> QED
    BY <1>2, <1>3, <1>4, <1>5

\* The steps of a Run.
LEMMA DrivingShifts ==
    ASSUME IInv, NEW e \in Engines,
           \/ GetRun(e) \/ CreateRun(e) \/ AcquireLease(e) \/ AcquireRefused(e)
           \/ ResumeWaiting(e) \/ RunBegins(e) \/ RunReturns(e) \/ DriveRefused(e) \/ Fail(e)
    PROVE  Shifts(e) /\ UNCHANGED storeVars
<1>1. Calls
    BY DEF IInv
<1>2. CASE GetRun(e)
    <2> DEFINE s == runs[loc[e].run]
    <2>1. /\ pc[e] # "idle" /\ UNCHANGED storeVars
          /\ \/ Goto(e, "createRun") /\ UNCHANGED loc
             \/ Return(e)
             \/ /\ loc' = [loc EXCEPT ![e].status = s]
                /\ Goto(e, IF s \in TERMINAL_STATUSES THEN "driven" ELSE "resumeRun")
        BY <1>2 DEF GetRun
    <2> HIDE DEF s
    <2>2. CASE loc' = [loc EXCEPT ![e].status = s]
                /\ Goto(e, IF s \in TERMINAL_STATUSES THEN "driven" ELSE "resumeRun")
        <3>1. PICK p \in {"driven", "resumeRun"} :
                p = IF s \in TERMINAL_STATUSES THEN "driven" ELSE "resumeRun"
            OBVIOUS
        <3> QED
            BY <1>1, <2>1, <2>2, <3>1, StatusShifts
    <2> QED
        BY <1>1, <2>1, <2>2, ReturnShifts, GotoShifts
<1>3. CASE CreateRun(e) \/ AcquireLease(e) \/ AcquireRefused(e) \/ DriveRefused(e) \/ Fail(e)
    <2>1. /\ pc[e] # "idle" /\ UNCHANGED storeVars
          /\ \/ \E p \in {"startRun", "driving"} : Goto(e, p) /\ UNCHANGED loc
             \/ Return(e) \/ Raise(e)
        BY <1>3 DEF CreateRun, AcquireLease, AcquireRefused, DriveRefused, Fail
    <2> QED
        BY <1>1, <2>1, ReturnShifts, GotoShifts, RaiseShifts
<1>4. CASE ResumeWaiting(e) \/ RunReturns(e)
    <2>1. /\ pc[e] # "idle" /\ UNCHANGED storeVars /\ Goto(e, "driven")
          /\ \E x : loc' = [loc EXCEPT ![e].status = x]
        BY <1>4 DEF ResumeWaiting, RunReturns
    <2> QED
        BY <1>1, <2>1, StatusShifts
<1>5. CASE RunBegins(e)
    <2>1. pc[e] = "driving" /\ UNCHANGED <<storeVars, pc, loc>>
        BY <1>5 DEF RunBegins
    <2> QED
        BY <2>1 DEF Shifts, Others
<1> QED
    BY <1>2, <1>3, <1>4, <1>5

------------------------------------------------------------------------------
(* The steps that make records, store them or go round the loops. *)

\* A record is made: the call stays at its place.
LEMMA MadeHere ==
    ASSUME IInv, RInv, NEW e \in Engines, pc[e] # "idle", UNCHANGED storeVars,
           NEW p \in {"recordObservation", "recordResult"}, Goto(e, p),
           NEW l, IsLocals(l), loc' = [loc EXCEPT ![e] = l],
           l.suite = loc[e].suite, l.item = loc[e].item, l.ev = loc[e].ev,
           p = "recordObservation" => l.record.completeness # "SAMPLED",
           p = "recordResult" => Honest(ResultId(e), l.record)
    PROVE  RInv'
<1>1. Calls /\ Passed(e) /\ UNCHANGED <<execution, observations, results, report>>
    BY DEF IInv, RInv, Worked, storeVars
<1>2. pc'[e] = p /\ loc'[e] = l /\ Others(e)
    BY <1>1, CallStep
<1>3. Grows /\ RecordsHonest'
    BY <1>1 DEF Grows, RInv, RecordsHonest, Honest
<1>4. Passed(e)'
    BY <1>1, <1>2, PassedSame
<1>5. ResultId(e)' = ResultId(e)
    BY <1>2, SamePlace
<1>6. Worked(e)'
    BY <1>1, <1>2, <1>4, <1>5 DEF Worked, Honest
<1> QED
    BY <1>1, <1>2, <1>3, <1>6, StepKeeps

LEMMA RecordMade ==
    ASSUME IInv, RInv, NEW e \in Engines, pc[e] # "idle", UNCHANGED storeVars,
           NEW p \in {"recordObservation", "recordResult"}, Goto(e, p),
           NEW x, loc' = [loc EXCEPT ![e].record = x],
           p = "recordObservation" => x.completeness # "SAMPLED",
           p = "recordResult" => Honest(ResultId(e), x)
    PROVE  RInv'
<1>1. IsLocals(loc[e])
    BY DEF IInv, Calls
<1>2. PICK l : l = [loc[e] EXCEPT !.record = x]
    OBVIOUS
<1>3. /\ IsLocals(l) /\ l.record = x
      /\ l.suite = loc[e].suite /\ l.item = loc[e].item /\ l.ev = loc[e].ev
    BY <1>1, <1>2, WithRecord
<1>4. loc' = [loc EXCEPT ![e] = l]
    BY <1>2
<1> QED
    BY <1>3, <1>4, MadeHere

LEMMA ReportStarting ==
    ASSUME IInv, RInv, NEW e \in Engines, NEW s \in Suites, RunSuite(e, s)
    PROVE  RInv'
<1> USE DEF storeVars
<1>1. PICK l : l = [NoLocals EXCEPT !.suite = s]
    OBVIOUS
<1>2. IsLocals(l) /\ l.suite = s /\ l.item = 1 /\ l.ev = 1
    BY <1>1, AtStart
<1>3. loc' = [loc EXCEPT ![e] = l] /\ UNCHANGED storeVars /\ Calls
    BY <1>1 DEF RunSuite, IInv
<1>4. PICK p \in {"recordExecution", "getObservation"} : Goto(e, p)
    BY DEF RunSuite
<1>5. pc'[e] = p /\ loc'[e] = l /\ Others(e)
    BY <1>2, <1>3, <1>4, CallStep
<1>6. Grows /\ RecordsHonest'
    BY <1>3 DEF Grows, RInv, RecordsHonest, Honest
<1>7. Worked(e)'
    BY <1>2, <1>5 DEF Worked, Passed, PassedAt
<1> QED
    BY <1>3, <1>5, <1>6, <1>7, StepKeeps

LEMMA ReportExecution ==
    ASSUME IInv, RInv, NEW e \in Engines, RecordExecution(e)
    PROVE  RInv'
<1> USE DEF storeVars
<1>1. Calls
    BY DEF IInv
<1>2. CASE Return(e) /\ UNCHANGED execution
    <2>1. UNCHANGED storeVars
        BY <1>2 DEF RecordExecution
    <2> QED
        BY <1>1, <1>2, <2>1, ReturnShifts, ShiftKeeps
<1>3. CASE execution = NoSuite /\ Goto(e, "getObservation") /\ UNCHANGED loc
    <2>1. pc[e] # "idle" /\ UNCHANGED <<observations, results, report>>
        BY DEF RecordExecution
    <2>2. Shifts(e)
        BY <1>1, <1>3, <2>1, GotoShifts
    <2>3. Grows /\ RecordsHonest'
        BY <1>3, <2>1 DEF Grows, RInv, RecordsHonest, Honest
    <2>4. pc'[e] = "getObservation" /\ loc'[e] = loc[e]
        BY <1>1, <1>3 DEF Goto, Calls
    <2>5. Passed(e)
        BY <2>1 DEF RInv, Worked
    <2>6. Worked(e)'
        BY <2>1, <2>4, <2>5, PassedSame DEF Worked
    <2> QED
        BY <2>1, <2>2, <2>3, <2>6, StepKeeps DEF Shifts
<1> QED
    BY <1>2, <1>3 DEF RecordExecution

LEMMA ReportObserving ==
    ASSUME IInv, RInv, NEW e \in Engines, ShortCircuit(e) \/ InspectRun(e)
    PROVE  RInv'
<1>1. Calls /\ LocalsHold(e) /\ pc[e] # "idle" /\ UNCHANGED storeVars
    BY DEF IInv, ShortCircuit, InspectRun
<1>2. CASE Return(e)
    BY <1>1, <1>2, ReturnShifts, ShiftKeeps
<1>3. CASE ShortCircuit(e)
    <2>1. PICK c \in {"UNAVAILABLE", "UNSUPPORTED"} :
            loc' = [loc EXCEPT ![e].record = Observation(c, NoValue, NoValue)]
        BY <1>3 DEF ShortCircuit
    <2>2. PICK o : o = Observation(c, NoValue, NoValue)
        OBVIOUS
    <2>3. o.completeness # "SAMPLED"
        BY <2>2 DEF Observation
    <2>4. loc' = [loc EXCEPT ![e].record = o] /\ Goto(e, "recordObservation")
        BY <1>3, <2>1, <2>2 DEF ShortCircuit
    <2> QED
        BY <1>1, <2>3, <2>4, RecordMade
<1>4. CASE InspectRun(e) /\ ~Return(e)
    <2>1. PICK r, o : r = loc[e].run /\ o = ObserveRun(r)
        OBVIOUS
    <2>2. loc' = [loc EXCEPT ![e].record = o] /\ Goto(e, "recordObservation")
        BY <1>4, <2>1 DEF InspectRun
    <2>3. o.completeness # "SAMPLED"
        BY <2>1 DEF ObserveRun, ObservationFromInspection, Observation
    <2> QED
        BY <1>1, <2>2, <2>3, RecordMade
<1> QED
    BY <1>2, <1>3, <1>4

\* run_evaluator and run_judge.
LEMMA ReportEvaluating ==
    ASSUME IInv, RInv, NEW e \in Engines, ExecuteEvaluator(e) \/ JudgeReturns(e)
    PROVE  RInv'
<1>1. /\ LocalsHold(e) /\ pc[e] \in {"getResult", "driven"} /\ UNCHANGED storeVars
      /\ Goto(e, "recordResult")
    BY DEF IInv, ExecuteEvaluator, JudgeReturns
<1>2. PlaceKnown(e)
    BY <1>1 DEF LocalsHold
<1>3. PICK i, ev, o, x : i = Item(e) /\ ev = EvName(e) /\ o = observations[i] /\ x = ResultId(e)
    OBVIOUS
<1>4. x = <<i, ev>> /\ x \in ResultIds /\ x[1] = i /\ x[2] = ev /\ i \in Items
      /\ (x \in JudgeRuns <=> Ev(e).kind = "judge") /\ Ev(e) = Evaluator[ev]
    BY <1>2, <1>3, PlaceFacts DEF ResultId, Ev
<1>5. Evaluator[ev].hard \in BOOLEAN /\ Evaluator[ev].fields \in SUBSET EvidenceFields
    BY <1>4, EvaluatorAssumption
<1>6. o # NoRecord
    <2>1. CASE ExecuteEvaluator(e)
        BY <1>1, <1>3, <2>1 DEF LocalsHold, ExecuteEvaluator
    <2>2. CASE JudgeReturns(e)
        BY <1>1, <1>3, <2>2 DEF JudgeReturns, LocalsHold, InRun, RunKnown
    <2> QED
        BY <2>1, <2>2
<1>7. o \in Observations /\ o.completeness # "SAMPLED"
    BY <1>3, <1>4, <1>6 DEF IInv, StoreTypes, RInv, RecordsHonest
<1>8. CASE ExecuteEvaluator(e)
    <2>1. PICK allowed :
            loc' = [loc EXCEPT ![e].record =
                      [outcome |-> RunEvaluator(Ev(e), Projection(observations[Item(e)],
                                                                  Ev(e).fields, allowed)),
                       item |-> Item(e), hard |-> Ev(e).hard, asked |-> NoRecord]]
        BY <1>8 DEF ExecuteEvaluator
    <2>2. PICK p, out : p = Projection(o, Evaluator[ev].fields, allowed)
                        /\ out = RunEvaluator(Evaluator[ev], p)
        OBVIOUS
    <2>3. p.completeness = o.completeness /\ p.completeness \in Completenesses
        BY <1>5, <1>7, <2>2, ProjectionTyped DEF Observations
    <2>4. out \in Outcomes /\ (out = "PASS" => o.completeness = "COMPLETE")
        BY <1>7, <2>2, <2>3, EvaluatorFacts
    <2>5. PICK r : r = [outcome |-> out, item |-> i, hard |-> Evaluator[ev].hard, asked |-> NoRecord]
        OBVIOUS
    <2>6. r \in ResultRecords /\ r.item = i /\ r.outcome = out
        BY <1>4, <1>5, <2>4, <2>5 DEF ResultRecords
    <2>7. Honest(ResultId(e), r)
        BY <1>3, <1>4, <2>4, <2>6 DEF Honest
    <2>8. loc' = [loc EXCEPT ![e].record = r]
        BY <1>3, <1>4, <2>1, <2>2, <2>5
    <2> QED
        BY <1>1, <2>7, <2>8, RecordMade
<1>9. CASE JudgeReturns(e)
    <2>1. loc[e].run = x /\ x \in JudgeRuns
        <3>1. ~IsSubject(e) /\ RunKnown(e)
            BY <1>1, <1>9 DEF JudgeReturns, LocalsHold, InRun
        <3>2. loc[e].run = x /\ x \in Runs
            BY <1>3, <3>1 DEF RunKnown
        <3> QED
            BY <1>4, <3>2, SubjectAssumption DEF Runs, Subject
    <2>2. PICK p, out : p = Asked(e)
                        /\ out = IF loc[e].status = "SUCCEEDED"
                                 THEN ParseJudgeVerdict(output[loc[e].run]) ELSE "ERROR"
        OBVIOUS
    <2>3. p \in Projections
        BY <1>3, <1>4, <1>5, <1>7, <2>2, ProjectionTyped DEF Asked
    <2>4. out \in Outcomes
        BY <2>2 DEF ParseJudgeVerdict, Outcomes
    <2>5. PICK r : r = [outcome |-> out, item |-> i, hard |-> FALSE, asked |-> p]
        OBVIOUS
    <2>6. r \in ResultRecords /\ r.item = i
        BY <1>4, <2>3, <2>4, <2>5 DEF ResultRecords
    <2>7. Evaluator[ev].kind = "judge"
        BY <1>4, <2>1
    <2>8. Honest(ResultId(e), r)
        BY <1>3, <1>4, <2>6, <2>7 DEF Honest
    <2>9. loc' = [loc EXCEPT ![e].record = r]
        BY <1>3, <1>9, <2>2, <2>5 DEF JudgeReturns
    <2> QED
        BY <1>1, <2>8, <2>9, RecordMade
<1> QED
    BY <1>8, <1>9

LEMMA ReportObserved ==
    ASSUME IInv, RInv, NEW e \in Engines, RecordObservation(e)
    PROVE  RInv'
<1> USE DEF storeVars
<1>1. /\ Calls /\ LocalsHold(e) /\ IsLocals(loc[e]) /\ pc[e] = "recordObservation" /\ Worked(e)
      /\ UNCHANGED <<execution, results, report>>
    BY DEF IInv, RInv, Calls, RecordObservation
<1>2. CASE Return(e) /\ UNCHANGED observations
    BY <1>1, <1>2, ReturnShifts, ShiftKeeps
<1>3. CASE ~(Return(e) /\ UNCHANGED observations)
    <2>1. PlaceKnown(e) /\ loc[e].record \in Observations /\ loc[e].record.completeness # "SAMPLED"
          /\ Passed(e)
        BY <1>1 DEF LocalsHold, Worked
    <2>2. PICK i, o : i = Item(e) /\ o = loc[e].record
        OBVIOUS
    <2>3. /\ observations[i] = NoRecord /\ observations' = [observations EXCEPT ![i] = o]
          /\ loc' = [loc EXCEPT ![e].record = NoRecord, ![e].run = NoRecord,
                                ![e].status = "ABSENT"]
          /\ Goto(e, "getResult")
        BY <1>3, <2>2 DEF RecordObservation
    <2>4. i \in Items /\ o \in Observations /\ o.completeness # "SAMPLED"
        BY <2>1, <2>2, PlaceFacts
    <2>5. observations'[i] = o /\ \A j \in Items \ {i} : observations'[j] = observations[j]
        BY <2>3, <2>4 DEF IInv, StoreTypes
    <2>6. Grows
        BY <1>1, <2>3, <2>5 DEF Grows
    <2>7. RecordsHonest'
        <3>1. \A j \in Items : observations'[j] # NoRecord =>
                observations'[j].completeness # "SAMPLED"
            BY <2>4, <2>5 DEF RInv, RecordsHonest
        <3>2. ASSUME NEW x \in ResultIds, results'[x] # NoRecord
              PROVE  observations'[x[1]] # NoRecord /\ Honest(x, results[x])'
            <4>1. results'[x] = results[x] /\ observations[x[1]] # NoRecord /\ Honest(x, results[x])
                BY <1>1, <3>2 DEF RInv, RecordsHonest
            <4>2. observations'[x[1]] = observations[x[1]]
                BY <2>6, <4>1, ResultIdItem DEF Grows
            <4> QED
                BY <4>1, <4>2 DEF Honest
        <3> QED
            BY <3>1, <3>2 DEF RecordsHonest
    <2>8. PICK l : l = [loc[e] EXCEPT !.record = NoRecord, !.run = NoRecord, !.status = "ABSENT"]
        OBVIOUS
    <2>9. IsLocals(l) /\ l.suite = loc[e].suite /\ l.item = loc[e].item /\ l.ev = loc[e].ev
        BY <1>1, <2>8 DEF IsLocals
    <2>10. loc' = [loc EXCEPT ![e] = l]
        BY <2>3, <2>8
    <2>11. pc'[e] = "getResult" /\ loc'[e] = l /\ Others(e)
        BY <1>1, <2>3, <2>9, <2>10, CallStep
    <2>12. Worked(e)'
        BY <1>1, <2>1, <2>9, <2>11, PassedSame DEF Worked
    <2> QED
        BY <1>1, <2>6, <2>7, <2>11, <2>12, StepKeeps
<1> QED
    BY <1>2, <1>3

\* The loops of run_suite, with the result of the call's place on record.
LEMMA ProceedWorks ==
    ASSUME Calls, Grows, NEW e \in Engines, LocalsHold(e), Worked(e), Proceed(e),
           pc[e] \in {"getResult", "recordResult"}, results'[ResultId(e)] # NoRecord
    PROVE  Worked(e)' /\ Others(e)
<1>1. PICK s, n, k, i, q : /\ s = loc[e].suite /\ n = loc[e].item /\ k = loc[e].ev
                           /\ i = Plan[s][n] /\ q = EvaluatorRefs[s][i]
    OBVIOUS
<1>2. PlaceKnown(e) /\ IsLocals(loc[e])
    BY DEF LocalsHold, Calls
<1>3. /\ s \in Suites /\ n \in 1..Len(Plan[s]) /\ k \in 1..Len(q) /\ Item(e) = i
    BY <1>1, <1>2 DEF PlaceKnown, Item
<1>4. Len(Plan[s]) \in Nat /\ i \in Range(Plan[s]) /\ Len(q) \in Nat
    <2>1. Len(Plan[s]) \in Nat /\ i \in Range(Plan[s])
        BY <1>1, <1>3, Numbered
    <2>2. Len(EvaluatorRefs[s][i]) \in Nat
        BY <1>3, <2>1, Numbered
    <2> QED
        BY <1>1, <2>1, <2>2
<1>5. PassedAt(s, n, k)'
    <2>1. PassedAt(s, n, k)
        BY <1>1 DEF Worked, Passed
    <2> QED
        BY <1>1, <1>3, <2>1, PassedStays
<1>6. \A m \in 1..k : results'[<<i, q[m]>>] # NoRecord
    <2>1. results'[<<i, q[k]>>] # NoRecord
        BY <1>1, <1>3 DEF ResultId, EvName
    <2>2. \A m \in 1..(k - 1) : results'[<<i, q[m]>>] # NoRecord
        BY <1>1, <1>5 DEF PassedAt
    <2>3. \A m \in 1..k : m = k \/ m \in 1..(k - 1)
        BY <1>3, <1>4
    <2> QED
        BY <2>1, <2>2, <2>3
<1>7. k = Len(q) => \A m \in 1..n : Judged(s, Plan[s][m])'
    <2> SUFFICES ASSUME k = Len(q) PROVE \A m \in 1..n : Judged(s, Plan[s][m])'
        OBVIOUS
    <2>1. Judged(s, i)'
        <3>1. ASSUME NEW ev \in Range(EvaluatorRefs[s][i]) PROVE results'[<<i, ev>>] # NoRecord
            <4>1. PICK m \in 1..Len(q) : ev = q[m]
                BY <1>1, <1>3, <1>4, Numbered
            <4> QED
                BY <1>6, <4>1
        <3> QED
            BY <3>1 DEF Judged
    <2>2. \A m \in 1..(n - 1) : Judged(s, Plan[s][m])'
        BY <1>5 DEF PassedAt
    <2>3. \A m \in 1..n : m = n \/ m \in 1..(n - 1)
        BY <1>3, <1>4
    <2> QED
        BY <1>1, <2>1, <2>2, <2>3
<1>8. CASE k < Len(q)
    <2>1. PICK j : j = k + 1
        OBVIOUS
    <2>2. PICK l : l = [NoLocals EXCEPT !.suite = s, !.item = n, !.ev = j]
        OBVIOUS
    <2>3. IsLocals(l) /\ l.suite = s /\ l.item = n /\ l.ev = j
        BY <2>2 DEF IsLocals, NoLocals
    <2>4. loc' = [loc EXCEPT ![e] = l] /\ Goto(e, "getResult")
        <3>1. loc[e].ev < Len(EvaluatorRefs[loc[e].suite][Item(e)])
            BY <1>1, <1>3, <1>8
        <3>2. /\ loc' = [loc EXCEPT ![e] = [NoLocals EXCEPT !.suite = loc[e].suite,
                                                !.item = loc[e].item, !.ev = loc[e].ev + 1]]
              /\ Goto(e, "getResult")
            BY <3>1 DEF Proceed
        <3> QED
            BY <1>1, <2>1, <2>2, <3>2
    <2>5. pc'[e] = "getResult" /\ loc'[e] = l /\ Others(e)
        BY <2>3, <2>4, CallStep
    <2>6. PassedAt(s, n, j)'
        <3>1. j - 1 = k
            BY <1>3, <1>4, <2>1
        <3> QED
            BY <1>1, <1>5, <1>6, <3>1 DEF PassedAt
    <2> QED
        BY <2>3, <2>5, <2>6 DEF Worked, Passed
<1>9. CASE ~(k < Len(q)) /\ n < Len(Plan[s])
    <2>0. k = Len(q)
        BY <1>3, <1>4, <1>9
    <2>1. PICK j : j = n + 1
        OBVIOUS
    <2>2. PICK l : l = [NoLocals EXCEPT !.suite = s, !.item = j]
        OBVIOUS
    <2>3. IsLocals(l) /\ l.suite = s /\ l.item = j /\ l.ev = 1
        BY <2>2 DEF IsLocals, NoLocals
    <2>4. loc' = [loc EXCEPT ![e] = l] /\ Goto(e, "getObservation")
        BY <1>1, <1>3, <1>9, <2>0, <2>1, <2>2 DEF Proceed
    <2>5. pc'[e] = "getObservation" /\ loc'[e] = l /\ Others(e)
        BY <2>3, <2>4, CallStep
    <2>6. PassedAt(s, j, 1)'
        <3>1. j - 1 = n /\ 1..(1 - 1) = {}
            BY <1>3, <1>4, <2>1
        <3> QED
            BY <1>7, <2>0, <3>1 DEF PassedAt
    <2> QED
        BY <2>3, <2>5, <2>6 DEF Worked, Passed
<1>10. CASE ~(k < Len(q)) /\ ~(n < Len(Plan[s]))
    <2>1. k = Len(q) /\ n = Len(Plan[s])
        BY <1>3, <1>4, <1>10
    <2>2. Goto(e, "report") /\ UNCHANGED loc
        BY <1>1, <1>3, <1>10 DEF Proceed
    <2>3. pc'[e] = "report" /\ loc'[e] = loc[e] /\ Others(e)
        BY <1>2, <2>2, CallStep
    <2>4. ASSUME NEW x \in Range(Plan[s]) PROVE Judged(s, x)'
        <3>1. PICK m \in 1..n : x = Plan[s][m]
            BY <1>3, <2>1, Numbered
        <3>2. Judged(s, Plan[s][m])'
            BY <1>7, <2>1
        <3> QED
            BY <3>1, <3>2
    <2>5. Passed(e)'
        BY <1>1, <1>5, <2>3 DEF Passed
    <2> QED
        BY <1>1, <2>3, <2>4, <2>5 DEF Worked
<1> QED
    BY <1>8, <1>9, <1>10

LEMMA ReportReusing ==
    ASSUME IInv, RInv, NEW e \in Engines, ReuseResult(e)
    PROVE  RInv'
<1> USE DEF storeVars
<1>1. /\ Calls /\ LocalsHold(e) /\ Worked(e) /\ Proceed(e) /\ pc[e] = "getResult"
      /\ results'[ResultId(e)] # NoRecord /\ UNCHANGED storeVars
    BY DEF IInv, RInv, ReuseResult
<1>2. Grows /\ RecordsHonest'
    BY <1>1 DEF Grows, RInv, RecordsHonest, Honest
<1>3. Worked(e)' /\ Others(e)
    BY <1>1, <1>2, ProceedWorks
<1> QED
    BY <1>1, <1>2, <1>3, StepKeeps

LEMMA ReportResult ==
    ASSUME IInv, RInv, NEW e \in Engines, RecordResult(e)
    PROVE  RInv'
<1> USE DEF storeVars
<1>1. /\ Calls /\ LocalsHold(e) /\ Worked(e) /\ pc[e] = "recordResult"
      /\ UNCHANGED <<execution, observations, report>>
    BY DEF IInv, RInv, RecordResult
<1>2. CASE Return(e) /\ UNCHANGED results
    BY <1>1, <1>2, ReturnShifts, ShiftKeeps
<1>3. CASE ~(Return(e) /\ UNCHANGED results)
    <2>1. PICK x, r : x = ResultId(e) /\ r = loc[e].record
        OBVIOUS
    <2>2. results[x] = NoRecord /\ results' = [results EXCEPT ![x] = r] /\ Proceed(e)
        BY <1>3, <2>1 DEF RecordResult
    <2>3. x \in ResultIds /\ x[1] = Item(e) /\ observations[x[1]] # NoRecord /\ Honest(x, r)
        BY <1>1, <2>1, PlaceFacts DEF LocalsHold, Worked, ResultId
    <2>4. r # NoRecord
        BY <2>3, EvaluatorAssumption DEF Honest
    <2>5. results'[x] = r /\ \A y \in ResultIds \ {x} : results'[y] = results[y]
        BY <2>2, <2>3 DEF IInv, StoreTypes
    <2>6. Grows
        BY <1>1, <2>2, <2>5 DEF Grows
    <2>7. RecordsHonest'
        <3>1. ASSUME NEW y \in ResultIds, results'[y] # NoRecord
              PROVE  observations'[y[1]] # NoRecord /\ Honest(y, results[y])'
            <4>1. CASE y = x
                BY <1>1, <2>3, <2>5, <4>1 DEF Honest
            <4>2. CASE y # x
                <5>1. results'[y] = results[y]
                    BY <2>5, <4>2
                <5>2. observations[y[1]] # NoRecord /\ Honest(y, results[y])
                    BY <3>1, <5>1 DEF RInv, RecordsHonest
                <5> QED
                    BY <1>1, <5>1, <5>2 DEF Honest
            <4> QED
                BY <4>1, <4>2
        <3> QED
            BY <1>1, <3>1 DEF RInv, RecordsHonest
    <2>8. Worked(e)' /\ Others(e)
        BY <1>1, <2>1, <2>2, <2>4, <2>5, <2>6, ProceedWorks
    <2> QED
        BY <1>1, <2>6, <2>7, <2>8, StepKeeps
<1> QED
    BY <1>2, <1>3

\* The report is built from the results of all evaluators of all items.
LEMMA ReportPublished ==
    ASSUME IInv, RInv, NEW e \in Engines, PublishReport(e)
    PROVE  RInv'
<1> USE DEF storeVars
<1>1. /\ Calls /\ LocalsHold(e) /\ Worked(e) /\ pc[e] = "report" /\ Return(e)
      /\ UNCHANGED <<execution, observations, results>>
    BY DEF IInv, RInv, PublishReport
<1>2. CASE report # NoRecord
    <2>1. UNCHANGED storeVars
        BY <1>1, <1>2 DEF PublishReport
    <2> QED
        BY <1>1, <2>1, ReturnShifts, ShiftKeeps
<1>3. CASE report = NoRecord
    <2>1. PICK s, records, new : /\ s = loc[e].suite /\ records = Returned(s)
                                 /\ new = BuildReportRevision(s, records)
        OBVIOUS
    <2>2. report' = new
        BY <1>3, <2>1 DEF PublishReport
    <2>3. s \in Suites /\ execution = s /\ \A i \in Range(Plan[s]) : Judged(s, i)
        BY <1>1, <2>1 DEF LocalsHold, PlaceKnown, Worked
    <2>4. ReportKnown'
        BY <1>1, <2>3 DEF ReportKnown, Judged
    <2>5. ASSUME NEW i \in Range(Plan[s]), NEW ev \in Range(EvaluatorRefs[s][i]),
                 new.gates.overall = "PASS" \/ new.cases[<<i[1], i[2]>>].passAtK
          PROVE  /\ results[<<i, ev>>].outcome = "PASS"
                 /\ Evaluator[ev].kind # "judge" => observations[i].completeness = "COMPLETE"
        <3>1. PICK x, r : x = <<i, ev>> /\ r = results[x]
            OBVIOUS
        <3>2. x \in ResultIds /\ x[1] = i /\ x[2] = ev
            BY <2>3, <3>1, ResultIdFacts
        <3>3. r # NoRecord
            BY <2>3, <3>1 DEF Judged
        <3>4. r \in ResultRecords /\ r.item = i /\ Honest(x, r)
            BY <3>1, <3>2, <3>3 DEF RInv, RecordsHonest, Honest
        <3>5. r.outcome \in Outcomes
            BY <3>4 DEF ResultRecords
        <3>6. r \in records
            <4>1. r \in {results[<<i, f>>] : f \in Range(EvaluatorRefs[s][i])}
                BY <3>1
            <4>2. {results[<<i, f>>] : f \in Range(EvaluatorRefs[s][i])} \in
                    {{results[<<j, f>>] : f \in Range(EvaluatorRefs[s][j])} : j \in Range(Plan[s])}
                OBVIOUS
            <4>3. records = UNION {{results[<<j, f>>] : f \in Range(EvaluatorRefs[s][j])} :
                                    j \in Range(Plan[s])}
                BY <2>1 DEF Returned
            <4> QED
                BY <4>1, <4>2, <4>3
        <3>7. new = BuildReportRevision(s, records)
            BY <2>1
        <3>8. \A r1 \in records : r1.item = i /\ r1.outcome \in Outcomes => r1.outcome = "PASS"
            BY <2>3, <2>5, <3>7, ReportFacts
        <3>9. r.outcome = "PASS"
            BY <3>4, <3>5, <3>6, <3>8
        <3> QED
            BY <3>1, <3>2, <3>4, <3>9 DEF Honest
    <2>6. ReportHonest'
        BY <1>1, <2>2, <2>3, <2>5 DEF ReportHonest
    <2>7. RecordsHonest' /\ Grows
        BY <1>1 DEF RInv, RecordsHonest, Honest, Grows
    <2>8. Shifts(e) /\ pc'[e] = "idle"
        BY <1>1, ReturnShifts DEF Return, Goto, Calls
    <2>9. ASSUME NEW v \in Engines PROVE Worked(v)'
        <3>1. CASE v = e
            BY <2>8, <3>1 DEF Worked
        <3>2. CASE v # e
            BY <2>7, <2>8, <3>2, WorkedStays DEF IInv, RInv, Shifts, Others
        <3> QED
            BY <3>1, <3>2
    <2> QED
        BY <2>4, <2>6, <2>7, <2>9 DEF RInv
<1> QED
    BY <1>2, <1>3

------------------------------------------------------------------------------
(* The theorem about reports. *)

LEMMA ReportInit == Init => RInv
<1> SUFFICES ASSUME Init PROVE RInv
    OBVIOUS
<1>1. /\ report = NoRecord /\ \A i \in Items : observations[i] = NoRecord
      /\ \A x \in ResultIds : results[x] = NoRecord
      /\ \A e \in Engines : pc[e] = "idle"
    BY DEF Init
<1> QED
    BY <1>1 DEF RInv, RecordsHonest, ReportKnown, ReportHonest, Worked

LEMMA ReportStep == IInv /\ RInv /\ [Next]_vars => RInv'
<1> SUFFICES ASSUME IInv, RInv, [Next]_vars PROVE RInv'
    OBVIOUS
<1>1. ASSUME NEW e \in Engines, NEW s \in Suites, RunSuite(e, s) PROVE RInv'
    BY <1>1, ReportStarting
<1>2. ASSUME NEW e \in Engines, Advance(e) PROVE RInv'
    BY <1>2, ReportExecution, ReportObserving, ReportObserved, ReportReusing, ReportEvaluating,
        ReportResult, ShiftingSteps, DrivingShifts, ShiftKeeps DEF Advance
<1>3. ASSUME NEW e \in Engines, PublishReport(e) \/ LeaveClaim(e) \/ Fail(e) PROVE RInv'
    BY <1>3, ReportPublished, ShiftingSteps, DrivingShifts, ShiftKeeps
<1>4. ASSUME UNCHANGED <<storeVars, pc, loc>> PROVE RInv'
    <2>1. UNCHANGED <<execution, observations, results, report, pc, loc>>
        BY <1>4 DEF storeVars
    <2>2. Grows
        BY <2>1 DEF Grows
    <2>3. RecordsHonest'
        BY <2>1 DEF RInv, RecordsHonest, Honest
    <2>4. ReportKnown' /\ ReportHonest'
        BY <2>1, <2>2, ReportStays DEF IInv, RInv
    <2>5. \A e \in Engines : Worked(e)'
        BY <2>1, <2>2, WorkedStays DEF IInv, RInv
    <2> QED
        BY <2>3, <2>4, <2>5 DEF RInv
<1>5. ASSUME NEW r \in Runs, ApplicationDrives(r) PROVE RInv'
    BY <1>4, <1>5 DEF ApplicationDrives
<1>6. CASE UNCHANGED vars
    BY <1>4, <1>6 DEF vars
<1> QED
    BY <1>1, <1>2, <1>3, <1>5, <1>6 DEF Next

\* Whatever engines die, conflict or resume, and in whatever state Runs are
\* when they are observed: behind a report that passes, or a case that passes,
\* every evaluator of every item passed, and a deterministic one on a complete
\* observation.
THEOREM ReportHonestHolds == Spec => []ReportHonest
<1>1. Init => IInv /\ RInv
    BY InvInit, ReportInit
<1>2. IInv /\ RInv /\ [Next]_vars => IInv' /\ RInv'
    BY InvStep, ReportStep
<1>3. RInv => ReportHonest
    BY DEF RInv
<1> QED
    BY <1>1, <1>2, <1>3, PTL DEF Spec

------------------------------------------------------------------------------
(* A report and the evidence.  Nested folds of the worst outcome are one fold. *)

LEMMA WorstUnion ==
    ASSUME NEW F
    PROVE  Worst({Worst(C) : C \in F}) = Worst(UNION F)
<1>1. PICK A, B : A = {Worst(C) : C \in F} /\ B = UNION F
    OBVIOUS
<1>2. \A C \in F : Worst(C) \in A
    BY <1>1
<1>3. \A a \in A : \E C \in F : a = Worst(C)
    BY <1>1
<1>4. \A b : b \in B <=> \E C \in F : b \in C
    BY <1>1
<1>5. "FAIL" \in A <=> "FAIL" \in B
    BY <1>2, <1>3, <1>4 DEF Worst
<1>6. "FAIL" \notin B => ("ERROR" \in A <=> "ERROR" \in B)
    BY <1>2, <1>3, <1>4 DEF Worst
<1>7. {"FAIL", "ERROR"} \cap B = {} => ("INCONCLUSIVE" \in A <=> "INCONCLUSIVE" \in B)
    BY <1>2, <1>3, <1>4 DEF Worst
<1>8. {"FAIL", "ERROR", "INCONCLUSIVE"} \cap B = {} => ("UNSUPPORTED" \in A <=> "UNSUPPORTED" \in B)
    BY <1>2, <1>3, <1>4 DEF Worst
<1>9. Worst(A) = Worst(B)
    BY <1>5, <1>6, <1>7, <1>8 DEF Worst
<1> QED
    BY <1>1, <1>9

GateNames == {"hard", "quality", "overall"}
\* The outcomes that make up a gate.
Part(g, R) ==
    {r.outcome : r \in {x \in R : /\ g = "hard" => x.hard
                                  /\ g = "quality" => ~x.hard}}

LEMMA GateOfRepetition ==
    ASSUME NEW R, R # {}, NEW g \in GateNames
    PROVE  RepetitionOutcome(R)[g] = Worst(Part(g, R))
<1>1. CASE g = "hard"
    <2>1. Part(g, R) = {r.outcome : r \in {x \in R : x.hard}}
        BY <1>1 DEF Part
    <2> QED
        BY <1>1, <2>1 DEF RepetitionOutcome, Gates
<1>2. CASE g = "quality"
    <2>1. Part(g, R) = {r.outcome : r \in {x \in R : ~x.hard}}
        BY <1>2 DEF Part
    <2> QED
        BY <1>2, <2>1 DEF RepetitionOutcome, Gates
<1>3. CASE g = "overall"
    <2>1. Part(g, R) = {r.outcome : r \in R}
        BY <1>3 DEF Part
    <2> QED
        BY <1>3, <2>1 DEF RepetitionOutcome, Gates
<1> QED
    BY <1>1, <1>2, <1>3 DEF GateNames

LEMMA GateOfWorst ==
    ASSUME NEW gs, NEW g \in GateNames
    PROVE  WorstGates(gs)[g] = Worst({x[g] : x \in gs})
<1>1. CASE g = "hard"
    BY <1>1 DEF WorstGates, Gates
<1>2. CASE g = "quality"
    BY <1>2 DEF WorstGates, Gates
<1>3. CASE g = "overall"
    BY <1>3 DEF WorstGates, Gates
<1> QED
    BY <1>1, <1>2, <1>3 DEF GateNames

\* The same over the repetitions of a case.
CasePart(g, records, case, v) ==
    UNION {Part(g, Repetition(records, case, v, n)) : n \in 1..case.repetitions}

\* No repetition is without a result.
AllRepeated(records, case, v) ==
    \A n \in 1..case.repetitions : Repetition(records, case, v, n) # {}

LEMMA GateOfCase ==
    ASSUME NEW s, NEW case, NEW v, NEW records, NEW g \in GateNames,
           AllRepeated(records, case, v)
    PROVE  CaseReport(s, case, v, records).gates[g] = Worst(CasePart(g, records, case, v))
<1> DEFINE Rep(n) == RepetitionOutcome(Repetition(records, case, v, n))
           ordered == {Rep(n) : n \in 1..case.repetitions}
           C(n) == Part(g, Repetition(records, case, v, n))
           F == {C(n) : n \in 1..case.repetitions}
<1>1. CaseReport(s, case, v, records).gates = WorstGates(ordered)
    BY DEF CaseReport, Repetition
<1>2. \A n \in 1..case.repetitions : Rep(n)[g] = Worst(C(n))
    BY GateOfRepetition DEF AllRepeated
<1> HIDE DEF Rep, C
<1>3. {x[g] : x \in ordered} = {Worst(c) : c \in F}
    BY <1>2
<1> HIDE DEF ordered, F
<1>4. WorstGates(ordered)[g] = Worst(UNION F)
    BY <1>3, GateOfWorst, WorstUnion
<1> QED
    BY <1>1, <1>4 DEF F, C, CasePart

LEMMA GateOfReport ==
    ASSUME NEW s \in Suites, NEW records, NEW g \in GateNames,
           \A r \in records : r.item \in Range(Plan[s]),
           \A i \in Range(Plan[s]) : \E r \in records : r.item = i
    PROVE  BuildReportRevision(s, records).gates[g] = Worst(Part(g, records))
<1> DEFINE K == CaseVariants(s)
           Case(k) == CaseReport(s, CaseById(s, k[1]), k[2], records)
           cases == [k \in K |-> Case(k)]
           G == {cases[k].gates : k \in K}
           C(k) == CasePart(g, records, CaseById(s, k[1]), k[2])
           F == {C(k) : k \in K}
<1>1. BuildReportRevision(s, records).gates = WorstGates(G)
    <2>1. BuildReportRevision(s, records) = [cases |-> cases, gates |-> WorstGates(G)]
        BY DEF BuildReportRevision
    <2> HIDE DEF G, cases
    <2> QED
        BY <2>1
<1>2. ASSUME NEW k \in K PROVE Case(k).gates[g] = Worst(C(k))
    <2>1. PICK case, v : case = CaseById(s, k[1]) /\ v = k[2]
        OBVIOUS
    <2>2. ASSUME NEW n \in 1..case.repetitions PROVE Repetition(records, case, v, n) # {}
        <3>1. <<case.id, v, n>> \in Range(Plan[s])
            BY <2>1, ExpansionAssumption
        <3> QED
            BY <3>1 DEF Repetition
    <2>3. CaseReport(s, case, v, records).gates[g] = Worst(CasePart(g, records, case, v))
        <3>1. AllRepeated(records, case, v)
            BY <2>2 DEF AllRepeated
        <3> QED
            BY <3>1, GateOfCase
    <2> QED
        BY <2>1, <2>3
<1>3. UNION F = Part(g, records)
    <2>1. ASSUME NEW o \in UNION F PROVE o \in Part(g, records)
        <3>1. PICK k \in K : o \in C(k)
            BY <2>1
        <3>2. PICK n : o \in Part(g, Repetition(records, CaseById(s, k[1]), k[2], n))
            BY <3>1 DEF CasePart
        <3> QED
            BY <3>2 DEF Part, Repetition
    <2>2. ASSUME NEW o \in Part(g, records) PROVE o \in UNION F
        <3>1. PICK r \in records : o \in Part(g, {r}) /\ r.item \in Range(Plan[s])
            BY <2>2 DEF Part
        <3>2. PICK i, k : i = r.item /\ k = <<i[1], i[2]>>
            OBVIOUS
        <3>3. /\ k \in K /\ k[1] = i[1] /\ k[2] = i[2] /\ i[3] \in 1..CaseById(s, i[1]).repetitions
              /\ i = <<CaseById(s, i[1]).id, i[2], i[3]>>
            BY <3>1, <3>2, ItemAssumption DEF CaseVariants
        <3>4. PICK R : R = Repetition(records, CaseById(s, k[1]), k[2], i[3])
            OBVIOUS
        <3>5. r \in R
            BY <3>2, <3>3, <3>4 DEF Repetition
        <3>7. o \in Part(g, R)
            BY <3>1, <3>5 DEF Part
        <3>6. o \in C(k)
            BY <3>3, <3>4, <3>7 DEF CasePart
        <3> QED
            BY <3>3, <3>6
    <2> QED
        BY <2>1, <2>2
<1> DEFINE H(k) == Case(k).gates
<1>4. G = {H(k) : k \in K}
    OBVIOUS
<1>7. \A k \in K : H(k)[g] = Worst(C(k))
    BY <1>2
<1> HIDE DEF K, H, G, C
<1>5. {x[g] : x \in G} = {Worst(c) : c \in F}
    BY <1>4, <1>7
<1> HIDE DEF G, F
<1>8. PICK A : A = {x[g] : x \in G}
    OBVIOUS
<1>9. WorstGates(G)[g] = Worst(A)
    BY <1>8, GateOfWorst
<1>10. Worst(A) = Worst(UNION F)
    BY <1>5, <1>8, WorstUnion, Zenon
<1> QED
    BY <1>1, <1>3, <1>9, <1>10

\* The report on record is the one the evidence on record gives.
ReportBuilt == report # NoRecord => report = BuildReportRevision(execution, Returned(execution))

\* No step takes back what is on record, and only a first report is written.
LEMMA StepGrows ==
    ASSUME IInv, [Next]_vars
    PROVE  /\ Grows
           /\ report' = report \/ \E e \in Engines : PublishReport(e) /\ report = NoRecord
<1>0. StoreTypes
    BY DEF IInv
<1>1. ASSUME NEW e \in Engines, RecordExecution(e) PROVE Grows /\ report' = report
    BY <1>1 DEF RecordExecution, Grows
<1>2. ASSUME NEW e \in Engines, RecordObservation(e) PROVE Grows /\ report' = report
    BY <1>0, <1>2 DEF RecordObservation, Grows, StoreTypes
<1>3. ASSUME NEW e \in Engines, RecordResult(e) PROVE Grows /\ report' = report
    <2>1. report' = report /\ execution' = execution /\ observations' = observations
        BY <1>3 DEF RecordResult
    <2>2. \/ results' = results
          \/ /\ results[ResultId(e)] = NoRecord
             /\ results' = [results EXCEPT ![ResultId(e)] = loc[e].record]
        BY <1>3 DEF RecordResult
    <2>3. results = [x \in ResultIds |-> results[x]]
        BY <1>0 DEF StoreTypes
    <2>4. \A x \in ResultIds : results[x] # NoRecord => results'[x] = results[x]
        BY <2>2, <2>3
    <2> QED
        BY <2>1, <2>4 DEF Grows
<1>4. ASSUME NEW e \in Engines, PublishReport(e)
      PROVE  Grows /\ (report' = report \/ report = NoRecord)
    BY <1>4 DEF PublishReport, Grows
<1>5. ASSUME UNCHANGED storeVars PROVE Grows /\ report' = report
    BY <1>5 DEF Grows, storeVars
<1>6. ASSUME NEW e \in Engines, Advance(e) PROVE Grows /\ report' = report
    <2>1. CASE RecordExecution(e) \/ RecordObservation(e) \/ RecordResult(e)
        BY <1>1, <1>2, <1>3, <2>1
    <2>2. CASE ~(RecordExecution(e) \/ RecordObservation(e) \/ RecordResult(e))
        <3>1. UNCHANGED storeVars
            BY <1>6, <2>2 DEF Advance, ReuseObservation, ExecuteItem, ShortCircuit, OutsideFixture, GetClaim,
                GetSession, CreateSession, FindTurn, ClaimRun, GetRun, CreateRun, AcquireLease, AcquireRefused,
                ResumeWaiting, RunBegins, RunReturns, DriveRefused, Rollback, CompleteSession, InspectRun,
                ReuseResult, ExecuteJudge, ExecuteEvaluator, EvaluatorUnknown, JudgeReturns
        <3> QED
            BY <1>5, <3>1
    <2> QED
        BY <2>1, <2>2
<1>7. ASSUME NEW e \in Engines, LeaveClaim(e) \/ Fail(e) \/ \E s \in Suites : RunSuite(e, s)
      PROVE  Grows /\ report' = report
    BY <1>5, <1>7 DEF LeaveClaim, Fail, RunSuite
<1>8. ASSUME NEW r \in Runs, ApplicationDrives(r) PROVE Grows /\ report' = report
    BY <1>5, <1>8 DEF ApplicationDrives
<1>9. CASE UNCHANGED vars
    BY <1>5, <1>9 DEF vars
<1> QED
    BY <1>4, <1>6, <1>7, <1>8, <1>9 DEF Next

LEMMA BuiltStep ==
    ASSUME IInv, RInv, ReportBuilt, [Next]_vars
    PROVE  ReportBuilt'
<1>1. CASE report # NoRecord
    <2>1. Grows /\ report' = report
        BY <1>1, StepGrows
    <2>2. execution \in Suites /\ execution' = execution
        BY <1>1, <2>1, EvalAssumption DEF RInv, ReportKnown, Grows
    <2>3. PICK s : s = execution
        OBVIOUS
    <2>4. ASSUME NEW i \in Range(Plan[s]), NEW ev \in Range(EvaluatorRefs[s][i])
          PROVE  results'[<<i, ev>>] = results[<<i, ev>>]
        <3>1. <<i, ev>> \in ResultIds
            BY <2>2, <2>3, ResultIdFacts
        <3>2. results[<<i, ev>>] # NoRecord
            BY <1>1, <2>3 DEF RInv, ReportKnown, Judged
        <3> QED
            BY <2>1, <3>1, <3>2 DEF Grows
    <2>5. Returned(s)' = Returned(s)
        <3> DEFINE Old(i) == {results[<<i, ev>>] : ev \in Range(EvaluatorRefs[s][i])}
                   New(i) == {results'[<<i, ev>>] : ev \in Range(EvaluatorRefs[s][i])}
        <3>1. \A i \in Range(Plan[s]) : New(i) = Old(i)
            BY <2>4
        <3>2. /\ Returned(s) = UNION {Old(i) : i \in Range(Plan[s])}
              /\ Returned(s)' = UNION {New(i) : i \in Range(Plan[s])}
            BY DEF Returned
        <3> HIDE DEF Old, New
        <3>3. {Old(i) : i \in Range(Plan[s])} = {New(i) : i \in Range(Plan[s])}
            BY <3>1
        <3> QED
            BY <3>2, <3>3
    <2>6. Returned(execution) = Returned(s) /\ Returned(execution)' = Returned(s)'
        <3>1. Returned(execution) = Returned(s)
            BY <2>3
        <3>2. execution' = s
            BY <2>2, <2>3
        <3>3. Returned(execution)' = Returned(s)'
            BY <3>2
        <3> QED
            BY <3>1, <3>3
    <2>7. Returned(execution)' = Returned(execution)
        BY <2>5, <2>6
    <2> QED
        BY <1>1, <2>1, <2>2, <2>7 DEF ReportBuilt
<1>2. CASE report = NoRecord /\ report' = report
    BY <1>2 DEF ReportBuilt
<1>3. ASSUME NEW e \in Engines, PublishReport(e), report = NoRecord PROVE ReportBuilt'
    <2>1. report' = BuildReportRevision(loc[e].suite, Returned(loc[e].suite))
        BY <1>3 DEF PublishReport
    <2>2. execution' = execution /\ results' = results /\ execution = loc[e].suite
        BY <1>3 DEF PublishReport, IInv, LocalsHold
    <2> QED
        BY <2>1, <2>2 DEF ReportBuilt, Returned
<1> QED
    BY <1>1, <1>2, <1>3, StepGrows

LEMMA BuiltFollows ==
    ASSUME RInv, ReportBuilt
    PROVE  ReportFollowsEvidence
<1> SUFFICES ASSUME report # NoRecord PROVE ReportFollowsEvidence
    BY DEF ReportFollowsEvidence
<1>1. execution \in Suites /\ \A i \in Range(Plan[execution]) : Judged(execution, i)
    BY DEF RInv, ReportKnown
<1>2. PICK s, R : s = execution /\ R = Returned(s)
    OBVIOUS
<1>3. ASSUME NEW i \in Range(Plan[s]), NEW ev \in Range(EvaluatorRefs[s][i])
      PROVE  results[<<i, ev>>].item = i
    <2>1. <<i, ev>> \in ResultIds /\ <<i, ev>>[1] = i
        BY <1>1, <1>2, ResultIdFacts
    <2>2. results[<<i, ev>>] # NoRecord
        BY <1>1, <1>2 DEF Judged
    <2> QED
        BY <2>1, <2>2 DEF RInv, RecordsHonest, Honest
<1>4. ASSUME NEW r \in R PROVE r.item \in Range(Plan[s])
    <2>1. PICK i \in Range(Plan[s]) : r \in {results[<<i, ev>>] : ev \in Range(EvaluatorRefs[s][i])}
        BY <1>2 DEF Returned
    <2>2. PICK ev \in Range(EvaluatorRefs[s][i]) : r = results[<<i, ev>>]
        BY <2>1
    <2> QED
        BY <1>3, <2>2
<1>5. ASSUME NEW i \in Range(Plan[s]) PROVE \E r \in R : r.item = i
    <2>1. PICK ev \in Range(EvaluatorRefs[s][i]) : TRUE
        BY <1>1, <1>2, SuiteAssumption, Numbered
    <2>2. PICK X : X = {results[<<i, f>>] : f \in Range(EvaluatorRefs[s][i])}
        OBVIOUS
    <2>3. X \in {{results[<<j, f>>] : f \in Range(EvaluatorRefs[s][j])} : j \in Range(Plan[s])}
        BY <2>2
    <2>4. results[<<i, ev>>] \in X
        BY <2>2
    <2>5. results[<<i, ev>>] \in R
        BY <1>2, <2>3, <2>4 DEF Returned
    <2> QED
        BY <1>3, <2>5
<1>6. report = BuildReportRevision(s, R)
    BY <1>2 DEF ReportBuilt
<1>7. ASSUME NEW g \in GateNames PROVE report.gates[g] = Worst(Part(g, R))
    BY <1>1, <1>2, <1>4, <1>5, <1>6, GateOfReport
<1>8. /\ Part("overall", R) = {r.outcome : r \in R}
      /\ Part("hard", R) = {r.outcome : r \in {x \in R : x.hard}}
      /\ Part("quality", R) = {r.outcome : r \in {x \in R : ~x.hard}}
    BY DEF Part
<1>9. /\ report.gates.overall = Worst(Part("overall", R)) /\ report.gates.hard = Worst(Part("hard", R))
      /\ report.gates.quality = Worst(Part("quality", R))
    BY <1>7 DEF GateNames
<1> QED
    BY <1>2, <1>8, <1>9 DEF ReportFollowsEvidence

\* The gates of a report are the worst of the results of all items, the hard and the
\* other ones apart, and stay so whatever engines record after it was published: no
\* result is rewritten, and none of the Suite's was missing.
THEOREM ReportFollowsEvidenceHolds == Spec => []ReportFollowsEvidence
<1>1. Init => IInv /\ RInv /\ ReportBuilt
    BY InvInit, ReportInit DEF Init, ReportBuilt
<1>2. IInv /\ RInv /\ ReportBuilt /\ [Next]_vars => IInv' /\ RInv' /\ ReportBuilt'
    BY InvStep, ReportStep, BuiltStep
<1>3. RInv /\ ReportBuilt => ReportFollowsEvidence
    BY BuiltFollows
<1> QED
    BY <1>1, <1>2, <1>3, PTL DEF Spec
=============================================================================
