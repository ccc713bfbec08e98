------------------------------- MODULE EvalRun -------------------------------
(***************************************************************************)
(* One Eval Execution and the EvalExecutionEngines of several processes    *)
(* that run or resume it (companion/eval/_engine, _execute, _judge over    *)
(* the Eval stores).  The execution id is given explicitly, so engines may *)
(* come with different Suites; identities of Runs and records are derived  *)
(* from the execution and the item, hence shared by all of them.           *)
(*                                                                         *)
(* Every record carries the time it was made: two engines never produce    *)
(* equal records, and the second to store one meets a conflict.            *)
(* The Session of an item, used by its subject Run alone, is ABSENT, OPEN, *)
(* CLAIMED by that Run or has its turn COMMITTED.                          *)
(* What an engine is configured with (registry, policy, evaluators) is     *)
(* chosen where it is used, hence may differ between calls and items.      *)
(***************************************************************************)
EXTENDS EvalVerdict

CONSTANTS
    Engines,
    Suites,        \* [digest, cases, variants]: the frozen contents presented
    Policies,      \* the projection policies in use, as sets of allowed fields
    Evaluator,     \* name -> [kind, hard, fields, expected]
    NoEngine, NoSuite, NoRecord,
    MaxFaults      \* bound on deaths, expired leases and unavailable stores

ASSUME EvalAssumption ==
    /\ NoEngine \notin Engines /\ NoSuite \notin Suites /\ MaxFaults \in Nat
    /\ Policies \subseteq SUBSET EvidenceFields

\* suite -> its items in order, and item -> the evaluators its case froze.
Plan == [s \in Suites |-> Expand(s)]
EvaluatorRefs == [s \in Suites |-> [i \in Range(Plan[s]) |-> EvaluatorsOf(s, i)]]

Items == UNION {Range(Plan[s]) : s \in Suites}
\* Identities derived from the item, and from the item and the evaluator.
Subject(item) == <<item, "subject">>
ResultIds ==
    UNION {UNION {{<<i, ev>> : ev \in Range(EvaluatorRefs[s][i])} : i \in Range(Plan[s])} :
                s \in Suites}
JudgeRuns == {x \in ResultIds : Evaluator[x[2]].kind = "judge"}
Runs == {Subject(i) : i \in Items} \cup JudgeRuns

\* What an observation can be.
OutputValues == {NoValue, "text", "PASS", "FAIL", "garbage"}
Observations ==
    [completeness : Completenesses, status : RunStatuses \cup {NoValue}, output : OutputValues]

\* What a projection and a result can be.
Projections ==
    [completeness : Completenesses,
     values : UNION {[F -> RunStatuses \cup OutputValues] : F \in SUBSET EvidenceFields},
     denied : SUBSET EvidenceFields, unavailable : SUBSET EvidenceFields]
ResultRecords ==
    [outcome : Outcomes, item : Items, hard : BOOLEAN, asked : Projections \cup {NoRecord}]

\* DeterministicEvaluator and JudgeBinding: what they declare.
ASSUME EvaluatorAssumption ==
    /\ NoRecord \notin ResultRecords
    /\ \A x \in ResultIds :
        Evaluator[x[2]].hard \in BOOLEAN /\ Evaluator[x[2]].fields \subseteq EvidenceFields

\* Subject and Judge Runs have identities of their own.
ASSUME SubjectAssumption == \A x \in ResultIds : x[2] # "subject"

\* EvalSuite and EvalCase: a Suite has cases, variants and repetitions, and
\* every case has evaluators.
ASSUME SuiteAssumption ==
    /\ NoRecord \notin Observations
    /\ \A s \in Suites :
        /\ Plan[s] \in Seq(Range(Plan[s])) /\ Plan[s] # <<>>
        /\ \A i \in Range(Plan[s]) :
            EvaluatorRefs[s][i] \in Seq(Range(EvaluatorRefs[s][i])) /\ EvaluatorRefs[s][i] # <<>>

\* The expansion of a Suite: an item is a repetition of a case, whose id names
\* it, with a variant.
ASSUME ItemAssumption ==
    \A s \in Suites : \A i \in Range(Plan[s]) :
        /\ \E c \in DOMAIN s.cases : s.cases[c].id = i[1]
        /\ i[2] \in Range(s.variants) /\ i[3] \in 1..CaseById(s, i[1]).repetitions
        /\ i = <<CaseById(s, i[1]).id, i[2], i[3]>>

\* Every repetition of every case is expanded with every variant.
ASSUME ExpansionAssumption ==
    \A s \in Suites : \A k \in CaseVariants(s) : \A n \in 1..CaseById(s, k[1]).repetitions :
        <<CaseById(s, k[1]).id, k[2], n>> \in Range(Plan[s])

VARIABLES
    execution,   \* the Suite the stored execution record was made for
    observations,\* item -> the stored observation
    results,     \* <<item, evaluator>> -> the stored outcome
    report,      \* the stored report revision
    session,     \* item -> the state of its isolated Session
    runs,        \* run -> "ABSENT" or its status, in the two Eval run stores
    output,      \* run -> what it put out
    input,       \* Judge Run -> the projection frozen as its input
    driver,      \* run -> the engine whose lease is live
    pc, loc,     \* engine -> where its call is, and its locals
    faults,
    \* history variables
    origin,      \* item or result id -> the Suite under which it was recorded
    robbed       \* items whose claim was released under a live subject Run

storeVars == <<execution, observations, results, report>>
runVars == <<runs, output, input, driver>>
historyVars == <<origin, robbed>>
vars == <<storeVars, session, runVars, pc, loc, faults, historyVars>>

------------------------------------------------------------------------------
NoLocals == [suite |-> NoSuite, item |-> 1, ev |-> 1, allowed |-> {}, run |-> NoRecord,
             status |-> "ABSENT", record |-> NoRecord]

Init ==
    /\ execution = NoSuite
    /\ observations = [i \in Items |-> NoRecord]
    /\ results = [x \in ResultIds |-> NoRecord]
    /\ report = NoRecord
    /\ session = [i \in Items |-> "ABSENT"]
    /\ runs = [r \in Runs |-> "ABSENT"]
    /\ output = [r \in Runs |-> NoValue]
    /\ input = [r \in JudgeRuns |-> NoRecord]
    /\ driver = [r \in Runs |-> NoEngine]
    /\ pc = [e \in Engines |-> "idle"]
    /\ loc = [e \in Engines |-> NoLocals]
    /\ faults = 0
    /\ origin = [x \in Items \cup ResultIds |-> NoSuite]
    /\ robbed = {}

Goto(e, p) == pc' = [pc EXCEPT ![e] = p]
Return(e) == Goto(e, "idle") /\ loc' = [loc EXCEPT ![e] = NoLocals]

Item(e) == Plan[loc[e].suite][loc[e].item]
EvName(e) == EvaluatorRefs[loc[e].suite][Item(e)][loc[e].ev]
Ev(e) == Evaluator[EvName(e)]
ResultId(e) == <<Item(e), EvName(e)>>
\* The projection the evaluator or the Judge is given.
Asked(e) == Projection(observations[Item(e)], Ev(e).fields, loc[e].allowed)

------------------------------------------------------------------------------
(* run_suite, resume_execution *)

\* Fault: the execution's id is enough.
SameSuite_ById(s) == TRUE

\* _verify_execution_identity
SameSuite(s) == execution = s

\* get_execution: an execution of other content is refused; without one,
\* run_suite goes on to create it and resume_execution raises.
RunSuite(e, s) ==
    /\ pc[e] = "idle"
    /\ execution = NoSuite \/ SameSuite(s)
    /\ loc' = [loc EXCEPT ![e] = [NoLocals EXCEPT !.suite = s]]
    /\ Goto(e, IF execution = NoSuite THEN "recordExecution" ELSE "getObservation")
    /\ UNCHANGED <<storeVars, session, runVars, faults, historyVars>>

\* record_execution, refused if another engine was first.
RecordExecution(e) ==
    /\ pc[e] = "recordExecution"
    /\ IF execution = NoSuite
       THEN execution' = loc[e].suite /\ Goto(e, "getObservation") /\ UNCHANGED loc
       ELSE Return(e) /\ UNCHANGED execution
    /\ UNCHANGED <<observations, results, report, session, runVars, faults, historyVars>>

\* _ensure_observation: a stored one is used.
ReuseObservation(e) ==
    /\ pc[e] = "getObservation" /\ observations[Item(e)] # NoRecord
    /\ Goto(e, "getResult")
    /\ UNCHANGED <<storeVars, session, runVars, loc, faults, historyVars>>

\* execute_item: the Definition resolves, lies inside the fixture boundary and has
\* the capabilities.
ExecuteItem(e) ==
    /\ pc[e] = "getObservation" /\ observations[Item(e)] = NoRecord
    /\ Goto(e, "getClaim")
    /\ UNCHANGED <<storeVars, session, runVars, loc, faults, historyVars>>

\* It is not registered with this engine, or its model lacks a capability: an
\* observation without a Run.
ShortCircuit(e) ==
    /\ pc[e] = "getObservation" /\ observations[Item(e)] = NoRecord
    /\ \E c \in {"UNAVAILABLE", "UNSUPPORTED"} :
        loc' = [loc EXCEPT ![e].record = Observation(c, NoValue, NoValue)]
    /\ Goto(e, "recordObservation")
    /\ UNCHANGED <<storeVars, session, runVars, faults, historyVars>>

\* It reaches outside the fixture: _enforce_fixture_boundary raises.
OutsideFixture(e) ==
    /\ pc[e] = "getObservation" /\ observations[Item(e)] = NoRecord
    /\ Return(e)
    /\ UNCHANGED <<storeVars, session, runVars, faults, historyVars>>

------------------------------------------------------------------------------
(* _claim_session *)

\* Drive the Run r next.
DriveNext(e, r) == Goto(e, "getRun") /\ loc' = [loc EXCEPT ![e].run = r]

\* Fault: the claim left by an interrupted execution is not recognised.
GetClaim_Forgets(e) ==
    /\ pc[e] = "getClaim" /\ Goto(e, "getSession")
    /\ UNCHANGED <<storeVars, session, runVars, loc, faults, historyVars>>

\* get_claim: the claim of this very Run is taken up again.
GetClaim(e) ==
    /\ pc[e] = "getClaim"
    /\ IF session[Item(e)] = "CLAIMED" THEN DriveNext(e, Subject(Item(e)))
       ELSE Goto(e, "getSession") /\ UNCHANGED loc
    /\ UNCHANGED <<storeVars, session, runVars, faults, historyVars>>

\* get_session
GetSession(e) ==
    /\ pc[e] = "getSession"
    /\ Goto(e, IF session[Item(e)] = "ABSENT" THEN "createSession" ELSE "findTurn")
    /\ UNCHANGED <<storeVars, session, runVars, loc, faults, historyVars>>

\* create_session raises if another engine was first.
CreateSession(e) ==
    LET i == Item(e) IN
    /\ pc[e] = "createSession"
    /\ IF session[i] = "ABSENT"
       THEN session' = [session EXCEPT ![i] = "OPEN"] /\ Goto(e, "findTurn") /\ UNCHANGED loc
       ELSE Return(e) /\ UNCHANGED session
    /\ UNCHANGED <<storeVars, runVars, faults, historyVars>>

\* find_turn_by_run: a turn committed before a death is recognised.
FindTurn(e) ==
    /\ pc[e] = "findTurn"
    /\ IF session[Item(e)] = "COMMITTED" THEN DriveNext(e, Subject(Item(e)))
       ELSE Goto(e, "claimRun") /\ UNCHANGED loc
    /\ UNCHANGED <<storeVars, session, runVars, faults, historyVars>>

\* claim_run raises if the Session is claimed or has the turn by now.
ClaimRun(e) ==
    LET i == Item(e) IN
    /\ pc[e] = "claimRun"
    /\ IF session[i] = "OPEN"
       THEN session' = [session EXCEPT ![i] = "CLAIMED"] /\ DriveNext(e, Subject(i))
       ELSE Return(e) /\ UNCHANGED session
    /\ UNCHANGED <<storeVars, runVars, faults, historyVars>>

------------------------------------------------------------------------------
(* _drive_subject_run, and the same steps of run_judge *)

IsSubject(e) == loc[e].run = Subject(Item(e))

\* An error while the subject is driven rolls the claim back.
Raise(e) ==
    IF IsSubject(e) THEN Goto(e, "rollback") /\ UNCHANGED loc ELSE Return(e)

\* Fault: the Judge Run is reused whatever it was asked.
InputUnchanged_Any(e) == TRUE

\* run_judge: the stored input is the projection computed now.
InputUnchanged(e) ==
    \/ IsSubject(e)
    \/ input[loc[e].run] = Asked(e)

\* get_run: create it, resume it, or take its terminal record.
GetRun(e) ==
    LET s == runs[loc[e].run] IN
    /\ pc[e] = "getRun"
    /\ CASE s = "ABSENT" -> Goto(e, "createRun") /\ UNCHANGED loc
         [] s # "ABSENT" /\ ~InputUnchanged(e) -> Return(e)
         [] s # "ABSENT" /\ InputUnchanged(e) ->
                /\ loc' = [loc EXCEPT ![e].status = s]
                /\ Goto(e, IF s \in TERMINAL_STATUSES THEN "driven" ELSE "resumeRun")
    /\ UNCHANGED <<storeVars, session, runVars, faults, historyVars>>

\* create_run raises for an identity that exists.
CreateRun(e) ==
    LET r == loc[e].run IN
    /\ pc[e] = "createRun"
    /\ IF runs[r] = "ABSENT"
       THEN /\ runs' = [runs EXCEPT ![r] = "CREATED"]
            /\ input' = IF IsSubject(e) THEN input ELSE [input EXCEPT ![r] = Asked(e)]
            /\ Goto(e, "startRun") /\ UNCHANGED loc
       ELSE Raise(e) /\ UNCHANGED <<runs, input>>
    /\ UNCHANGED <<storeVars, session, output, driver, faults, historyVars>>

\* The lease of start_run or resume_run, to be had when it is free or has
\* run out.
AcquireLease(e) ==
    LET r == loc[e].run IN
    /\ \/ pc[e] = "startRun" /\ runs[r] = "CREATED"
       \/ pc[e] = "resumeRun" /\ runs[r] \notin TERMINAL_STATUSES
    /\ IF driver[r] = NoEngine THEN UNCHANGED faults
       ELSE faults < MaxFaults /\ faults' = faults + 1
    /\ driver' = [driver EXCEPT ![r] = e]
    /\ Goto(e, "driving")
    /\ UNCHANGED <<storeVars, session, runs, output, input, loc, historyVars>>

\* Refused by another lease or by the status found.
AcquireRefused(e) ==
    LET r == loc[e].run IN
    /\ \/ pc[e] = "startRun" /\ (runs[r] # "CREATED" \/ driver[r] # NoEngine)
       \/ pc[e] = "resumeRun" /\ (runs[r] \in TERMINAL_STATUSES \/ driver[r] # NoEngine)
    /\ Raise(e)
    /\ UNCHANGED <<storeVars, session, runVars, faults, historyVars>>

\* resume_run returns a waiting Run as it is.
ResumeWaiting(e) ==
    /\ pc[e] = "resumeRun" /\ runs[loc[e].run] = "WAITING"
    /\ loc' = [loc EXCEPT ![e].status = "WAITING"]
    /\ Goto(e, "driven")
    /\ UNCHANGED <<storeVars, session, runVars, faults, historyVars>>

\* CREATED or, with its definition back, WAITING -> RUNNING.
RunBegins(e) ==
    LET r == loc[e].run IN
    /\ pc[e] = "driving" /\ driver[r] = e /\ runs[r] \in {"CREATED", "WAITING"}
    /\ runs' = [runs EXCEPT ![r] = "RUNNING"]
    /\ UNCHANGED <<storeVars, session, output, input, driver, pc, loc, faults, historyVars>>

\* What a Run puts out: the subject its text, the Judge a verdict or something
\* that is none.
OutputsOf(r) == IF r \in JudgeRuns THEN {"PASS", "FAIL", "garbage"} ELSE {"text"}

EndRun(r, s) ==
    /\ runs' = [runs EXCEPT ![r] = s]
    /\ IF s = "SUCCEEDED" THEN \E o \in OutputsOf(r) : output' = [output EXCEPT ![r] = o]
       ELSE UNCHANGED output

\* The Run ends or waits.  FAILED stands for REJECTED and CANCELLED as well: the
\* companion only tells SUCCEEDED, the other terminal statuses and the rest apart.
RunReturns(e) ==
    LET r == loc[e].run IN
    /\ pc[e] = "driving" /\ driver[r] = e /\ runs[r] = "RUNNING"
    /\ \E s \in AllowedTransitions["RUNNING"] \ {"REJECTED", "CANCELLED"} :
        EndRun(r, s) /\ loc' = [loc EXCEPT ![e].status = s]
    /\ driver' = [driver EXCEPT ![r] = NoEngine]
    /\ Goto(e, "driven")
    /\ UNCHANGED <<storeVars, session, input, faults, historyVars>>

\* The lease was taken over: the next commit raises.
DriveRefused(e) ==
    /\ pc[e] = "driving" /\ driver[loc[e].run] # e
    /\ Raise(e)
    /\ UNCHANGED <<storeVars, session, runVars, faults, historyVars>>

\* The application resolves a waiting Run and resumes it through a Runner of its
\* own.
ApplicationDrives(r) ==
    /\ runs[r] \in {"WAITING", "RUNNING"} /\ driver[r] = NoEngine
    /\ \E s \in AllowedTransitions[runs[r]] \ {"REJECTED", "CANCELLED"} : EndRun(r, s)
    /\ UNCHANGED <<storeVars, session, input, driver, pc, loc, faults, historyVars>>

------------------------------------------------------------------------------
(* The end of execute_item *)

\* release_claim in the except branch, then the error propagates.
Rollback(e) ==
    LET i == Item(e) IN
    /\ pc[e] = "rollback"
    /\ session' = IF session[i] = "CLAIMED" THEN [session EXCEPT ![i] = "OPEN"] ELSE session
    /\ robbed' = IF session[i] = "CLAIMED" THEN robbed \cup {i} ELSE robbed
    /\ Return(e)
    /\ UNCHANGED <<storeVars, runVars, faults, origin>>

\* Fault: any terminal status commits the turn.
CompleteSession_AnyEnd(e) ==
    /\ pc[e] = "driven" /\ IsSubject(e)
    /\ session' =
        IF session[Item(e)] # "CLAIMED" \/ loc[e].status \notin TERMINAL_STATUSES THEN session
        ELSE [session EXCEPT ![Item(e)] = "COMMITTED"]
    /\ Goto(e, "inspect")
    /\ UNCHANGED <<storeVars, runVars, loc, faults, historyVars>>

\* _complete_session: commit_turn for the holder of the claim, release_claim,
\* or nothing for a Run that waits.
CompleteSession(e) ==
    LET i == Item(e) IN
    /\ pc[e] = "driven" /\ IsSubject(e)
    /\ session' =
        IF session[i] # "CLAIMED" \/ loc[e].status \notin TERMINAL_STATUSES THEN session
        ELSE [session EXCEPT ![i] = IF loc[e].status = "SUCCEEDED" THEN "COMMITTED" ELSE "OPEN"]
    /\ Goto(e, "inspect")
    /\ UNCHANGED <<storeVars, runVars, loc, faults, historyVars>>

\* The Session store is not available: the error is swallowed and the claim, if
\* there is one, is left for reconciliation.
LeaveClaim(e) ==
    /\ pc[e] = "driven" /\ IsSubject(e) /\ loc[e].status \in TERMINAL_STATUSES
    /\ faults < MaxFaults
    /\ faults' = faults + 1
    /\ Goto(e, "inspect")
    /\ UNCHANGED <<storeVars, session, runVars, loc, historyVars>>

\* execute_item's inspect_run, and the observation made of it: the Run as it is now.
ObserveRun(r) == ObservationFromInspection(runs[r], output[r], FALSE)

\* Fault: what has not ended is recorded as well.
InspectRun_NotTerminal(e) ==
    /\ pc[e] = "inspect"
    /\ loc' = [loc EXCEPT ![e].record = ObserveRun(loc[e].run)]
    /\ Goto(e, "recordObservation")
    /\ UNCHANGED <<storeVars, session, runVars, faults, historyVars>>

\* inspect_run; the engine refuses to record a Run that has not ended.
InspectRun(e) ==
    /\ pc[e] = "inspect"
    /\ IF ObserveRun(loc[e].run).completeness = "INCONCLUSIVE" THEN Return(e)
       ELSE /\ loc' = [loc EXCEPT ![e].record = ObserveRun(loc[e].run)]
            /\ Goto(e, "recordObservation")
    /\ UNCHANGED <<storeVars, session, runVars, faults, historyVars>>

\* record_observation: append-only.
RecordObservation(e) ==
    LET i == Item(e) IN
    /\ pc[e] = "recordObservation"
    /\ IF observations[i] = NoRecord
       THEN /\ observations' = [observations EXCEPT ![i] = loc[e].record]
            /\ origin' = [origin EXCEPT ![i] = loc[e].suite]
            /\ loc' = [loc EXCEPT ![e].record = NoRecord, ![e].run = NoRecord,
                                  ![e].status = "ABSENT"]
            /\ Goto(e, "getResult")
       ELSE Return(e) /\ UNCHANGED <<observations, origin>>
    /\ UNCHANGED <<execution, results, report, session, runVars, faults, robbed>>

------------------------------------------------------------------------------
(* _ensure_result *)

\* The loops of run_suite: next evaluator, next item, or all done.
Proceed(e) ==
    LET l == loc[e] IN
    CASE l.ev < Len(EvaluatorRefs[l.suite][Item(e)]) ->
            /\ loc' = [loc EXCEPT ![e] = [NoLocals EXCEPT !.suite = l.suite, !.item = l.item,
                                            !.ev = l.ev + 1]]
            /\ Goto(e, "getResult")
      [] l.ev = Len(EvaluatorRefs[l.suite][Item(e)]) /\ l.item < Len(Plan[l.suite]) ->
            /\ loc' = [loc EXCEPT ![e] = [NoLocals EXCEPT !.suite = l.suite, !.item = l.item + 1]]
            /\ Goto(e, "getObservation")
      [] OTHER -> Goto(e, "report") /\ UNCHANGED loc

\* get_evaluator_result: a stored one is used.
ReuseResult(e) ==
    /\ pc[e] = "getResult" /\ results[ResultId(e)] # NoRecord
    /\ Proceed(e)
    /\ UNCHANGED <<storeVars, session, runVars, faults, historyVars>>

\* _execute_evaluator under the engine's projection policy: a Judge Run ...
ExecuteJudge(e) ==
    /\ pc[e] = "getResult" /\ results[ResultId(e)] = NoRecord /\ Ev(e).kind = "judge"
    /\ \E allowed \in Policies :
        loc' = [loc EXCEPT ![e].allowed = allowed, ![e].run = ResultId(e)]
    /\ Goto(e, "getRun")
    /\ UNCHANGED <<storeVars, session, runVars, faults, historyVars>>

\* ... or the evaluator.
ExecuteEvaluator(e) ==
    /\ pc[e] = "getResult" /\ results[ResultId(e)] = NoRecord /\ Ev(e).kind # "judge"
    /\ \E allowed \in Policies :
        loc' = [loc EXCEPT ![e].record =
                  [outcome |-> RunEvaluator(Ev(e), Projection(observations[Item(e)],
                                                              Ev(e).fields, allowed)),
                   item |-> Item(e), hard |-> Ev(e).hard, asked |-> NoRecord]]
    /\ Goto(e, "recordResult")
    /\ UNCHANGED <<storeVars, session, runVars, faults, historyVars>>

\* It is not registered in the version the case froze: EvalError.
EvaluatorUnknown(e) ==
    /\ pc[e] = "getResult" /\ results[ResultId(e)] = NoRecord
    /\ Return(e)
    /\ UNCHANGED <<storeVars, session, runVars, faults, historyVars>>

\* The end of run_judge: a verdict, or a failure record for any other status.
JudgeReturns(e) ==
    /\ pc[e] = "driven" /\ ~IsSubject(e)
    /\ loc' = [loc EXCEPT ![e].record =
                [outcome |-> IF loc[e].status = "SUCCEEDED"
                             THEN ParseJudgeVerdict(output[loc[e].run]) ELSE "ERROR",
                 item |-> Item(e), hard |-> FALSE, asked |-> Asked(e)]]
    /\ Goto(e, "recordResult")
    /\ UNCHANGED <<storeVars, session, runVars, faults, historyVars>>

\* Fault: the later of two results is kept.
RecordResult_Overwrites(e) ==
    /\ pc[e] = "recordResult"
    /\ results' = [results EXCEPT ![ResultId(e)] = loc[e].record]
    /\ origin' = [origin EXCEPT ![ResultId(e)] = loc[e].suite]
    /\ Proceed(e)
    /\ UNCHANGED <<execution, observations, report, session, runVars, faults, robbed>>

\* record_evaluator_result: append-only.
RecordResult(e) ==
    /\ pc[e] = "recordResult"
    /\ IF results[ResultId(e)] = NoRecord
       THEN /\ results' = [results EXCEPT ![ResultId(e)] = loc[e].record]
            /\ origin' = [origin EXCEPT ![ResultId(e)] = loc[e].suite]
            /\ Proceed(e)
       ELSE Return(e) /\ UNCHANGED <<results, origin>>
    /\ UNCHANGED <<execution, observations, report, session, runVars, faults, robbed>>

\* The results run_suite collects.
Returned(s) ==
    UNION {{results[<<i, ev>>] : ev \in Range(EvaluatorRefs[s][i])} : i \in Range(Plan[s])}

\* run_suite returns; its caller builds the report from the results returned and
\* records it as the first revision.
PublishReport(e) ==
    /\ pc[e] = "report"
    /\ report' = IF report = NoRecord
                 THEN BuildReportRevision(loc[e].suite, Returned(loc[e].suite)) ELSE report
    /\ Return(e)
    /\ UNCHANGED <<execution, observations, results, session, runVars, faults, historyVars>>

------------------------------------------------------------------------------
\* The process dies or a store is not available: the call is over, after the
\* rollback of the claim if an error met it while the subject was driven.
Fail(e) ==
    /\ pc[e] # "idle" /\ faults < MaxFaults
    /\ faults' = faults + 1
    /\ driver' = [r \in Runs |-> IF driver[r] = e THEN NoEngine ELSE driver[r]]
    /\ \/ Return(e)
       \/ pc[e] \in {"getRun", "createRun", "startRun", "resumeRun", "driving"} /\ Raise(e)
    /\ UNCHANGED <<storeVars, session, runs, output, input, historyVars>>

Advance(e) ==
    \/ RecordExecution(e) \/ ReuseObservation(e)
    \/ ExecuteItem(e) \/ ShortCircuit(e) \/ OutsideFixture(e)
    \/ GetClaim(e) \/ GetSession(e) \/ CreateSession(e) \/ FindTurn(e) \/ ClaimRun(e)
    \/ GetRun(e) \/ CreateRun(e) \/ AcquireLease(e) \/ AcquireRefused(e)
    \/ ResumeWaiting(e) \/ RunBegins(e) \/ RunReturns(e) \/ DriveRefused(e)
    \/ Rollback(e) \/ CompleteSession(e) \/ InspectRun(e) \/ RecordObservation(e)
    \/ ReuseResult(e) \/ ExecuteJudge(e) \/ ExecuteEvaluator(e) \/ EvaluatorUnknown(e)
    \/ JudgeReturns(e) \/ RecordResult(e)

Next ==
    \/ \E e \in Engines :
        \/ \E s \in Suites : RunSuite(e, s)
        \/ Advance(e) \/ PublishReport(e) \/ LeaveClaim(e) \/ Fail(e)
    \/ \E r \in Runs : ApplicationDrives(r)

Spec == Init /\ [][Next]_vars

\* A call goes on; the execution is resumed again and again, by engines that in
\* the end have the Definition and the evaluators.
FairSpec ==
    /\ Spec
    /\ \A e \in Engines :
        /\ WF_vars(Advance(e))
        /\ SF_vars(ExecuteItem(e)) /\ SF_vars(ExecuteJudge(e) \/ ExecuteEvaluator(e))
    /\ SF_vars(\E e \in Engines, s \in Suites : RunSuite(e, s))

------------------------------------------------------------------------------
(* Properties *)

\* Every variable has its type.
TypeOK ==
    /\ execution \in Suites \cup {NoSuite}
    /\ \A i \in Items : observations[i] = NoRecord \/ observations[i].completeness \in Completenesses
    /\ \A x \in ResultIds : results[x] = NoRecord \/ results[x].outcome \in Outcomes
    /\ session \in [Items -> {"ABSENT", "OPEN", "CLAIMED", "COMMITTED"}]
    /\ runs \in [Runs -> RunStatuses \cup {"ABSENT"}]
    /\ \A r \in Runs : runs[r] = "SUCCEEDED" <=> output[r] # NoValue
    /\ driver \in [Runs -> Engines \cup {NoEngine}]
    /\ faults \in 0..MaxFaults

\* Identities do not depend on what the cases contain, so engines with
\* different Suites meet in the same records: all evidence of an execution was
\* made for the one Suite it was created for.
OneSuite == \A x \in DOMAIN origin : origin[x] \in {NoSuite, execution}

\* Runs are resolved, resumed and taken over between driving, inspecting and
\* recording: a stored observation of a Run is what inspecting it shows, now
\* and for ever.
ObservationFaithful ==
    \A i \in Items :
        observations[i] # NoRecord /\ observations[i].status # NoValue =>
            ClaimsFullPopulation(observations[i]) /\ observations[i] = ObserveRun(Subject(i))

\* A turn belongs to a subject that succeeded, and once a success is on record
\* its turn is committed or the claim is left for reconciliation, unless an
\* engine that failed to drive the Run had released it.
TurnAccounted ==
    \A i \in Items :
        /\ session[i] = "COMMITTED" => runs[Subject(i)] = "SUCCEEDED"
        /\ observations[i] # NoRecord =>
            (observations[i].status = "SUCCEEDED" =>
                session[i] \in {"CLAIMED", "COMMITTED"} \/ i \in robbed)

\* A verdict answers the question of the engine that recorded it, although the
\* Judge Run may have been created by one with another projection policy.
JudgedAsAsked ==
    \A r \in JudgeRuns :
        results[r] # NoRecord => input[r] = results[r].asked

\* Missing, refused or unavailable evidence never makes a report pass: behind a
\* PASS every evaluator of every item passed, and a deterministic one only on a
\* complete observation (run_judge asks a Judge whatever was observed).
ReportHonest ==
    report # NoRecord =>
        \A i \in Range(Plan[execution]) :
            (report.gates.overall = "PASS" \/ report.cases[<<i[1], i[2]>>].passAtK) =>
                \A ev \in Range(EvaluatorRefs[execution][i]) :
                    /\ results[<<i, ev>>].outcome = "PASS"
                    /\ Evaluator[ev].kind # "judge" => observations[i].completeness = "COMPLETE"

\* Evidence is aggregated by repetition, case and variant, and engines go on
\* recording while one of them publishes: the gates of a report are the worst of the
\* results of all items of the Suite, the hard and the other ones apart, and a report
\* that is out is never at odds with the evidence on record.
ReportFollowsEvidence ==
    report # NoRecord =>
        LET evidence == Returned(execution) IN
        /\ report.gates.overall = Worst({r.outcome : r \in evidence})
        /\ report.gates.hard = Worst({r.outcome : r \in {x \in evidence : x.hard}})
        /\ report.gates.quality = Worst({r.outcome : r \in {x \in evidence : ~x.hard}})

Finished ==
    /\ execution # NoSuite
    /\ \A i \in Range(Plan[execution]) : \A ev \in Range(EvaluatorRefs[execution][i]) :
            results[<<i, ev>>] # NoRecord

\* An engine meets a Judge Run that was asked something else: run_judge refuses it.
MeetsOtherInput(e) ==
    /\ pc[e] = "getRun" /\ ~IsSubject(e)
    /\ input[loc[e].run] \notin {NoRecord, Asked(e)}

\* Through deaths, conflicts and lost leases an execution is finished by
\* resuming it, unless it comes to a Run that waits for the application or an
\* engine to a Judge Run with the input of another policy.
ExecutionFinishes ==
    execution # NoSuite ~>
        \/ Finished
        \/ \E r \in Runs : runs[r] = "WAITING"
        \/ \E e \in Engines : MeetsOtherInput(e)
=============================================================================
