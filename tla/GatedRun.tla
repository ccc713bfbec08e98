------------------------------ MODULE GatedRun ------------------------------
(***************************************************************************)
(* One Run under everything its frozen Snapshot may add to the bare loop   *)
(* of DurableRun: a Run Policy asked at every gate, a Context Plan whose   *)
(* Stages read changing external facts, semantic compression as a Model    *)
(* Step of its own, and an Output Contract with bounded repair.            *)
(*                                                                         *)
(* One call drives the Run at a time (RunStore and DurableRun show why the *)
(* fence makes it so) and may die between any two writes.  The writes that *)
(* complete a Step (Step, attempt, Checkpoint), and those that send it to  *)
(* WAITING as uncertain, are one action here; DurableRun takes them apart. *)
(* A response requests at most one Tool call, with a fresh call_id, which  *)
(* repairs and compressions never do.  Cooperative cancellation and        *)
(* missing Definitions are left to DurableRun; a plan that declares a      *)
(* Stage comes with a provider.                                            *)
(***************************************************************************)
EXTENDS RunStatus, ContextFrame, FiniteSets, FiniteSetsExt

CONSTANTS
    Snapshots,       \* [provider, plan, sources, output, effect, budget]:
                     \* has_context_provider, the Context Plan, the sources the
                     \* Compression Contract allows ({}: no contract), the Output
                     \* Contract ("none", "plain", "repair" or "strict"), the
                     \* ToolEffect and the ModelExecutionBudget
    MaxAttempts,     \* RetryPolicy.max_attempts, 0 for no policy
    RepairMax,       \* OutputRepairPolicy.max_attempts
    Window,          \* the model's window, in items
    MaxRounds,       \* bound on the responses that request a Tool
    MaxHolds,        \* bound on REQUIRE_RESOLUTION decisions
    MaxFailures,     \* bound on raising tools, models and providers
    MaxCrashes,      \* bound on deaths
    MaxResolutions   \* bound on RETRY_STEP and CONFIRM_STEP

Purposes == {"PRIMARY", "CONTEXT_COMPRESSION", "OUTPUT_REPAIR"}

\* run_max_attempts and maximum_for(purpose); no budget is no limit at all.
NoLimit == -1
Budgets == [Purposes \cup {"RUN"} -> Nat \cup {NoLimit}]

ASSUME GatedAssumption ==
    /\ \A s \in Snapshots : /\ s.plan \in Seq(Range(s.plan))
                            /\ \A i \in DOMAIN s.plan : s.plan[i].scope \in Scopes
                            /\ s.plan # <<>> => s.provider
                            /\ s.output \in {"none", "plain", "repair", "strict"}
                            /\ s.effect \in {"NON_IDEMPOTENT", "IDEMPOTENT"}
                            /\ s.budget \in Budgets
    /\ MaxAttempts \in Nat /\ RepairMax \in Nat \ {0} /\ Window \in Nat
    /\ MaxRounds \in Nat /\ MaxHolds \in Nat /\ MaxFailures \in Nat
    /\ MaxCrashes \in Nat /\ MaxResolutions \in Nat

VARIABLES
    snapshot,  \* the frozen Snapshot
    run,       \* the Run row: [status, reason, wstep, output]; output names the
               \* Model Step whose response was released
    steps,     \* the journal: a sequence of [type, key, status, atts, done, items,
               \* reply, outcome]; done: there is a Checkpoint, whose payload is
               \* items (CONTEXT), reply (MODEL) or outcome (TOOL); of a TOOL Step
               \* that is not done, outcome is what its PENDING attempt holds
    decision,  \* the last PolicyDecisionRecord: [gate, action]
    call,      \* the call that drives the Run: where it is, and its locals
    \* history
    sent,      \* the Frames of the model requests that were sent
    approved,  \* <<gate, payload>>: the Policy's latest answer about it was ALLOW
    effects, grants, holds, failures, crashes, resolutions,
    torn       \* the call left a NON_IDEMPOTENT effect it knew of unrecorded

vars == <<snapshot, run, steps, decision, call, sent, approved, effects, grants, holds,
          failures, crashes, resolutions, torn>>
storeVars == <<run, steps, decision>>
history == <<sent, approved, effects, grants>>
counters == <<holds, failures, crashes, resolutions, torn>>

------------------------------------------------------------------------------
(* The journal. *)

FailedAttempts == {"TRANSIENT", "PERMANENT", "UNCERTAIN", "UNCONFIRMED", "PENDING"}
AttemptStates == {"RUNNING", "SUCCEEDED"} \cup FailedAttempts
NoOutcome == -1
NoStage == [id |-> "none", scope |-> "none", transform |-> "none"]

\* key: <<stage_id, scope, boundary>> of a Stage, <<purpose>> of a Model Step,
\* <<round>> of a Tool Step.
NewStep(type, key) ==
    [type |-> type, key |-> key, status |-> "RUNNING", atts |-> <<>>, done |-> FALSE,
     items |-> <<>>, reply |-> "none", outcome |-> NoOutcome]

StepsOf(t) == {i \in DOMAIN steps : steps[i].type = t}
Done(t) == {i \in StepsOf(t) : steps[i].done}
LastOf(S) == IF S = {} THEN 0 ELSE Max(S)
EndsIn(i, S) == steps[i].atts # <<>> /\ Last(steps[i].atts) \in S
HasAttempt(i, S) == Range(steps[i].atts) \cap S # {}
Purpose(i) == steps[i].key[1]
ModelSteps(purpose) == {i \in StepsOf("MODEL") : Purpose(i) = purpose}
AttemptsOf(S) == Cardinality(UNION {{i} \X DOMAIN steps[i].atts : i \in S})

\* SetAttempt: the running attempt ends, or one is recorded as ended.
SetAttempt(atts, s) ==
    IF atts # <<>> /\ Last(atts) \in {"RUNNING", "PENDING"}
    THEN [atts EXCEPT ![Len(atts)] = s] ELSE Append(atts, s)

\* The journal with Step i written again: with another status and other attempts; with
\* its Checkpoint, of which one of items, reply and outcome is the payload.
Rewritten(i, status, atts) ==
    [steps EXCEPT ![i] = [steps[i] EXCEPT !.status = status, !.atts = atts]]
Completed(i, items, reply, outcome) ==
    [steps EXCEPT ![i] = [type |-> steps[i].type, key |-> steps[i].key, status |-> "SUCCEEDED",
                          atts |-> SetAttempt(steps[i].atts, "SUCCEEDED"), done |-> TRUE,
                          items |-> items, reply |-> reply, outcome |-> outcome]]

\* _should_retry and _recovery_replay_allowed.
ShouldRetry(failure, n) == failure = "TRANSIENT" /\ n < MaxAttempts
RecoveryReplayAllowed(n) == n < MaxAttempts

\* The Model Checkpoints that carry business responses, repaired ones included.
BusinessDone == Done("MODEL") \ ModelSteps("CONTEXT_COMPRESSION")
Rounds == Cardinality({i \in BusinessDone : steps[i].reply = "tool"})
Answered == \E i \in Done("TOOL") : steps[i].key = <<Rounds>>

\* The Model Step whose dispatch no Checkpoint confirms.
UnconfirmedModel ==
    LastOf({i \in StepsOf("MODEL") \ Done("MODEL") : HasAttempt(i, {"RUNNING", "UNCONFIRMED"})})

------------------------------------------------------------------------------
(* Context: which Stage is due, and what the next request carries. *)

\* _frozen_plan, with the Stage that stands for a provider without a plan.
Plan == IF snapshot.plan = <<>> /\ snapshot.provider THEN <<LegacyProviderStage>> ELSE snapshot.plan

ToolBoundary == Cardinality(Done("TOOL"))

\* Fault: the compression Checkpoint is not counted.
ModelBoundary_Business == Cardinality(BusinessDone)

\* Fault: Model Steps are counted instead of Checkpoints.
ModelBoundary_Steps == Cardinality(StepsOf("MODEL"))

\* Every Model Checkpoint counts, compression and repair included.
ModelBoundary == Cardinality(Done("MODEL"))

Boundary(stage) ==
    CASE stage.scope = "RUN_INPUT" -> 0
      [] stage.scope = "TOOL_OUTCOME" -> ToolBoundary
      [] stage.scope = "MODEL_STEP" -> ModelBoundary

\* stage_invocation_step_id.
StageKey(stage) == <<stage.id, stage.scope, Boundary(stage)>>
StepAt(key) == LastOf({i \in DOMAIN steps : steps[i].key = key})

\* The Stages of a lifecycle point that _stage_checkpoint finds no Checkpoint of.
Due(scope) ==
    {n \in StagesForScope(Plan, scope) : ~\E i \in Done("CONTEXT") : steps[i].key = StageKey(Plan[n])}

StageResults ==
    [i \in Done("CONTEXT") |->
        [scope |-> steps[i].key[2], boundary |-> steps[i].key[3], items |-> steps[i].items]]

Compressible == CompressibleItems(StageResults, snapshot.sources)
CompressionStep == LastOf(ModelSteps("CONTEXT_COMPRESSION"))

\* The end of _prepare_model_step_context.
FrameItems ==
    LET items == AggregateFrameItems(StageResults, ToolBoundary, ModelBoundary) IN
    IF CompressionStep # 0 /\ CompressionStep \in Done("MODEL")
    THEN ApplyCompression(items, CompressionResult(steps[CompressionStep].items))
    ELSE items

\* What _run_single_model_step sends for a purpose.
RequestItems(purpose) ==
    CASE purpose = "PRIMARY" -> FrameItems
      [] purpose = "CONTEXT_COMPRESSION" -> Compressible
      [] purpose = "OUTPUT_REPAIR" -> <<>>

------------------------------------------------------------------------------
(* Where a call goes on.  None of this writes anything. *)

\* pc: the write or external call that comes next; step: the Step it is about (0:
\* one still to be created); stage: the Stage being read, and path: in which of the
\* loops over Stages; model, replay: resumed_model_step_id and recovery_replay of the
\* agent loop that path leads to; left: repairs _repair_output may still make (-1
\* outside of it); outcome: the Tool Outcome in hand, or the one
\* that was no use; end: how to end the Run.
Idle == [pc |-> "idle", step |-> 0, stage |-> NoStage, path |-> "none", purpose |-> "PRIMARY",
         model |-> 0, replay |-> FALSE, left |-> -1, outcome |-> NoOutcome, end |-> "none"]

At(pc, i) == [Idle EXCEPT !.pc = pc, !.step = i]
EndRun(status) == [Idle EXCEPT !.pc = "endRun", !.end = status]
FailModelStep(i, purpose) ==
    [At("failModelStep", i) EXCEPT !.end = "FAILED", !.purpose = purpose]

\* _run_single_model_step up to the reservation: what its attempts still allow, and
\* the hard budget.
ModelEntry(purpose, i, replay, left) ==
    IF \/ i # 0 /\ EndsIn(i, FailedAttempts) /\ ~replay
          /\ ~ShouldRetry(Last(steps[i].atts), Len(steps[i].atts))
       \/ ~WithinBudget(RequestItems(purpose), Window)
    THEN FailModelStep(i, purpose)
    ELSE [At("reserve", i) EXCEPT !.purpose = purpose, !.left = left]

\* _run_context_stage on entry.
StageEntry(stage, path, model, replay) ==
    [At(IF stage.transform = "PROVIDE" THEN "contextGate" ELSE "unsupported",
        StepAt(StageKey(stage)))
        EXCEPT !.stage = stage, !.path = path, !.model = model, !.replay = replay]

\* _run_agent_loop and _prepare_model_step_context: the next Stage of this lifecycle
\* point, or the Model Step.
LoopEntry(model, replay) ==
    IF ToolBoundary > 0 /\ Due("TOOL_OUTCOME") # {}
    THEN StageEntry(Plan[Min(Due("TOOL_OUTCOME"))], "loop", model, replay)
    ELSE IF Due("MODEL_STEP") # {}
    THEN StageEntry(Plan[Min(Due("MODEL_STEP"))], "loop", model, replay)
    ELSE ModelEntry("PRIMARY", model, replay, -1)

\* _run_compression_step, with nothing to do when there is no contract, no item it
\* allows, or a Checkpoint.
CompressionEntry(replay) ==
    IF Compressible = <<>> \/ CompressionStep \in Done("MODEL")
    THEN LoopEntry(0, FALSE)
    ELSE ModelEntry("CONTEXT_COMPRESSION", CompressionStep, replay, -1)

\* _run_tool_step on entry.
ToolEntry(i, replay) ==
    IF /\ i # 0 /\ steps[i].atts # <<>>
       /\ IF replay THEN ~RecoveryReplayAllowed(Len(steps[i].atts))
          ELSE /\ EndsIn(i, FailedAttempts)
               /\ ~ShouldRetry(Last(steps[i].atts), Len(steps[i].atts))
    THEN [At("blameStep", i) EXCEPT !.end = "FAILED"]
    ELSE At("toolGate", i)

\* Fault: the Tool Effect is not looked at.
ResumeTool_Replays ==
    LET inflight == LastOf({i \in StepsOf("TOOL") : steps[i].status = "RUNNING"}) IN
    IF inflight # 0 /\ EndsIn(inflight, {"RUNNING"}) THEN At("unconfirmTool", inflight)
    ELSE ToolEntry(inflight, FALSE)

\* _resume_running, for a last response that requested a Tool.
ResumeTool ==
    LET inflight == LastOf({i \in StepsOf("TOOL") : steps[i].status = "RUNNING"}) IN
    CASE inflight # 0 /\ snapshot.effect = "NON_IDEMPOTENT" -> At("enterUncertain", inflight)
      [] inflight # 0 /\ snapshot.effect # "NON_IDEMPOTENT" /\ EndsIn(inflight, {"RUNNING"}) ->
            At("unconfirmTool", inflight)
      [] OTHER -> ToolEntry(inflight, FALSE)

\* _resume_running once the RUN_INPUT Stages are there.
ResumeJournal ==
    LET u == UnconfirmedModel
        last == LastOf(BusinessDone)
        running == LastOf({i \in StepsOf("MODEL") : steps[i].status = "RUNNING"})
    IN CASE u # 0 /\ Purpose(u) = "OUTPUT_REPAIR" -> ModelEntry("OUTPUT_REPAIR", u, TRUE, -1)
         [] u # 0 /\ Purpose(u) = "CONTEXT_COMPRESSION" -> CompressionEntry(TRUE)
         [] u # 0 /\ Purpose(u) = "PRIMARY" -> LoopEntry(u, TRUE)
         [] u = 0 /\ last = 0 ->
                LoopEntry(IF running = CompressionStep THEN 0 ELSE running, FALSE)
         [] u = 0 /\ last # 0 /\ steps[last].reply # "tool" -> At("outputGate", last)
         [] u = 0 /\ last # 0 /\ steps[last].reply = "tool" ->
                IF Answered THEN LoopEntry(0, FALSE) ELSE ResumeTool

\* _run_input_context_stages, from _execute_steps or from _resume_running.
InputEntry(path) ==
    IF Due("RUN_INPUT") # {} THEN StageEntry(Plan[Min(Due("RUN_INPUT"))], path, 0, FALSE)
    ELSE IF path = "execute" THEN CompressionEntry(FALSE) ELSE ResumeJournal

\* _resume_running after an unconfirmed Model attempt has been recorded as such.
ResumeModel ==
    LET u == UnconfirmedModel
        last == LastOf(StepsOf("MODEL"))
    IN IF u # 0 /\ ~RecoveryReplayAllowed(Len(steps[u].atts)) THEN FailModelStep(u, Purpose(u))
       ELSE IF last # 0 /\ last # u /\ steps[last].status = "FAILED" THEN EndRun("FAILED")
       ELSE InputEntry("resume")

HeldSteps == {i \in StepsOf("TOOL") : EndsIn(i, {"PENDING"})}

\* Fault: a held outcome is not looked for.
ResumeRunning_ForgetsHeld ==
    IF UnconfirmedModel # 0 /\ EndsIn(UnconfirmedModel, {"RUNNING"})
    THEN At("unconfirmModel", UnconfirmedModel)
    ELSE ResumeModel

\* _resume_running on entry.
ResumeRunning ==
    IF HeldSteps # {} THEN At("enterWaiting", Max(HeldSteps))
    ELSE IF UnconfirmedModel # 0 /\ EndsIn(UnconfirmedModel, {"RUNNING"})
    THEN At("unconfirmModel", UnconfirmedModel)
    ELSE ResumeModel

\* Fault: every round of repairs starts from the full allowance.
RepairsLeft_Fresh == RepairMax

\* used_attempts of _repair_output: attempts of earlier calls count.
RepairsLeft ==
    LET used == AttemptsOf(ModelSteps("OUTPUT_REPAIR")) IN
    IF used < RepairMax THEN RepairMax - used ELSE 0

\* The loop of _repair_output.
RepairLoop(left) ==
    IF left = 0 THEN EndRun("FAILED") ELSE ModelEntry("OUTPUT_REPAIR", 0, FALSE, left - 1)

\* Fault: the contract is not consulted.
ValidateOutput_Trusting(i, left) == [At("endRun", i) EXCEPT !.end = "SUCCEEDED"]

\* _finalize_output, and the body of _repair_output's loop, past the gate.
ValidateOutput(i, left) ==
    IF snapshot.output = "none" \/ steps[i].reply = "good"
    THEN [At("endRun", i) EXCEPT !.end = "SUCCEEDED"]
    ELSE IF left >= 0 THEN RepairLoop(left)
    ELSE CASE snapshot.output = "strict" -> [At("failModelStep", i) EXCEPT !.end = "FAILED"]
           [] snapshot.output = "repair" -> RepairLoop(RepairsLeft)
           [] snapshot.output = "plain" -> EndRun("FAILED")

------------------------------------------------------------------------------
Init ==
    /\ snapshot \in Snapshots
    /\ run = [status |-> "CREATED", reason |-> NoReason, wstep |-> 0, output |-> 0]
    /\ steps = <<>>
    /\ decision = [gate |-> "none", action |-> "none"]
    /\ call = Idle
    /\ sent = {} /\ approved = {}
    /\ effects = [c \in 1..MaxRounds |-> 0] /\ grants = [c \in 1..MaxRounds |-> 0]
    /\ holds = 0 /\ failures = 0 /\ crashes = 0 /\ resolutions = 0
    /\ torn = FALSE

\* transition_run.
Transition(status, reason, wstep, output) ==
    run' = [status |-> status, reason |-> reason, wstep |-> wstep, output |-> output]

\* start_run or resume_run of a CREATED Run.
StartRun ==
    /\ call = Idle /\ run.status = "CREATED"
    /\ call' = At("inputGate", 0)
    /\ UNCHANGED <<snapshot, storeVars, history, counters>>

\* resume_run of a RUNNING Run nobody drives.
ResumeRun ==
    /\ call = Idle /\ run.status = "RUNNING"
    /\ call' = ResumeRunning
    /\ UNCHANGED <<snapshot, storeVars, history, counters>>

\* _start_with_lease past the gate.
Start ==
    /\ call.pc = "start"
    /\ Transition("RUNNING", NoReason, 0, 0)
    /\ call' = InputEntry("execute")
    /\ UNCHANGED <<snapshot, steps, decision, history, counters>>

------------------------------------------------------------------------------
(* _enforce_policy. *)

Gates ==
    [inputGate |-> "INPUT", contextGate |-> "CONTEXT", contextFinal |-> "CONTEXT",
     toolGate |-> "TOOL_REQUEST", toolFinal |-> "TOOL_REQUEST",
     outcomeGate |-> "TOOL_OUTCOME", continueGate |-> "TOOL_OUTCOME",
     confirmGate |-> "TOOL_OUTCOME", outputGate |-> "FINAL_OUTPUT"]

\* The gates that are given the Step they decide about (failed_step_id).
BlamingGates == {"contextFinal", "toolFinal", "outcomeGate"}

\* What the gate is asked about, as far as a property needs it.
Payload ==
    CASE Gates[call.pc] = "TOOL_OUTCOME" -> <<Rounds, call.outcome>>
      [] Gates[call.pc] = "FINAL_OUTPUT" -> call.step
      [] OTHER -> 0

\* ALLOW: the action the gate protects.
Passed ==
    CASE call.pc = "inputGate" ->
            IF run.status = "CREATED" THEN At("start", 0) ELSE InputEntry("execute")
      [] call.pc = "contextGate" -> [call EXCEPT !.pc = "recordContext"]
      [] call.pc = "contextFinal" -> [call EXCEPT !.pc = "provide"]
      [] call.pc = "toolGate" -> [call EXCEPT !.pc = "recordTool"]
      [] call.pc = "toolFinal" -> [call EXCEPT !.pc = "invoke"]
      [] call.pc \in {"outcomeGate", "continueGate", "confirmGate"} ->
            [call EXCEPT !.pc = "checkpointTool"]
      [] call.pc = "outputGate" -> ValidateOutput(call.step, call.left)

\* REQUIRE_RESOLUTION: the outcome is kept first, if there is one.
Held ==
    [At(IF call.pc = "outcomeGate" THEN "recordPending" ELSE "enterWaiting",
        IF call.pc \in BlamingGates \cup {"continueGate"} THEN call.step ELSE 0)
        EXCEPT !.outcome = call.outcome]

\* REJECT, and an implementation fault, which is recorded as REJECT and fails.
Barred(status) ==
    IF call.pc \in BlamingGates
    THEN [At("blameStep", call.step) EXCEPT !.end = status, !.outcome = call.outcome]
    ELSE [EndRun(status) EXCEPT !.outcome = call.outcome]

Decide(action) ==
    /\ call.pc \in DOMAIN Gates
    /\ action = "REQUIRE_RESOLUTION" => holds < MaxHolds
    /\ decision' = [gate |-> Gates[call.pc],
                    action |-> IF action = "fault" THEN "REJECT" ELSE action]
    /\ call' = CASE action = "ALLOW" -> Passed
                 [] action = "REQUIRE_RESOLUTION" -> Held
                 [] action = "REJECT" -> Barred("REJECTED")
                 [] action = "fault" -> Barred("FAILED")
    /\ approved' = IF action = "ALLOW" THEN approved \cup {<<Gates[call.pc], Payload>>}
                   ELSE approved \ {<<Gates[call.pc], Payload>>}
    /\ holds' = holds + (IF action = "REQUIRE_RESOLUTION" THEN 1 ELSE 0)
    \* nothing says any more that the application has confirmed the effect
    /\ torn' = (torn \/ (call.pc = "confirmGate" /\ action = "REQUIRE_RESOLUTION"))
    /\ UNCHANGED <<snapshot, run, steps, sent, effects, grants, failures, crashes, resolutions>>

\* _record_pending_tool_outcome.
RecordPending ==
    /\ call.pc = "recordPending"
    /\ steps' = [steps EXCEPT ![call.step] =
                    [steps[call.step] EXCEPT !.atts = SetAttempt(steps[call.step].atts, "PENDING"),
                                             !.outcome = call.outcome]]
    /\ call' = At("enterWaiting", call.step)
    /\ UNCHANGED <<snapshot, run, decision, history, counters>>

\* ... and _enter_waiting_policy_outcome; the lease is released.
EnterWaitingPolicy ==
    /\ call.pc = "enterWaiting"
    /\ Transition("WAITING", "POLICY_RESOLUTION_REQUIRED", call.step, 0)
    /\ call' = Idle
    /\ UNCHANGED <<snapshot, steps, decision, history, counters>>

\* _record_failed_attempt and _record_failed_step for a Step a gate barred, or whose
\* attempts are used up.
BlameStep ==
    /\ call.pc = "blameStep"
    /\ steps' = Rewritten(call.step, "FAILED",
                    IF EndsIn(call.step, {"RUNNING"}) THEN SetAttempt(steps[call.step].atts, "PERMANENT")
                    ELSE steps[call.step].atts)
    /\ call' = [call EXCEPT !.pc = "endRun"]
    /\ UNCHANGED <<snapshot, run, decision, history, counters>>

\* transition_run to the terminal status: _fail_run, the end of _enforce_policy, of
\* _finalize_output and of _repair_output.
End ==
    /\ call.pc = "endRun"
    /\ Transition(call.end, NoReason, 0, IF call.end = "SUCCEEDED" THEN call.step ELSE 0)
    /\ call' = Idle
    /\ UNCHANGED <<snapshot, steps, decision, history, counters>>

------------------------------------------------------------------------------
(* Context Stages. *)

\* A Stage the Core cannot execute: the Run fails rather than skip it.
UnsupportedStage ==
    /\ call.pc = "unsupported"
    /\ steps' = IF call.step # 0 THEN steps
                ELSE Append(steps, [NewStep("CONTEXT", StageKey(call.stage))
                                        EXCEPT !.status = "FAILED"])
    /\ call' = EndRun("FAILED")
    /\ UNCHANGED <<snapshot, run, decision, history, counters>>

\* Step and attempt, before the provider is asked.
RecordContext ==
    /\ call.pc = "recordContext"
    /\ steps' = IF call.step = 0
                THEN Append(steps, [NewStep("CONTEXT", StageKey(call.stage))
                                        EXCEPT !.atts = <<"RUNNING">>])
                ELSE Rewritten(call.step, "RUNNING", Append(steps[call.step].atts, "RUNNING"))
    /\ call' = [call EXCEPT !.pc = "contextFinal",
                            !.step = IF call.step = 0 THEN Len(steps) + 1 ELSE call.step]
    /\ UNCHANGED <<snapshot, run, decision, history, counters>>

\* The provider reads the facts of the moment, which never stay the same: val is the
\* number of the reading.  It is not told which Stage asks.
Provided ==
    LET reading == SumFunction([i \in StepsOf("CONTEXT") |-> Len(steps[i].atts)]) IN
    <<[id |-> "a", source |-> "open", val |-> <<reading>>],
      [id |-> "p", source |-> "protected", val |-> <<reading>>]>>

Provide ==
    /\ call.pc = "provide"
    /\ steps' = Completed(call.step, Provided, "none", NoOutcome)
    /\ UNCHANGED <<snapshot, run, decision, history, counters>>
    /\ \E path \in {call.path}, model \in {call.model}, replay \in {call.replay} :
        call' = (IF path = "loop" THEN LoopEntry(model, replay) ELSE InputEntry(path))'

ProviderFails ==
    /\ call.pc = "provide" /\ failures < MaxFailures
    /\ steps' = Rewritten(call.step, "FAILED", SetAttempt(steps[call.step].atts, "PERMANENT"))
    /\ call' = EndRun("FAILED")
    /\ failures' = failures + 1
    /\ UNCHANGED <<snapshot, run, decision, history, holds, crashes, resolutions, torn>>

------------------------------------------------------------------------------
(* Model Steps. *)

\* The budget admits another attempt for this purpose.
Admitted(purpose) ==
    /\ snapshot.budget["RUN"] = NoLimit \/ AttemptsOf(StepsOf("MODEL")) < snapshot.budget["RUN"]
    /\ \/ snapshot.budget[purpose] = NoLimit
       \/ AttemptsOf(ModelSteps(purpose)) < snapshot.budget[purpose]

\* reserve_model_attempt, and the request leaves.
Reserve ==
    LET i == IF call.step = 0 THEN Len(steps) + 1 ELSE call.step IN
    /\ call.pc = "reserve" /\ Admitted(call.purpose)
    /\ steps' = IF call.step = 0
                THEN Append(steps, [NewStep("MODEL", <<call.purpose>>) EXCEPT !.atts = <<"RUNNING">>])
                ELSE Rewritten(i, "RUNNING", Append(steps[i].atts, "RUNNING"))
    /\ call' = [call EXCEPT !.pc = "model", !.step = i]
    /\ sent' = sent \cup {[purpose |-> call.purpose, tools |-> Cardinality(Done("TOOL")),
                           models |-> Cardinality(Done("MODEL")),
                           items |-> RequestItems(call.purpose)]}
    /\ UNCHANGED <<snapshot, run, decision, approved, effects, grants, counters>>

\* The budget is used up: the Step fails, and the Run with it.
ReserveRefused ==
    /\ call.pc = "reserve" /\ ~Admitted(call.purpose)
    /\ call' = FailModelStep(call.step, call.purpose)
    /\ UNCHANGED <<snapshot, storeVars, history, counters>>

\* The response is checkpointed.
Respond(reply) ==
    LET i == call.step IN
    /\ call.pc = "model"
    /\ reply \in IF call.purpose = "CONTEXT_COMPRESSION" THEN {"derived"}
                 ELSE {"good", "bad"} \cup
                      (IF call.purpose = "PRIMARY" /\ Rounds < MaxRounds THEN {"tool"} ELSE {})
    /\ steps' = Completed(i, IF reply = "derived" THEN Compressible ELSE <<>>, reply, NoOutcome)
    /\ UNCHANGED <<snapshot, run, decision, history, counters>>
    /\ call' = CASE reply = "derived" -> LoopEntry(0, FALSE)'
                 [] reply = "tool" -> At("toolGate", 0)
                 [] reply \in {"good", "bad"} -> [At("outputGate", i) EXCEPT !.left = call.left]

\* The adapter raises, or the response is no valid answer for its purpose.
ModelFails(failure) ==
    LET i == call.step IN
    /\ call.pc = "model" /\ failures < MaxFailures
    /\ steps' = Rewritten(i, steps[i].status, SetAttempt(steps[i].atts, failure))
    /\ call' = IF ShouldRetry(failure, Len(steps[i].atts)) THEN [call EXCEPT !.pc = "reserve"]
               ELSE FailModelStep(i, call.purpose)
    /\ failures' = failures + 1
    /\ UNCHANGED <<snapshot, run, decision, history, holds, crashes, resolutions, torn>>

\* _record_failed_step, with the attempt of a response that broke a strict contract.
FailModelStepRecorded ==
    /\ call.pc = "failModelStep"
    /\ steps' = IF call.step = 0
                THEN Append(steps, [NewStep("MODEL", <<call.purpose>>) EXCEPT !.status = "FAILED"])
                ELSE Rewritten(call.step, "FAILED",
                        IF EndsIn(call.step, {"SUCCEEDED"})
                        THEN Append(Front(steps[call.step].atts), "PERMANENT")
                        ELSE steps[call.step].atts)
    /\ call' = EndRun("FAILED")
    /\ UNCHANGED <<snapshot, run, decision, history, counters>>

\* _resume_running: the reservation without a Checkpoint becomes UNCERTAIN evidence.
UnconfirmModel ==
    /\ call.pc = "unconfirmModel"
    /\ steps' = Rewritten(call.step, steps[call.step].status,
                          SetAttempt(steps[call.step].atts, "UNCONFIRMED"))
    /\ UNCHANGED <<snapshot, run, decision, history, counters>>
    /\ call' = ResumeModel'

------------------------------------------------------------------------------
(* Tool Steps. *)

\* Step and attempt, before the tool is invoked.
RecordTool ==
    LET i == IF call.step = 0 THEN Len(steps) + 1 ELSE call.step IN
    /\ call.pc = "recordTool"
    /\ steps' = IF call.step = 0
                THEN Append(steps, [NewStep("TOOL", <<Rounds>>) EXCEPT !.atts = <<"RUNNING">>])
                ELSE Rewritten(i, "RUNNING", Append(steps[i].atts, "RUNNING"))
    /\ call' = [call EXCEPT !.pc = "toolFinal", !.step = i]
    /\ UNCHANGED <<snapshot, run, decision, history, counters>>

\* The tool does its work and returns an outcome that passes the Runner's checks (one
\* that does not is a ToolFails); outcomes are told apart by their number.
Invoke ==
    /\ call.pc = "invoke"
    /\ effects' = [effects EXCEPT ![Rounds] = @ + 1]
    /\ call' = [call EXCEPT !.pc = "outcomeGate", !.outcome = effects[Rounds] + 1]
    /\ UNCHANGED <<snapshot, storeVars, sent, approved, grants, counters>>

\* The tool raises, or what it returned is no valid outcome of this call.  Only a
\* TRANSIENT failure promises that nothing happened: PERMANENT is also what a bare
\* exception and the Runner's own checks after the dispatch are classified as.
ToolFails(failure, happened) ==
    LET i == call.step IN
    /\ call.pc = "invoke" /\ failures < MaxFailures
    /\ happened => failure # "TRANSIENT"
    /\ steps' = Rewritten(i, steps[i].status, SetAttempt(steps[i].atts, failure))
    /\ call' = IF failure = "UNCERTAIN" /\ snapshot.effect = "NON_IDEMPOTENT" THEN At("enterUncertain", i)
               ELSE IF ShouldRetry(failure, Len(steps[i].atts)) THEN At("toolGate", i)
               ELSE [At("blameStep", i) EXCEPT !.end = "FAILED",
                                               !.outcome = IF happened THEN effects[Rounds] + 1
                                                           ELSE NoOutcome]
    /\ effects' = [effects EXCEPT ![Rounds] = @ + (IF happened THEN 1 ELSE 0)]
    /\ failures' = failures + 1
    /\ UNCHANGED <<snapshot, run, decision, sent, approved, grants, holds, crashes, resolutions,
                   torn>>

\* _enter_waiting_preserving_failure, _enter_waiting_unconfirmed and
\* _enter_waiting_uncertain.
EnterUncertain ==
    LET i == call.step IN
    /\ call.pc = "enterUncertain"
    /\ steps' = Rewritten(i, "FAILED",
                    IF EndsIn(i, {"RUNNING"}) \/ ~HasAttempt(i, FailedAttempts)
                    THEN SetAttempt(steps[i].atts, "UNCERTAIN") ELSE steps[i].atts)
    /\ Transition("WAITING", "UNCERTAIN_NON_IDEMPOTENT", i, 0)
    /\ call' = Idle
    /\ UNCHANGED <<snapshot, decision, history, counters>>

\* _resume_running: an interrupted replayable attempt is recorded as UNCERTAIN.
UnconfirmTool ==
    /\ call.pc = "unconfirmTool"
    /\ steps' = Rewritten(call.step, "FAILED", SetAttempt(steps[call.step].atts, "UNCERTAIN"))
    /\ UNCHANGED <<snapshot, run, decision, history, counters>>
    /\ \E i \in {call.step} : call' = ToolEntry(i, TRUE)'

\* Fault: a released outcome gets an attempt of its own.
CheckpointTool_NewAttempt ==
    /\ call.pc = "checkpointTool"
    /\ steps' = [steps EXCEPT ![call.step] =
                    [@ EXCEPT !.status = "SUCCEEDED", !.done = TRUE, !.outcome = call.outcome,
                              !.atts = IF EndsIn(call.step, {"PENDING"}) THEN @
                                       ELSE SetAttempt(@, "SUCCEEDED")]]
    /\ UNCHANGED <<snapshot, run, decision, history, counters>>
    /\ \E path \in {call.path} :
        call' = (IF path = "continue" THEN ResumeRunning ELSE LoopEntry(0, FALSE))'

\* _checkpoint_tool_outcome; an outcome that was held keeps its attempt.  After
\* CONTINUE_RUN the call starts over from the journal, otherwise the loop goes on.
CheckpointTool ==
    /\ call.pc = "checkpointTool"
    /\ steps' = Completed(call.step, <<>>, "none", call.outcome)
    /\ UNCHANGED <<snapshot, run, decision, history, counters>>
    /\ \E path \in {call.path} :
        call' = (IF path = "continue" THEN ResumeRunning ELSE LoopEntry(0, FALSE))'

------------------------------------------------------------------------------
(* resolve_run. *)

\* CONTINUE_RUN of a Run the Policy holds.  A TOOL_OUTCOME hold without pending
\* evidence raises after the Run has been reopened, and leaves it RUNNING.
ContinueRun ==
    /\ call = Idle
    /\ run.status = "WAITING" /\ "CONTINUE_RUN" \in AllowedResolutions(run.reason)
    /\ Transition("RUNNING", NoReason, 0, 0)
    /\ call' = IF decision.gate = "TOOL_OUTCOME"
               THEN IF run.wstep \in HeldSteps
                    THEN [At("continueGate", run.wstep) EXCEPT
                            !.outcome = steps[run.wstep].outcome, !.path = "continue"]
                    ELSE Idle
               ELSE IF \E i \in DOMAIN steps : steps[i].done THEN ResumeRunning
               ELSE At("inputGate", 0)
    /\ UNCHANGED <<snapshot, steps, decision, history, counters>>

\* RETRY_STEP: the same Step, a new attempt, whatever its earlier ones were.
RetryStep ==
    /\ call = Idle
    /\ run.status = "WAITING" /\ "RETRY_STEP" \in AllowedResolutions(run.reason)
    /\ resolutions < MaxResolutions
    /\ Transition("RUNNING", NoReason, 0, 0)
    /\ call' = At("toolGate", run.wstep)
    /\ grants' = [grants EXCEPT ![Rounds] = @ + 1]
    /\ resolutions' = resolutions + 1
    /\ UNCHANGED <<snapshot, steps, decision, sent, approved, effects, holds, failures, crashes,
                   torn>>

\* CONFIRM_STEP: the application's word (outcome 0) passes the outcome gate, which is
\* told neither the Step nor an outcome to keep.
ConfirmStep ==
    /\ call = Idle
    /\ run.status = "WAITING" /\ "CONFIRM_STEP" \in AllowedResolutions(run.reason)
    /\ resolutions < MaxResolutions
    /\ Transition("RUNNING", NoReason, 0, 0)
    /\ call' = [At("confirmGate", run.wstep) EXCEPT !.outcome = 0]
    /\ resolutions' = resolutions + 1
    /\ UNCHANGED <<snapshot, steps, decision, history, holds, failures, crashes, torn>>

\* FAIL_RUN and CANCEL_RUN.
EndWaiting(status) ==
    /\ call = Idle /\ run.status = "WAITING"
    /\ Transition(status, NoReason, 0, 0)
    /\ UNCHANGED <<snapshot, steps, decision, call, history, counters>>

------------------------------------------------------------------------------
\* Where the journal does not tell a new call that the tool has acted: between the
\* FAILED Step of a barred or invalid outcome and the end of the Run, and between
\* CONFIRM_STEP reopening the Run and the Checkpoint of the application's word.
Unrecorded ==
    \/ call.pc = "endRun" /\ call.outcome # NoOutcome
    \/ call.pc \in {"confirmGate", "checkpointTool"} /\ call.outcome = 0

\* The process dies.
Crash ==
    /\ call # Idle /\ crashes < MaxCrashes
    /\ call' = Idle
    /\ crashes' = crashes + 1
    /\ torn' = (torn \/ Unrecorded)
    /\ UNCHANGED <<snapshot, storeVars, history, holds, failures, resolutions>>

\* A call under way goes on.
Advance ==
    \/ Start
    \/ \E action \in {"ALLOW", "REQUIRE_RESOLUTION", "REJECT", "fault"} : Decide(action)
    \/ RecordPending \/ EnterWaitingPolicy \/ BlameStep \/ End
    \/ UnsupportedStage \/ RecordContext \/ Provide \/ ProviderFails
    \/ Reserve \/ ReserveRefused \/ UnconfirmModel \/ FailModelStepRecorded
    \/ \E reply \in {"good", "bad", "tool", "derived"} : Respond(reply)
    \/ \E failure \in {"TRANSIENT", "PERMANENT"} : ModelFails(failure)
    \/ RecordTool \/ Invoke \/ EnterUncertain \/ UnconfirmTool \/ CheckpointTool
    \/ \E failure \in {"TRANSIENT", "PERMANENT", "UNCERTAIN"}, happened \in BOOLEAN :
        ToolFails(failure, happened)

\* The application starts, resumes or resolves a Run that is not finished.
Drive == StartRun \/ ResumeRun \/ ContinueRun \/ RetryStep \/ ConfirmStep
Abandon == \E status \in {"FAILED", "CANCELLED"} : EndWaiting(status)

Next == Advance \/ Drive \/ Abandon \/ Crash

Spec == Init /\ [][Next]_vars

\* Calls go on, and an application that waits for its Run drives it or gives up.
FairSpec == Spec /\ WF_vars(Advance) /\ WF_vars(Drive \/ Abandon)

------------------------------------------------------------------------------
(* Properties. *)

Places ==
    DOMAIN Gates \cup
    {"idle", "start", "recordPending", "enterWaiting", "blameStep", "endRun", "unsupported",
     "recordContext", "provide", "reserve", "model", "failModelStep", "unconfirmModel",
     "recordTool", "invoke", "enterUncertain", "unconfirmTool", "checkpointTool"}

\* Every variable has its type; the row carries a waiting reason exactly in WAITING,
\* and a Step when it waits on an uncertain effect.
TypeOK ==
    /\ run.status \in RunStatuses
    /\ run.reason \in WaitingReasons \cup {NoReason}
    /\ run.reason # NoReason <=> run.status = "WAITING"
    /\ run.wstep \in 0..Len(steps) /\ run.output \in 0..Len(steps)
    /\ run.reason = "UNCERTAIN_NON_IDEMPOTENT" => run.wstep \in StepsOf("TOOL") \ Done("TOOL")
    /\ \A i \in DOMAIN steps :
        /\ steps[i].type \in {"CONTEXT", "MODEL", "TOOL"}
        /\ steps[i].status \in {"RUNNING", "SUCCEEDED", "FAILED"}
        /\ Range(steps[i].atts) \subseteq AttemptStates
        /\ steps[i].done \in BOOLEAN
        /\ steps[i].outcome \in Int
    /\ call.pc \in Places /\ call.step \in 0..Len(steps)
    /\ call.pc \in BlamingGates \cup {"provide", "model", "invoke"} => call.step # 0

\* Facts are read once: requests for one purpose at one point of the loop carry the
\* same items, however often and by however many calls they are sent, although the
\* provider would answer differently every time.
FrameStable ==
    \A f, g \in sent :
        f.purpose = g.purpose /\ f.tools = g.tools /\ f.models = g.models => f.items = g.items

\* The items a compression was made from are still the ones its contract allows:
\* a later request never finds the Run's own compression evidence in violation of
\* the frozen contract.
EvidenceRevalidates ==
    CompressionStep \in Done("MODEL") => steps[CompressionStep].items = Compressible

\* Nothing becomes durable evidence or the Run's output unless the Policy's latest
\* answer about that very value was ALLOW, through holds, deaths and continuations,
\* and the output meets the frozen contract.
OnlyApproved ==
    /\ \A i \in Done("TOOL") : <<"TOOL_OUTCOME", <<steps[i].key[1], steps[i].outcome>>>> \in approved
    /\ run.status = "SUCCEEDED" =>
        /\ <<"FINAL_OUTPUT", run.output>> \in approved
        /\ run.output = Max(BusinessDone)
        /\ snapshot.output # "none" => steps[run.output].reply = "good"

\* A held outcome is not lost, replaced or forgotten: it stays the pending evidence of
\* its Step until it is checkpointed, verbatim.
HeldVerbatim ==
    [][\A i \in HeldSteps : /\ i \in HeldSteps' \/ steps'[i].done
                            /\ steps'[i].outcome = steps[i].outcome]_vars

\* A NON_IDEMPOTENT tool acts at most once, plus once per RETRY_STEP, also when the
\* Policy holds its request or its outcome.
EffectAtMostOnce ==
    snapshot.effect = "NON_IDEMPOTENT" /\ ~torn =>
        \A c \in 1..MaxRounds : effects[c] <= 1 + grants[c]

\* Deaths and holds do not buy repairs: the Run never has more OUTPUT_REPAIR Steps
\* than the frozen contract allows.
RepairBounded == Cardinality(ModelSteps("OUTPUT_REPAIR")) <= RepairMax

\* The Runner's comment in _execute_steps, which recovery does not meet (README, Known
\* disagreements): compression runs after the RUN_INPUT Stages and before the business
\* Model Step; so no business request is sent with a compressible item that was never
\* compressed.
CompressedBeforeBusiness ==
    call.pc = "model" /\ call.purpose = "PRIMARY" /\ Compressible # <<>> =>
        CompressionStep \in Done("MODEL")

\* The Run ends, whatever the Policy holds and whenever a call dies, as long as the
\* application keeps resolving and resuming it.
Terminates == <>(run.status \in TERMINAL_STATUSES)

=============================================================================
