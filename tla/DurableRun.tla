----------------------------- MODULE DurableRun -----------------------------
(***************************************************************************)
(* The Runner: how start_run, resume_run, resolve_run and cancel_run drive *)
(* one Run through Model and Tool Steps, in several processes that share   *)
(* the Run Store and may die, or lose their lease while still running,     *)
(* between any two store writes.                                           *)
(*                                                                         *)
(* One action is one store write with the reads and decisions around it:   *)
(* a read may be merged with the fenced write that follows it, since the   *)
(* write is refused unless version and lease are what they were.  pc names *)
(* the write (or the external call) a Runner is about to make.  RunStore   *)
(* shows why the fence is sound; here the lease has no clock: it is alive  *)
(* or it has expired.  Each Runner has an owner string of its own and      *)
(* makes one call at a time.                                               *)
(*                                                                         *)
(* The default AllowAll Policy gates, context, compression and output      *)
(* contracts are left out.  One Tool, of frozen Effect, is declared;       *)
(* IDEMPOTENT stands for READ_ONLY too, which the code treats alike.       *)
(***************************************************************************)
EXTENDS RunStatus, Integers, Sequences, FiniteSets, FiniteSetsExt

CONSTANTS
    Runners,
    Capable,         \* the Runners whose registry resolves the definition
    NoRunner,
    Effect,          \* the frozen ToolEffect
    FreshIds,        \* TRUE: the model never reuses a call_id in a later response
    MaxAttempts,     \* RetryPolicy.max_attempts, 0 for no policy
    ModelBudget,     \* ModelExecutionBudget.run_max_attempts
    MaxCalls,        \* bound on the tool calls of one response
    MaxRounds,       \* bound on the responses that request tools
    MaxFaults,       \* bound on deaths and on leases lost by a live Runner
    MaxResolutions,  \* bound on RETRY_STEP and CONFIRM_STEP
    MaxCancels       \* bound on cancel requests to an active Runner

ASSUME RunnersAssumption == Capable \subseteq Runners /\ NoRunner \notin Runners
ASSUME EffectAssumption ==
    Effect \in {"NON_IDEMPOTENT", "IDEMPOTENT"} /\ FreshIds \in BOOLEAN
ASSUME BoundsAssumption ==
    /\ MaxAttempts \in Nat
    /\ ModelBudget \in Nat
    /\ MaxCalls \in Nat
    /\ MaxRounds \in Nat
    /\ MaxFaults \in Nat
    /\ MaxResolutions \in Nat
    /\ MaxCancels \in Nat

VARIABLES
    run,      \* the Run row: [status, version, reason, wstep]
    lease,    \* [owner, live]
    steps,    \* the journal, in order of creation: a sequence of
              \* [type, status, call, atts, out]
    pc,       \* Runner -> where its call is
    loc,      \* Runner -> the locals of its call
    cancel,   \* Runner -> its cancel event for the Run is set
    \* history
    effects,  \* call -> how often the external effect happened
    grants,   \* call -> how often an application asked to RETRY it
    faults, resolutions, cancels,
    torn      \* a fault struck a call in an UnsafeWindow

vars == <<run, lease, steps, pc, loc, cancel, effects, grants, faults,
          resolutions, cancels, torn>>
countVars == <<faults, resolutions, cancels, torn>>
callVars == <<effects, grants>>

------------------------------------------------------------------------------
(* The journal. *)

Calls == (1..MaxRounds) \X (1..MaxCalls)   \* <<response, position>>
NoCall == <<0, 0>>
NoOut == -1     \* no Checkpoint; a Model Checkpoint holds the number of calls
FailedAttempts == {"TRANSIENT", "PERMANENT", "UNCERTAIN", "UNCONFIRMED"}
AttemptStates == {"RUNNING", "SUCCEEDED"} \cup FailedAttempts

StepsOf(t) == {i \in DOMAIN steps : steps[i].type = t}
Checkpointed(t) == {i \in StepsOf(t) : steps[i].out # NoOut}
LastOf(S) == IF S = {} THEN 0 ELSE Max(S)
LastAttempt(i) == steps[i].atts[Len(steps[i].atts)]
HasAttempt(i, S) == \E j \in DOMAIN steps[i].atts : steps[i].atts[j] \in S
EndsIn(i, S) == steps[i].atts # <<>> /\ LastAttempt(i) \in S

\* The call_id of a call.
CallId(c) == IF FreshIds THEN c ELSE c[2]

\* The calls of the last checkpointed model response.
LastCalls ==
    LET responses == Checkpointed("MODEL") IN
    IF responses = {} THEN {}
    ELSE {<<Cardinality(responses), k>> : k \in 1..steps[Max(responses)].out}

\* Calls of one response are executed in declaration order.
First(todo) == CHOOSE c \in todo : \A d \in todo : c[2] <= d[2]

\* Fault: calls already confirmed by a Checkpoint are not skipped.
Unconfirmed_Ignored == LastCalls

\* ... those whose call_id no Tool Checkpoint carries.
Unconfirmed ==
    LET ids == {CallId(steps[i].call) : i \in Checkpointed("TOOL")} IN
    {c \in LastCalls : CallId(c) \notin ids}

\* _should_retry: only a TRANSIENT failure, below the frozen maximum.
ShouldRetry(failure, n) == failure = "TRANSIENT" /\ n < MaxAttempts

\* Fault: the comparison is off by one.
RecoveryReplayAllowed_OffByOne(n) == n <= MaxAttempts

\* _recovery_replay_allowed: another attempt after an unconfirmed one.
RecoveryReplayAllowed(n) == n < MaxAttempts

------------------------------------------------------------------------------
(* Where a call goes on. *)

\* The place, the Step it works on (0: one still to be created), the calls it
\* has left to execute and what it does once the Step is recorded FAILED.
At(p, i, todo, next) == [pc |-> p, step |-> i, todo |-> todo, next |-> next]
Goto(p) == At(p, 0, {}, "idle")
FailStep(i, next) == At("recordFailedStep", i, {}, next)

\* _run_single_model_step on entry, for a Step that may have attempts.
ModelEntry(i) ==
    IF i # 0 /\ EndsIn(i, FailedAttempts) /\ ~ShouldRetry(LastAttempt(i), Len(steps[i].atts))
    THEN FailStep(i, "failRun")
    ELSE At("model", i, {}, "idle")

\* ... after its last attempt turned out to have no Checkpoint.
ModelRecovery(i) ==
    IF RecoveryReplayAllowed(Len(steps[i].atts))
    THEN At("model", i, {}, "idle")
    ELSE FailStep(i, "failRun")

\* _run_tool_step on entry: what the persisted attempts of the Step still allow.
ToolEntry(i, todo, replay) ==
    IF /\ i # 0
       /\ steps[i].atts # <<>>
       /\ IF replay THEN ~RecoveryReplayAllowed(Len(steps[i].atts))
          ELSE /\ EndsIn(i, FailedAttempts)
               /\ ~ShouldRetry(LastAttempt(i), Len(steps[i].atts))
    THEN FailStep(i, "failRun")
    ELSE At("tool", i, todo, "idle")

\* Fault: an interrupted NON_IDEMPOTENT Tool Step is replayed like any other.
ResumeTools_Replays(inflight) ==
    IF inflight # 0 /\ EndsIn(inflight, {"RUNNING"})
    THEN At("unconfirmTool", inflight, Unconfirmed, "replay")
    ELSE ToolEntry(inflight, Unconfirmed, FALSE)

\* Fault: a response that requested tools is taken as dealt with.
ResumeTools_Skips(inflight) == ModelEntry(0)

\* _resume_running, for a last response with unconfirmed calls; inflight is the
\* Tool Step found RUNNING, or 0.
ResumeTools(inflight) ==
    CASE inflight # 0 /\ Effect = "NON_IDEMPOTENT" ->
            \* _enter_waiting_preserving_failure
            IF EndsIn(inflight, {"RUNNING"}) \/ ~HasAttempt(inflight, FailedAttempts)
            THEN At("unconfirmTool", inflight, {}, "enterWaiting")
            ELSE FailStep(inflight, "enterWaiting")
      [] inflight # 0 /\ Effect # "NON_IDEMPOTENT" /\ EndsIn(inflight, {"RUNNING"}) ->
            At("unconfirmTool", inflight, Unconfirmed, "replay")
      [] OTHER -> ToolEntry(inflight, Unconfirmed, FALSE)

\* _resume_running: what the journal says is to be done next.
ResumePoint ==
    LET \* the Model Step whose newest attempt of interest has no Checkpoint;
        \* it is the last Model Step there is
        unconfirmed == LastOf({i \in StepsOf("MODEL") \ Checkpointed("MODEL") :
                                HasAttempt(i, {"RUNNING", "SUCCEEDED", "UNCONFIRMED"})})
        lastModel == LastOf(StepsOf("MODEL"))
        running(t) == LastOf({i \in StepsOf(t) : steps[i].status = "RUNNING"})
    IN IF unconfirmed # 0
       THEN IF EndsIn(unconfirmed, {"RUNNING", "SUCCEEDED"})
            THEN At("unconfirmModel", unconfirmed, {}, "idle")
            ELSE ModelRecovery(unconfirmed)
       ELSE IF lastModel # 0 /\ steps[lastModel].status = "FAILED" THEN Goto("failRun")
       ELSE IF Checkpointed("MODEL") = {} THEN ModelEntry(running("MODEL"))
       ELSE IF LastCalls = {} THEN Goto("succeed")
       ELSE IF Unconfirmed = {} THEN ModelEntry(0)
       ELSE ResumeTools(running("TOOL"))

------------------------------------------------------------------------------
(* Calls and their store writes. *)

\* quiet: the call releases its lease when it raises (_release_quietly);
\* asked (history): cancel_run reached this very call.
NoLoc == [ver |-> 0, step |-> 0, todo |-> {}, next |-> "idle", out |-> NoOut,
          quiet |-> FALSE, asked |-> FALSE]

Init ==
    /\ run = [status |-> "CREATED", version |-> 1, reason |-> NoReason, wstep |-> 0]
    /\ lease = [owner |-> NoRunner, live |-> FALSE]
    /\ steps = <<>>
    /\ pc = [r \in Runners |-> "idle"]
    /\ loc = [r \in Runners |-> NoLoc]
    /\ cancel = [r \in Runners |-> FALSE]
    /\ effects = [c \in Calls |-> 0]
    /\ grants = [c \in Calls |-> 0]
    /\ faults = 0 /\ resolutions = 0 /\ cancels = 0
    /\ torn = FALSE

\* The store lets a mutation or a dispatch of the call through.
Fenced(r) == lease = [owner |-> r, live |-> TRUE] /\ loc[r].ver = run.version

\* Fault: another owner's expired lease cannot be taken over.
LeaseAvailable_NoTakeover(r) == lease.owner \in {NoRunner, r}

LeaseAvailable(r) == lease.owner \in {NoRunner, r} \/ ~lease.live

Continue(r, at) ==
    /\ pc' = [pc EXCEPT ![r] = at.pc]
    /\ loc' = [loc EXCEPT ![r].step = at.step, ![r].todo = at.todo, ![r].next = at.next,
                          ![r].out = NoOut]

\* An idle Runner reads the record and acquires the lease at its version.
Acquire(r, quiet, at) ==
    /\ pc[r] = "idle"
    /\ LeaseAvailable(r)
    /\ lease' = [owner |-> r, live |-> TRUE]
    /\ pc' = [pc EXCEPT ![r] = at.pc]
    /\ loc' = [loc EXCEPT ![r] = [ver |-> run.version, step |-> at.step, todo |-> at.todo,
                                  next |-> at.next, out |-> NoOut, quiet |-> quiet,
                                  asked |-> FALSE]]

\* transition_run by the call, which goes on with the new version.
Transition(r, status, reason, wstep, at) ==
    /\ Fenced(r)
    /\ run' = [status |-> status, version |-> run.version + 1, reason |-> reason,
               wstep |-> wstep]
    /\ pc' = [pc EXCEPT ![r] = at.pc]
    /\ loc' = [loc EXCEPT ![r] = IF at.pc = "idle" THEN NoLoc
                                 ELSE [@ EXCEPT !.ver = run.version + 1, !.step = at.step,
                                                !.todo = at.todo, !.next = at.next]]

\* The attempt being worked on gets its final state; without one, a new
\* attempt is appended with it.
SetAttempt(atts, s) ==
    IF atts # <<>> /\ atts[Len(atts)] = "RUNNING"
    THEN [atts EXCEPT ![Len(atts)] = s]
    ELSE Append(atts, s)

------------------------------------------------------------------------------
(* start_run and resume_run. *)

\* start_run; resume_run of a CREATED Run takes the same way.
StartRun(r) ==
    /\ run.status = "CREATED" /\ r \in Capable
    /\ Acquire(r, FALSE, Goto("start"))
    /\ UNCHANGED <<run, steps, cancel, callVars, countVars>>

\* _start_with_lease.
Start(r) ==
    /\ pc[r] = "start"
    /\ Transition(r, "RUNNING", NoReason, 0, ModelEntry(0))
    /\ UNCHANGED <<lease, steps, cancel, callVars, countVars>>

\* Fault: resume_run does not look for a terminal status.
ResumeRun_Terminal(r) ==
    /\ run.status \in TERMINAL_STATUSES \cup {"RUNNING"}
    /\ Acquire(r, FALSE, IF r \in Capable THEN ResumePoint ELSE Goto("definitionUnavailable"))
    /\ UNCHANGED <<run, steps, cancel, callVars, countVars>>

\* resume_run of a Run nobody finished.
ResumeRun(r) ==
    /\ run.status = "RUNNING"
    /\ Acquire(r, FALSE, IF r \in Capable THEN ResumePoint ELSE Goto("definitionUnavailable"))
    /\ UNCHANGED <<run, steps, cancel, callVars, countVars>>

\* resume_run of a CREATED Run whose definition the registry does not have.
ResumeUndefined(r) ==
    /\ run.status = "CREATED" /\ r \notin Capable
    /\ Acquire(r, FALSE, Goto("definitionUnavailable"))
    /\ UNCHANGED <<run, steps, cancel, callVars, countVars>>

\* _enter_waiting_definition_unavailable; the lease is kept.
EnterWaitingDefinitionUnavailable(r) ==
    /\ pc[r] = "definitionUnavailable"
    /\ Transition(r, "WAITING", "DEFINITION_UNAVAILABLE", 0, Goto("idle"))
    /\ UNCHANGED <<lease, steps, cancel, callVars, countVars>>

\* resume_run of a Run that waits for its definition, by a Runner that has it.
ResumeDefined(r) ==
    /\ run.status = "WAITING" /\ run.reason = "DEFINITION_UNAVAILABLE"
    /\ r \in Capable
    /\ Acquire(r, FALSE, Goto("reopen"))
    /\ UNCHANGED <<run, steps, cancel, callVars, countVars>>

Reopen(r) ==
    /\ pc[r] = "reopen"
    /\ Transition(r, "RUNNING", NoReason, 0, ResumePoint)
    /\ UNCHANGED <<lease, steps, cancel, callVars, countVars>>

------------------------------------------------------------------------------
(* Model Steps. *)

\* reserve_model_attempt: Step and attempt become RUNNING in one transaction.
ReserveModelAttempt(r) ==
    LET i == loc[r].step
        used == SumFunction([j \in StepsOf("MODEL") |-> Len(steps[j].atts)])
    IN
    /\ pc[r] = "model" /\ ~cancel[r] /\ Fenced(r)
    /\ \/ /\ used < ModelBudget
          /\ IF i = 0
             THEN /\ steps' = Append(steps, [type |-> "MODEL", status |-> "RUNNING",
                                             call |-> NoCall, atts |-> <<"RUNNING">>,
                                             out |-> NoOut])
                  /\ Continue(r, At("dispatchModel", Len(steps) + 1, {}, "idle"))
             ELSE /\ steps' = [steps EXCEPT ![i].status = "RUNNING",
                                            ![i].atts = Append(@, "RUNNING")]
                  /\ Continue(r, At("dispatchModel", i, {}, "idle"))
       \/ /\ used >= ModelBudget
          /\ Continue(r, FailStep(i, "failRun"))
          /\ steps' = steps
    /\ UNCHANGED <<run, lease, cancel, callVars, countVars>>

\* prepare_model_dispatch, and the request leaves.
DispatchModel(r) ==
    /\ pc[r] = "dispatchModel" /\ ~cancel[r] /\ Fenced(r)
    /\ pc' = [pc EXCEPT ![r] = "modelInFlight"]
    /\ UNCHANGED <<run, lease, steps, loc, cancel, callVars, countVars>>

\* The response, with n tool calls, arrives and the Step is recorded SUCCEEDED.
ModelReturns(r, n) ==
    /\ pc[r] = "modelInFlight" /\ Fenced(r)
    /\ n > 0 => Cardinality(Checkpointed("MODEL")) < MaxRounds
    /\ steps' = [steps EXCEPT ![loc[r].step].status = "SUCCEEDED"]
    /\ pc' = [pc EXCEPT ![r] = "recordModelAttempt"]
    /\ loc' = [loc EXCEPT ![r].out = n]
    /\ UNCHANGED <<run, lease, cancel, callVars, countVars>>

RecordModelAttempt(r) ==
    /\ pc[r] = "recordModelAttempt" /\ Fenced(r)
    /\ steps' = [steps EXCEPT ![loc[r].step].atts = SetAttempt(@, "SUCCEEDED")]
    /\ pc' = [pc EXCEPT ![r] = "checkpointModel"]
    /\ UNCHANGED <<run, lease, loc, cancel, callVars, countVars>>

\* Fault: the cancel event is not looked at after the Checkpoint.
CheckpointModel_NoBoundary(r) ==
    LET round == Cardinality(Checkpointed("MODEL")) + 1
        n == loc[r].out
    IN
    /\ pc[r] = "checkpointModel" /\ Fenced(r)
    /\ steps' = [steps EXCEPT ![loc[r].step].out = n]
    /\ Continue(r, IF n = 0 THEN Goto("succeed")
                   ELSE At("tool", 0, {<<round, k>> : k \in 1..n}, "idle"))
    /\ UNCHANGED <<run, lease, cancel, callVars, countVars>>

\* The Model Checkpoint, then a safe boundary: cancel, finish or call the tools.
CheckpointModel(r) ==
    LET round == Cardinality(Checkpointed("MODEL")) + 1
        n == loc[r].out
    IN
    /\ pc[r] = "checkpointModel" /\ Fenced(r)
    /\ steps' = [steps EXCEPT ![loc[r].step].out = n]
    /\ Continue(r, IF cancel[r] THEN Goto("cancelRun")
                   ELSE IF n = 0 THEN Goto("succeed")
                   ELSE At("tool", 0, {<<round, k>> : k \in 1..n}, "idle"))
    /\ UNCHANGED <<run, lease, cancel, callVars, countVars>>

\* The adapter raises, the response breaks the contract (PERMANENT), or a
\* cancelled dispatch or stream is given up (PERMANENT): the attempt is recorded
\* FAILED.  UNCERTAIN is treated like PERMANENT here.
ModelFails(r, failure) ==
    /\ \/ pc[r] = "modelInFlight"
       \/ pc[r] = "dispatchModel" /\ cancel[r] /\ failure = "PERMANENT"
    /\ Fenced(r)
    /\ steps' = [steps EXCEPT ![loc[r].step].atts = SetAttempt(@, failure)]
    /\ Continue(r, IF cancel[r] THEN FailStep(loc[r].step, "cancelRun")
                   ELSE IF ShouldRetry(failure, Len(steps[loc[r].step].atts))
                   THEN At("model", loc[r].step, {}, "idle")
                   ELSE FailStep(loc[r].step, "failRun"))
    /\ UNCHANGED <<run, lease, cancel, callVars, countVars>>

\* _resume_running marks the attempt that has no Checkpoint.
UnconfirmModel(r) ==
    /\ pc[r] = "unconfirmModel" /\ Fenced(r)
    /\ steps' = [steps EXCEPT ![loc[r].step].atts = [@ EXCEPT ![Len(@)] = "UNCONFIRMED"]]
    /\ Continue(r, ModelRecovery(loc[r].step))
    /\ UNCHANGED <<run, lease, cancel, callVars, countVars>>

------------------------------------------------------------------------------
(* Tool Steps. *)

\* record_step(RUNNING) before anything leaves.
BeginToolStep(r) ==
    LET i == loc[r].step IN
    /\ pc[r] = "tool" /\ ~cancel[r] /\ Fenced(r)
    /\ IF i = 0
       THEN /\ steps' = Append(steps, [type |-> "TOOL", status |-> "RUNNING",
                                       call |-> First(loc[r].todo), atts |-> <<>>,
                                       out |-> NoOut])
            /\ Continue(r, At("beginAttempt", Len(steps) + 1, loc[r].todo, "idle"))
       ELSE /\ steps' = [steps EXCEPT ![i].status = "RUNNING"]
            /\ Continue(r, At("beginAttempt", i, loc[r].todo, "idle"))
    /\ UNCHANGED <<run, lease, cancel, callVars, countVars>>

BeginToolAttempt(r) ==
    /\ pc[r] = "beginAttempt" /\ Fenced(r)
    /\ steps' = [steps EXCEPT ![loc[r].step].atts = Append(@, "RUNNING")]
    /\ pc' = [pc EXCEPT ![r] = "dispatchTool"]
    /\ UNCHANGED <<run, lease, loc, cancel, callVars, countVars>>

\* assert_lease and tool.invoke: the effect happens at some time before the
\* tool answers, or never.
InvokeTool(r, happens) ==
    LET c == First(loc[r].todo) IN
    /\ pc[r] = "dispatchTool" /\ ~cancel[r] /\ Fenced(r)
    /\ pc' = [pc EXCEPT ![r] = IF happens THEN "toolActed" ELSE "toolIdle"]
    /\ effects' = [effects EXCEPT ![c] = @ + (IF happens THEN 1 ELSE 0)]
    /\ UNCHANGED <<run, lease, steps, loc, cancel, grants, countVars>>

\* The tool answers; _checkpoint_tool_outcome records the Step SUCCEEDED.  For
\* CONFIRM_STEP the application's result takes the place of the answer.
ToolReturns(r) ==
    /\ pc[r] \in {"toolActed", "confirm"} /\ Fenced(r)
    /\ steps' = [steps EXCEPT ![loc[r].step].status = "SUCCEEDED"]
    /\ pc' = [pc EXCEPT ![r] = "recordToolAttempt"]
    /\ UNCHANGED <<run, lease, loc, cancel, callVars, countVars>>

RecordToolAttempt(r) ==
    /\ pc[r] = "recordToolAttempt" /\ Fenced(r)
    /\ steps' = [steps EXCEPT ![loc[r].step].atts = SetAttempt(@, "SUCCEEDED")]
    /\ pc' = [pc EXCEPT ![r] = "checkpointTool"]
    /\ UNCHANGED <<run, lease, loc, cancel, callVars, countVars>>

\* The Tool Checkpoint; then the next call in order, or the next model round.
CheckpointTool(r) ==
    LET rest == loc[r].todo \ {First(loc[r].todo)} IN
    /\ pc[r] = "checkpointTool" /\ Fenced(r)
    /\ steps' = [steps EXCEPT ![loc[r].step].out = 0]
    /\ Continue(r, IF rest = {} THEN ModelEntry(0) ELSE ToolEntry(0, rest, FALSE))
    /\ UNCHANGED <<run, lease, cancel, callVars, countVars>>

\* The tool raises, or what it returned is no valid outcome of this call.  Only a
\* TRANSIENT failure promises that nothing happened: PERMANENT is also what a bare
\* exception and the Runner's own checks after the dispatch are classified as.
ToolFails(r, failure) ==
    LET i == loc[r].step IN
    /\ \/ pc[r] = "toolIdle"
       \/ pc[r] = "toolActed" /\ failure # "TRANSIENT"
    /\ Fenced(r)
    /\ steps' = [steps EXCEPT ![i].atts = SetAttempt(@, failure)]
    /\ Continue(r, IF failure = "UNCERTAIN" /\ Effect = "NON_IDEMPOTENT"
                   THEN FailStep(i, "enterWaiting")
                   ELSE IF cancel[r] THEN FailStep(i, "cancelRun")
                   ELSE IF ShouldRetry(failure, Len(steps[i].atts))
                   THEN At("tool", i, loc[r].todo, "idle")
                   ELSE FailStep(i, "failRun"))
    /\ UNCHANGED <<run, lease, cancel, callVars, countVars>>

\* _resume_running and _enter_waiting_unconfirmed: the interrupted attempt is
\* recorded as UNCERTAIN.
UnconfirmTool(r) ==
    /\ pc[r] = "unconfirmTool" /\ Fenced(r)
    /\ steps' = [steps EXCEPT ![loc[r].step].atts = SetAttempt(@, "UNCERTAIN")]
    /\ pc' = [pc EXCEPT ![r] = "recordFailedStep"]
    /\ UNCHANGED <<run, lease, loc, cancel, callVars, countVars>>

------------------------------------------------------------------------------
(* The ends of a call. *)

\* _record_failed_step.
RecordFailedStep(r) ==
    LET i == loc[r].step IN
    /\ pc[r] = "recordFailedStep" /\ Fenced(r)
    /\ steps' = IF i = 0
                THEN Append(steps, [type |-> "MODEL", status |-> "FAILED", call |-> NoCall,
                                    atts |-> <<>>, out |-> NoOut])
                ELSE [steps EXCEPT ![i].status = "FAILED"]
    /\ Continue(r, IF loc[r].next = "replay" THEN ToolEntry(i, loc[r].todo, TRUE)
                   ELSE At(loc[r].next, i, {}, "idle"))
    /\ UNCHANGED <<run, lease, cancel, callVars, countVars>>

\* _enter_waiting_uncertain: the lease is kept, a pending cancel is dropped.
EnterWaitingUncertain(r) ==
    /\ pc[r] = "enterWaiting"
    /\ Transition(r, "WAITING", "UNCERTAIN_NON_IDEMPOTENT", loc[r].step, Goto("idle"))
    /\ cancel' = [cancel EXCEPT ![r] = FALSE]
    /\ UNCHANGED <<lease, steps, callVars, countVars>>

\* _fail_run; _terminate_run(FAILED).
FailRun(r) ==
    /\ pc[r] = "failRun"
    /\ Transition(r, "FAILED", NoReason, 0, Goto("release"))
    /\ UNCHANGED <<lease, steps, cancel, callVars, countVars>>

\* _maybe_cancel at a safe boundary, and where one has been decided on;
\* _terminate_run(CANCELLED); cancel_run of a CREATED Run.
MaybeCancel(r) ==
    /\ \/ pc[r] = "cancelRun"
       \/ pc[r] \in {"model", "tool", "dispatchTool"} /\ cancel[r]
    /\ Transition(r, "CANCELLED", NoReason, 0, Goto("release"))
    /\ UNCHANGED <<lease, steps, cancel, callVars, countVars>>

\* _finalize_output without an output contract.
FinalizeOutput(r) ==
    /\ pc[r] = "succeed"
    /\ Transition(r, "SUCCEEDED", NoReason, 0, Goto("release"))
    /\ UNCHANGED <<lease, steps, cancel, callVars, countVars>>

\* release_lease after a terminal transition; a mismatch raises.  The cancel
\* event is of no use any more.
ReleaseLease(r) ==
    /\ pc[r] = "release"
    /\ lease' = IF lease.owner = r /\ loc[r].ver = run.version
                THEN [owner |-> NoRunner, live |-> FALSE] ELSE lease
    /\ pc' = [pc EXCEPT ![r] = "idle"]
    /\ loc' = [loc EXCEPT ![r] = NoLoc]
    /\ cancel' = [cancel EXCEPT ![r] = FALSE]
    /\ UNCHANGED <<run, steps, callVars, countVars>>

\* The store refuses a write or a dispatch: StaleRunVersionError or
\* LeaseNotHeldError ends the call.
Refused(r) ==
    /\ pc[r] \notin {"idle", "dead", "release"} /\ ~Fenced(r)
    /\ lease' = IF loc[r].quiet /\ lease.owner = r
                THEN [owner |-> NoRunner, live |-> FALSE] ELSE lease
    /\ pc' = [pc EXCEPT ![r] = "idle"]
    /\ loc' = [loc EXCEPT ![r] = NoLoc]
    /\ UNCHANGED <<run, steps, cancel, callVars, countVars>>

------------------------------------------------------------------------------
(* resolve_run and cancel_run. *)

\* FAIL_RUN and CANCEL_RUN (also cancel_run of a WAITING Run).
ResolveEnd(r) ==
    /\ run.status = "WAITING"
    /\ \E action \in AllowedResolutions(run.reason) \cap {"FAIL_RUN", "CANCEL_RUN"} :
        Acquire(r, TRUE, Goto(IF action = "FAIL_RUN" THEN "failRun" ELSE "cancelRun"))
    /\ UNCHANGED <<run, steps, cancel, callVars, countVars>>

\* RETRY_STEP and CONFIRM_STEP, up to the lease.
ResolveUncertain(r) ==
    /\ run.status = "WAITING" /\ r \in Capable
    /\ resolutions < MaxResolutions
    /\ Unconfirmed # {}
    /\ \E action \in AllowedResolutions(run.reason) \cap {"RETRY_STEP", "CONFIRM_STEP"} :
        Acquire(r, TRUE, At(action, run.wstep, {First(Unconfirmed)}, "idle"))
    /\ resolutions' = resolutions + 1
    /\ UNCHANGED <<run, steps, cancel, callVars, faults, cancels, torn>>

\* _resolve_uncertain_continue reopens the Run for the one target call.
ReopenResolved(r) ==
    LET c == First(loc[r].todo) IN
    /\ pc[r] \in {"RETRY_STEP", "CONFIRM_STEP"}
    /\ Transition(r, "RUNNING", NoReason, 0,
                  At(IF pc[r] = "RETRY_STEP" THEN "tool" ELSE "confirm",
                     loc[r].step, loc[r].todo, "idle"))
    /\ grants' = [grants EXCEPT ![c] = @ + (IF pc[r] = "RETRY_STEP" THEN 1 ELSE 0)]
    /\ UNCHANGED <<lease, steps, cancel, effects, countVars>>

\* cancel_run of a CREATED Run: at once, or, if another owner holds the lease,
\* by setting the local event.
CancelCreated(r) ==
    /\ run.status = "CREATED" /\ pc[r] = "idle"
    /\ cancels < MaxCancels
    /\ \/ Acquire(r, TRUE, Goto("cancelRun")) /\ UNCHANGED cancel
       \/ /\ ~LeaseAvailable(r)
          /\ cancel' = [cancel EXCEPT ![r] = TRUE]
          /\ UNCHANGED <<lease, pc, loc>>
    /\ cancels' = cancels + 1
    /\ UNCHANGED <<run, steps, callVars, faults, resolutions, torn>>

\* Where an advancing call really suspends, so that the same process can run
\* cancel_run: the external calls, the pause before a retry, and the dispatch
\* gates, after which the code reads the event again.
SuspensionPoints ==
    {"modelInFlight", "toolActed", "toolIdle", "model", "tool", "dispatchModel", "dispatchTool"}

\* cancel_run while this Runner advances the Run.
RequestCancel(r) ==
    /\ run.status \in {"CREATED", "RUNNING"}
    /\ pc[r] \in SuspensionPoints /\ ~cancel[r]
    /\ cancels < MaxCancels
    /\ cancel' = [cancel EXCEPT ![r] = TRUE]
    /\ loc' = [loc EXCEPT ![r].asked = TRUE]
    /\ cancels' = cancels + 1
    /\ UNCHANGED <<run, lease, steps, pc, callVars, faults, resolutions, torn>>

------------------------------------------------------------------------------
(* Faults. *)

\* Between these writes the journal of a NON_IDEMPOTENT call says neither
\* "in flight" nor "confirmed": before its Checkpoint, and once its Step is
\* recorded FAILED, until the Run waits or ends.
UnsafeWindow(r) ==
    \/ pc[r] \in {"recordToolAttempt", "checkpointTool", "enterWaiting", "confirm"}
    \/ pc[r] \in {"failRun", "cancelRun"} /\ loc[r].step \in StepsOf("TOOL")

\* The process dies.
Crash(r) ==
    /\ pc[r] \notin {"idle", "dead"}
    /\ faults < MaxFaults
    /\ pc' = [pc EXCEPT ![r] = "dead"]
    /\ loc' = [loc EXCEPT ![r] = NoLoc]
    /\ cancel' = [cancel EXCEPT ![r] = FALSE]
    /\ faults' = faults + 1
    /\ torn' = (torn \/ UnsafeWindow(r))
    /\ UNCHANGED <<run, lease, steps, callVars, resolutions, cancels>>

\* A process comes back with the same owner string.
Restart(r) ==
    /\ pc[r] = "dead"
    /\ pc' = [pc EXCEPT ![r] = "idle"]
    /\ UNCHANGED <<run, lease, steps, loc, cancel, callVars, countVars>>

\* lease_ttl runs out: for a call that is gone ...
Expire ==
    /\ lease.live /\ pc[lease.owner] \in {"idle", "dead"}
    /\ lease' = [lease EXCEPT !.live = FALSE]
    /\ UNCHANGED <<run, steps, pc, loc, cancel, callVars, countVars>>

\* ... or under a call that is merely slow (no lease is ever renewed).
Overrun ==
    /\ lease.live /\ pc[lease.owner] \notin {"idle", "dead"}
    /\ faults < MaxFaults
    /\ lease' = [lease EXCEPT !.live = FALSE]
    /\ faults' = faults + 1
    /\ torn' = (torn \/ UnsafeWindow(lease.owner))
    /\ UNCHANGED <<run, steps, pc, loc, cancel, callVars, resolutions, cancels>>

------------------------------------------------------------------------------
\* A call in progress goes on: neither the store nor an external call hangs.
Advance(r) ==
    \/ Start(r) \/ EnterWaitingDefinitionUnavailable(r) \/ Reopen(r)
    \/ ReserveModelAttempt(r) \/ DispatchModel(r)
    \/ \E n \in 0..MaxCalls : ModelReturns(r, n)
    \/ RecordModelAttempt(r) \/ CheckpointModel(r)
    \/ \E f \in {"TRANSIENT", "PERMANENT"} : ModelFails(r, f)
    \/ UnconfirmModel(r)
    \/ BeginToolStep(r) \/ BeginToolAttempt(r)
    \/ \E happens \in BOOLEAN : InvokeTool(r, happens)
    \/ ToolReturns(r) \/ RecordToolAttempt(r) \/ CheckpointTool(r)
    \/ \E f \in {"TRANSIENT", "PERMANENT", "UNCERTAIN"} : ToolFails(r, f)
    \/ UnconfirmTool(r)
    \/ RecordFailedStep(r) \/ EnterWaitingUncertain(r)
    \/ FailRun(r) \/ MaybeCancel(r) \/ FinalizeOutput(r)
    \/ ReleaseLease(r) \/ Refused(r) \/ ReopenResolved(r)

\* The application starts or resumes the Run.
Drive(r) == StartRun(r) \/ ResumeRun(r) \/ ResumeDefined(r)

\* Commands and faults nobody is obliged to.
Disturb(r) ==
    \/ ResumeUndefined(r) \/ ResolveEnd(r) \/ ResolveUncertain(r)
    \/ CancelCreated(r) \/ RequestCancel(r)
    \/ Crash(r) \/ Restart(r)

Next ==
    \/ Expire \/ Overrun
    \/ \E r \in Runners : Advance(r) \/ Drive(r) \/ Disturb(r)

Spec == Init /\ [][Next]_vars

\* Calls go on, leases of calls that are gone expire, a process that has the
\* definition is started again after its death, and the application keeps
\* driving a Run that is not finished.
Fairness ==
    /\ \A r \in Runners : WF_vars(Advance(r))
    /\ WF_vars(Expire)
    /\ WF_vars(\E r \in Capable : Restart(r))
    /\ WF_vars(\E r \in Capable : Drive(r))

FairSpec == Spec /\ Fairness

------------------------------------------------------------------------------
(* Properties. *)

PCs ==
    {"idle", "dead", "start", "definitionUnavailable", "reopen", "model", "dispatchModel",
     "modelInFlight", "recordModelAttempt", "checkpointModel", "unconfirmModel", "tool",
     "beginAttempt", "dispatchTool", "toolActed", "toolIdle", "confirm", "recordToolAttempt",
     "checkpointTool", "unconfirmTool", "recordFailedStep", "enterWaiting", "failRun",
     "cancelRun", "succeed", "release", "RETRY_STEP", "CONFIRM_STEP"}

\* Every variable has its type; the row carries a waiting reason exactly in
\* WAITING and names a Step exactly when it waits on an uncertain effect.
TypeOK ==
    /\ run.status \in RunStatuses /\ run.version \in Nat
    /\ run.reason \in WaitingReasons \cup {NoReason}
    /\ run.reason # NoReason <=> run.status = "WAITING"
    /\ run.wstep \in 0..Len(steps)
    /\ run.wstep # 0 <=> run.reason = "UNCERTAIN_NON_IDEMPOTENT"
    /\ lease \in [owner : Runners \cup {NoRunner}, live : BOOLEAN]
    /\ \A i \in DOMAIN steps :
        /\ steps[i].type \in {"MODEL", "TOOL"}
        /\ steps[i].status \in {"RUNNING", "SUCCEEDED", "FAILED"}
        /\ steps[i].call \in Calls \cup {NoCall}
        /\ \A j \in DOMAIN steps[i].atts : steps[i].atts[j] \in AttemptStates
        /\ steps[i].out \in NoOut..MaxCalls
    /\ pc \in [Runners -> PCs]
    /\ \A r \in Runners : loc[r].step \in 0..Len(steps) /\ loc[r].ver \in 0..run.version
    /\ cancel \in [Runners -> BOOLEAN]
    /\ effects \in [Calls -> Nat] /\ grants \in [Calls -> Nat]

\* The heart of durable execution: the effect of a NON_IDEMPOTENT call happens
\* at most once, plus once for every RETRY_STEP an application asked for, through
\* any sequence of crashes, lost leases, takeovers and resumptions, as long as
\* none of them strikes in one of the UnsafeWindows of the code.
EffectAtMostOnce ==
    Effect = "NON_IDEMPOTENT" /\ ~torn => \A c \in Calls : effects[c] <= 1 + grants[c]

\* What the Runner's documentation says: recovery never replays an unconfirmed
\* non-idempotent effect by itself.
NeverReplaysUnconfirmed ==
    Effect = "NON_IDEMPOTENT" => \A c \in Calls : effects[c] <= 1 + grants[c]

\* A call whose outcome is in a Checkpoint is never dispatched again, by no
\* Runner, late or new.
ConfirmedNeverRedispatched ==
    [][\A c \in Calls : effects'[c] > effects[c] =>
            \A i \in Checkpointed("TOOL") : steps[i].call # c]_vars

\* The attempts of one Step, whoever made them and across restarts, stay within
\* the frozen maximum; only an application's resolution adds to it.
StepBudget ==
    \A i \in DOMAIN steps :
        Len(steps[i].atts) <= (IF MaxAttempts = 0 THEN 1 ELSE MaxAttempts) + resolutions

\* The documented form, which the code does not meet (README, Known disagreements):
\* restarts do not reset the budget, so the attempts for
\* one logical model response, over all Steps that tried to produce it, stay
\* within the maximum.  (A Step made for response n follows n - 1 Checkpoints.)
LogicalModelBudget ==
    LET response(i) == Cardinality({j \in Checkpointed("MODEL") : j < i}) IN
    \A i \in StepsOf("MODEL") :
        SumFunction([j \in {k \in StepsOf("MODEL") : response(k) = response(i)} |->
                        Len(steps[j].atts)])
            <= IF MaxAttempts = 0 THEN 1 ELSE MaxAttempts

\* The model is asked again only with the outcomes of all calls it requested.
AllCallsAnswered ==
    \A r \in Runners : pc[r] = "modelInFlight" /\ Fenced(r) =>
        \A c \in LastCalls : \E i \in Checkpointed("TOOL") : steps[i].call = c

\* ... which the code keeps as long as no RETRY_STEP or CONFIRM_STEP intervenes.
AllCallsAnsweredUnresolved == resolutions = 0 => AllCallsAnswered

\* A Run that waits on an uncertain effect points at the Step of the very call
\* that a resolution would act on: the first unconfirmed one.
WaitingStepIsTarget ==
    run.reason = "UNCERTAIN_NON_IDEMPOTENT" /\ ~torn =>
        /\ Unconfirmed # {}
        /\ steps[run.wstep].call = First(Unconfirmed)
        /\ steps[run.wstep].out = NoOut

\* A call that was asked to cancel while a Step was under way does not let the
\* Run succeed, whatever it still had to record.
AskedCallNeverSucceeds ==
    [][run'.status = "SUCCEEDED" /\ run.status # "SUCCEEDED" => ~loc[lease.owner].asked]_vars

\* The documented form, which the code does not meet (README, Known disagreements):
\* a registered cancellation blocks the commit of SUCCEEDED.
CancelBlocksSuccess ==
    [][run'.status = "SUCCEEDED" /\ run.status # "SUCCEEDED" => ~cancel[lease.owner]]_vars

\* The Runner never asks the store for a transition outside the table, so no
\* call dies of IllegalRunTransitionError half way.
RespectsTransitionTable ==
    [][run'.version # run.version => LegalTransition(run.status, run'.status)]_vars

\* A driven Run does not stay in progress for ever: it ends or waits for the
\* application, whatever crashes and takeovers happen on the way and whoever
\* left a lease behind.
Settles == []<>(run.status \in TERMINAL_STATUSES \cup {"WAITING"})

=============================================================================
