# M-Agent in TLA+

M-Agent is an embeddable runtime for *durable* agent runs: a `Runner` drives a Run (a loop of
model calls and tool calls) and writes every fact to a `RunStore`, so that another process can
take the Run over after a crash. Companions build on it: Sessions (conversations made of Runs),
routing (which model a Run is created with) and evaluation (suites of Runs, judged). This project
models the parts whose correctness depends on interleavings, crashes and takeovers, checks them
with TLC on small instances, and proves the safety properties of the store, the Runner's effects,
Sessions, evaluation and routing with TLAPS for all instances.

## 1. The system

| Part | State it keeps | Operations | Interacts with |
|---|---|---|---|
| Run Store (`adapters/_sqlite_store.py`, `_in_memory_store.py`, `_store.py`) | one row per Run (status, version, waiting reason and Step, lease owner and expiry), Steps, Attempts, Checkpoints, Policy decisions | `create_run`, `get_run`, `acquire_lease`, `release_lease`, `assert_lease`, `prepare_model_dispatch`, `transition_run`, `record_*`, `reserve_model_attempt` | shared by Runners of all processes; every mutation is conditioned on version and lease |
| Run status (`_status.py`, `_resolution.py`) | none: the transition table and the allowed resolutions | `validate_transition`, `allowed_resolutions` | consulted by store and Runner |
| Runner (`_runner.py`) | in memory only: active calls, cancel events, subscribers | `start_run`, `resume_run`, `cancel_run`, `resolve_run` | store, model adapters, tools, policy, context providers |
| Policy (`_policy.py`) | decisions in the store | gates at the input, the context, tool requests, tool outcomes and the final output; ALLOW, REJECT, REQUIRE_RESOLUTION | called by the Runner |
| Context, compression, output (`_context*.py`, `_compression.py`, `_output.py`) | Steps and Checkpoints of their own types | Context Stages, a compression Step, output repair around a Model Step | called by the Runner |
| Model, tools, definitions (`_model.py`, `_tools.py`, `_definition.py`) | frozen values in the Run's snapshot | validation, budgets, effects, retry policy | read by the Runner |
| Updates, telemetry, sync facade | subscriber queues, spans, an event-loop thread | publish, subscribe, run | observe a Run, never change it |
| Sessions (`companion/_session*.py`, `_*session_store.py`) | Session version, turns, one claim per Session | `submit`, `resume`, `commit_status` over `claim_run`, `commit_turn`, `release_claim` | Runner and Run Store, a store of its own; no transaction spans both |
| Routing (`companion/routing`) | decisions with their evidence, run bindings, replacements | route, fall back, save, bind, replace, publish a recommendation | before a Run is created; reads evidence snapshots, binds Runs afterwards |
| Evaluation (`companion/eval`) | execution, observations, evaluator results, report revisions, all append-only | `run_suite`, `resume_execution`, compare with a baseline | Runner, an isolated Session per item, a store of its own |
| Providers (`provider/`) | none | translate requests and responses | model adapters |
| Acceptance pack, legacy framework | - | release tooling, old API | - |

What is hard: several processes advance one Run with nothing but a lease and a version between
them; a process may die, or lose its lease while it is still working, between any two commits;
an external effect cannot be taken back, so after a crash the journal alone must tell whether a
call may be made again; cancellation and application resolutions arrive at any time; retry,
repair and model budgets are counted over all of this. The companions add a second and a third
store that no transaction joins to the first, and evidence that grows old between being read and
being used. `PROJECT.json` lists the hazards with their lines.

What makes the parts correct:

* store: one live lease per Run; nothing is written or dispatched for a former owner; versions
  identify records; the row only moves along the transition table; budgets are not overdrawn;
* Runner: a NON_IDEMPOTENT effect is not repeated without the application asking for it; a
  confirmed call is not repeated at all; all calls of a response are answered before the model is
  asked again; attempts stay within the frozen maximum; a cancelled call does not succeed; a
  resolution acts on the call the Run waits for; a driven Run ends or waits;
* policy: nothing is released on the strength of an answer about something else; a held outcome
  is kept verbatim;
* context, compression, output: a fact is read once however often a request is repeated;
  compression evidence stays valid; deaths and holds do not buy repairs; the Run still ends;
* sessions: the history is linear, each Run saw exactly what precedes its turn, no successful Run
  loses its turn, a claim does not block the Session for ever;
* evaluation: one execution holds the evidence of one Suite; a record says what the Run says; a
  verdict answers the question that was asked; missing evidence never passes; an interrupted
  execution can be finished;
* routing: only sound evidence counts; the selected Variant is the best by the policy and serves
  the requirements in one request; the audit trail is complete and never rewritten.

## 2. Modules

| Module | Content |
|---|---|
| `RunStatus` | the vocabulary and the tables of `_status.py` and `_resolution.py`; no state |
| `RunLifecycle` | abstract specification: what an observer of the Run row may see |
| `RunStore` | the store under concurrent callers with a clock; refines `RunLifecycle` |
| `RunStoreProofs` | the theorems about `RunStore` |
| `DurableRun` | the Runner's control flow on one Run, in several processes, with crashes, lost leases, cancellation and resolutions |
| `DurableRunProofs` | attempts, transitions and cancellation in `DurableRun` |
| `DurableEffectsProofs` | effects, confirmed calls, answers and the waiting Step in `DurableRun` |
| `ContextFrame` | pure operators: Stages, the Frame of a request, compression, the window |
| `GatedRun` | the same loop for one driver under Policy gates, Context Stages, compression and output repair, with deaths and holds |
| `GatedRunProofs` | the theorems about `GatedRun` |
| `Conversation` | abstract specification: what a reader of one Session may see |
| `SessionTurns` | SessionRunners of several processes on one Session; refines `Conversation` |
| `SessionTurnsProofs` | the theorems about `SessionTurns`, with the refinement |
| `EvalVerdict` | pure operators: expansion of a Suite, evidence projection, verdicts, gates, reports |
| `EvalRun` | engines of several processes on one Eval Execution |
| `EvalRunProofs` | the theorems about `EvalRun` |
| `ModelMatch` | pure operators: capabilities, requirements, matching |
| `ModelRouter` | the Router as a function of catalog, policies, evidence and time |
| `Routing` | applications that route, save, create Runs and bind them while the inputs change |
| `RouterProofs` | what a match and a selection guarantee, for all inputs |
| `RoutingProofs` | the theorems about `Routing` |
| `MC...` | instances for TLC |

`GatedRun`, `SessionTurns`, `EvalRun` and `Routing` extend `RunStatus`; `EvalRun` extends
`EvalVerdict`, `Routing` extends `ModelRouter` and `ModelMatch`, `GatedRun` extends
`ContextFrame`. What `RunStore` establishes (one driver, refused late commits) is what the
others assume of the store.

Operators named `X_Something` directly before `X` are plausible faults of `X`. No action uses
them; they document what each property is able to notice.

### RunStore

A *caller* is one advancing call of a Runner. It knows only the record (`view`) and the lease
(`expiry`) the store gave it. One action is one store operation. In both adapters an operation runs
without a suspension point, and in SQLite it is one conditional statement or one `BEGIN IMMEDIATE`
transaction, so it is one step; the exception is SQLite's `record_policy_decision`, modelled as
`CheckPolicyDecision` and `InsertPolicyDecision`. A refused operation raises and changes nothing, so
it is no step. `Return` ends a call (also by a crash). `holder`, `acts` and `decisions` are history
variables. Payloads are left out, but for the purpose of a model attempt, by which
`ReserveModelAttempt` counts: the frozen budget has a maximum for the Run and one per purpose, each
of which may be absent (`NoLimit`), and `RecordAttempt` rewrites attempts without touching what was
counted. `assert_lease` and the external call that follows it have no suspension point between them
and are one action.

### DurableRun

`pc[r]` names the store write, or the external call, that Runner `r` is about to make; each action
performs one write together with the decisions up to the next one. A read is merged with the fenced
write that follows: if anything relevant changed in between, the write is refused (`Refused`). The
journal is a sequence of Steps with their attempts; Checkpoints are the `out` field of their Step.
The attempt states merge status and classification (`UNCONFIRMED` is a FAILED attempt with
`model_checkpoint_unconfirmed`). `ResumePoint` is the analysis of the journal in `_resume_running`;
`ModelEntry` and `ToolEntry` are the checks on entry to `_run_single_model_step` and
`_run_tool_step`. The calls a Runner still has to execute (`todo`) are a set it works off in
declaration order (`First`). `InvokeTool` chooses whether the effect happens; only a failure
classified as TRANSIENT promises that it did not. A call that acted may fail as UNCERTAIN or as
PERMANENT: the Runner checks what the tool returned (`_runner.py` 3466-3479) and an outcome that is
no `ToolOutcome`, or one of another call, raises after the effect. `Crash` is the death of the
process, `Overrun` the loss of the lease under a call that goes on (the Runner never renews),
`Expire` the end of a lease nobody uses.

Abstractions: the lease is alive or expired (RunStore has the clock); every Runner has its own owner
string and makes one call at a time; a cancel request arrives only where a call really suspends
(`SuspensionPoints`); UNCERTAIN model failures are treated as PERMANENT ones, as the code does; the
model budget admits every attempt and the default policy allows everything; no context, compression
or output contract (those are in `GatedRun`).

`UnsafeWindow` names the places between two commits where the journal of a NON_IDEMPOTENT call
says neither "in flight" nor "confirmed": between the SUCCEEDED Step and the Checkpoint, after the
CONFIRM_STEP reopening, and between the FAILED Step of a call and the Run that waits, fails or is
cancelled for it (3517-3522, 3540-3546, 3528-3531). The behaviours include faults there; the history
variable `torn` remembers that one struck, and `EffectAtMostOnce` is claimed when none did.
The run `replay` shows that the condition is needed.

### ContextFrame and GatedRun

`GatedRun` has one action per place where the loop of `_execute_steps` writes or calls out
(`call.pc`). `Decide` is `_enforce_policy` at any gate: it records the decision and goes on, holds
the Run (`RecordPending`, `EnterWaitingPolicy`), rejects it or fails it. `Provide` runs a Context
Stage; the provider answers differently each time, so that reading a fact twice would show.
`Reserve`/`Respond`/`ModelFails` are a Model Step of one of three purposes (PRIMARY,
CONTEXT_COMPRESSION, OUTPUT_REPAIR); when the budget of the Snapshot, for the Run or for the
purpose, does not admit another attempt, `ReserveRefused` fails the Step and then the Run.
`Invoke`/`ToolFails`/`CheckpointTool` are a Tool Step; as in `DurableRun` a call may fail after it
acted, also PERMANENTly. `ResumeRun` and `ContinueRun` are the analyses of the journal in
`_resume_running` and `resolve_run`. A Snapshot fixes which of the features a Run has; the run
enumerates a set of them. `Plan` and `Due` are the frozen plan, with the legacy Stage that stands
for a provider without one, and its Stages that have no Checkpoint at this point of the loop;
`StageResults` is what the others returned, by Step number, from which `ContextFrame` aggregates a
Frame. Every write to an existing Step is `Rewritten` (status and attempts) or `Completed` (with its
Checkpoint), but for `RecordPending`. The writes that complete a Step are one action here and
separate actions in `DurableRun`; here too `torn` marks the windows in which the journal does not
tell that a tool has acted, the one between the FAILED Step of a call that acted and the end of the
Run included.

### SessionTurns and Conversation

A worker is a SessionRunner; one action is one operation of the Session store, of the Run Store
or of the Runner. `submit` is `ReadVersion`, `ReadTurns`, `ClaimRun`, `CreateRun`,
`AcquireLease`, `RunBegins`, `RunReturns`, `CommitTurn`; `resume` is `GetSession`, `GetRun`,
`CleanUp` or driving, then the commit; `commit_status` is `StatusVersion` to `StatusRun`. Every
path that releases the claim or leaves it for later is an action. `ApplicationDrives` is the
application resolving a Run behind the companion's back. The abstract `Conversation` has `turns`
and, for each, the turns its Run was shown; the refinement mapping reads the latter from the
history variable `shown`. `CreateRunFails` is a `create_run` that left no Run; that SQLite's
`create_run` commits and then fails to decode its own row, so that `submit` releases the claim of
a Run that exists, is left out.

### EvalVerdict and EvalRun

An engine works through the items of the Suite it was given: find or make the observation (an
isolated Session, looked for and created in separate steps, a subject Run, inspection), then find or
make each evaluator's result (deterministic or a Judge Run); once `run_suite` has returned, its
caller may publish the report. The identities of Runs and records do not depend on the Suite's
content, so engines with different Suites meet. Records carry the time they were made, hence a
second record is always a conflict. `Fail` is a death, an expired lease or an unavailable store;
`LeaveClaim` is a Session store that fails after the subject succeeded, which the code swallows.
FAILED stands for all unsuccessful terminal statuses.

### ModelMatch, ModelRouter and Routing

`ModelRouter` follows `_router.py` stage by stage (candidates, requirements, deployment,
retention, evidence, hard gates, ranking, tie break) and returns a decision with its trace, or the
reason why there is none. `Routing` puts it between changing inputs: time passes, snapshots
arrive, a recommendation is published as a new policy, a Variant is registered for it, and an
application may restart between routing, saving, creating the Run, binding and replacing it.
Snapshots and bindings stand for their digests by name.

## 3. Runs

| Run | Question | Bounds | Result |
|---|---|---|---|
| `store_lease` | exclusion, fencing, versions, refinement of the life cycle | 2 callers, clock to 3, TTL 1, versions to 4 | holds |
| `store_journal` | the model budget under racing reservations | 2 callers, 2 attempts, 3 purposes, 1 attempt for the Run, none for compression, no limit for the others | holds |
| `effects` | effects, confirmed calls, answers, waiting Step | 2 Runners, NON_IDEMPOTENT, 2 faults, 2 calls, 1 resolution | holds |
| `commands` | attempts per Step, cancellation, missing definition, legality of transitions, liveness | 2 Runners (one lacks the definition), IDEMPOTENT, 2 attempts, 2 calls, 1 fault, 1 cancel | holds |
| `gated` | stable Frames, valid compression evidence, approvals, held outcomes, effects, repairs, termination | window of 5 items, 2 repairs, 2 attempts, and one each of tool round, hold, failure, death, resolution | holds |
| `sessions` | linear history, no lost turn, final conflicts, refinement of the conversation, claims settle | 2 workers, 2 Runs, 1 fault | holds |
| `eval_engines` | one Suite, faithful observations, accounted turns, verdicts as asked, a report in line with the evidence | 2 engines, 2 Suites, 2 projection policies, 1 fault | holds |
| `eval_resume` | honest reports, executions finish | 1 engine, 3 Suites (2 repetitions, 2 cases, a Judge beside a deterministic evaluator), 2 projection policies, 1 fault | holds |
| `routing` | sound evidence, best candidate, capabilities, audit trail | 7 setups, 1 application, 2 Runs, 2 decisions, time to 1, 3 catalog entries | holds |
| `replay` | no automatic replay of an unconfirmed effect, unconditionally | 1 fault, 1 call | violated |
| `skipped_calls` | all calls answered, with resolutions | 2 calls, 1 resolution, no fault | violated |
| `session_overlap` | at most one active Run per Session | 2 workers, 2 Runs, no fault | violated |

The violated ones state what a document or comment of the repository says; `PROJECT.json`
(`findings`) quotes the line and describes the counterexample. `TypeOK` of `DurableRun`,
`GatedRun`, `EvalRun` and `Routing` describes their state and is not an invariant of these runs;
it can be added to any of their configurations.

Bounds. Two callers, Runners, workers or engines are enough for takeovers and late commits (an
old and a new owner); two faults reach the loss of a lease during a recovery from an earlier
fault; a clock of three ticks with TTL 1 reaches grant, expiry, takeover and a second expiry; four
versions reach WAITING and back. Two calls in a response are needed for "the first is confirmed,
the second is not"; one round of tools is followed by a final response. `FreshIds` is the
assumption that the model does not use a call id again in a later response (see Known
disagreements). `MaxAttempts = 2` distinguishes a first attempt, a retry and an exhausted policy;
`MaxAttempts = 1` keeps `effects` small and is a policy that never retries. In `gated` the
Snapshots differ in plan, sources of compression, output contract, effect and model budget
(unlimited, or used up by retries, replays or repairs), and a window of five
items is large enough for every Frame but the longest. Two Runs make a Session in which the second
turn may meet a stale snapshot, a lost answer or a removed claim of the first. The Suites of the
evaluation runs share their identity and differ in cases, evaluators and repetitions. The routing setups
cover each gate with sound, stale, tampered, future and missing evidence, capabilities that cannot
be combined and one Contract under two fingerprints. Symmetry (over Runners, attempts, engines, Runs)
is used only in runs without liveness.

Deadlock is checked in the evaluation runs, where an engine may always be called again. Elsewhere
the system may stop: a Run that is finished, a Session whose identities are used up, routing
whose bound of decisions is reached, or a Run that waits for its application for ever.

Fairness.

* `commands` (`Settles`): weak fairness of `Advance`, a call in progress goes on (the Runner has no
  timeout, so the model and the tools are assumed to answer); of `Expire`, time passes; of driving
  by a capable Runner, and of starting one again after its death: the documentation leaves
  scheduling to the application, so `Settles` speaks of a Run the application keeps resuming. The
  Runner that lacks the definition need not come back, and may die with the lease in its hands.
* `gated` (`Terminates`): weak fairness of `Advance`, and of `Drive \/ Abandon`: the application
  resolves, resumes or ends a Run that waits; which of them it does is left open.
* `sessions` (`ClaimSettles`): weak fairness of each worker's `Advance`; strong fairness of some
  worker's `GetSession`: the companion has no scheduler, its docs ask the application to call
  `resume` on a Session with a claim, and other calls may occupy the workers in between.
* `eval_resume` (`ExecutionFinishes`): weak fairness of each engine's `Advance`; strong fairness of
  starting an engine again, and of `ExecuteItem` and of `ExecuteJudge \/ ExecuteEvaluator`:
  engines configured without the Definition or the evaluator may come again and again, but not
  only those. `PublishReport` is not fair: the report is the business of `run_suite`'s caller. The
  property excuses an execution only where the code refuses to go on: a Run waits for the
  application, or an engine is about to meet a Judge Run that was created with another input
  (`MeetsOtherInput`; `run_judge` raises).

## 4. Proofs

Every theorem holds for arbitrary sets of callers, Runners, workers, engines, applications, Runs,
Steps and attempts and for any value of the bounds, from the named assumptions of the module it is
about. TLC checks the same definitions on the instances of section 3.

### RunStoreProofs

* `TypeCorrect`: `Spec => []TypeOK`.
* `LeaseExclusionHolds`, `FencingHolds`, assuming `DistinctOwners` (each call presents an owner
  of its own; without it exclusion fails, see Known disagreements). Exclusion is not inductive:
  the strengthening `LeasesAreTheRow` says that the lease row stems from `holder` and that a
  RunLease that has not run out *is* the lease row. A grant then finds no other live lease, a
  release ends the only one, and a tick only shrinks the set of live leases. A call that passes
  the fence presents the owner of the row, hence is the holder.
* `NoStaleDecisionHolds`, without any assumption on owners. The strengthening `ViewsAreHistory`
  (no caller holds a record newer than the row) makes the new version of a transition one that
  nobody holds.
* `BudgetHolds`: the model attempts of the Run, and those of each purpose, stay within their
  maxima. The counts are cardinalities of sets of attempts, so the proof also needs that they are
  finite and that a rewritten attempt keeps its purpose.
* `LifecycleHolds`: `Spec => LifecycleSpec`, the refinement of `RunLifecycle`, step by step.

### DurableRunProofs and DurableEffectsProofs

The store lets at most one call through (`Fenced`). So the invariants say two kinds of things:
what the journal satisfies in every state, and what the call that is let through, wherever it is,
knows of the journal. All other calls may be as stale as they like.

* `StepBudgetHolds`, `RespectsTransitionTableHolds`, `AskedCallNeverSucceedsHolds` rest on `IInv`:
  the types; a Runner without a call knows nothing (`IdleClean`); a cancel request stands until
  the call ends (`Asked`); a Step that is RUNNING, or that the Run waits on, has not succeeded
  (`AttemptsHonest`); and `Duties`: for each place of the fenced call, the status of the Run and
  whether its Step may still have an attempt. `StepBudget` alone is not inductive, since an attempt
  is appended several writes after the policy was consulted.
* `EffectAtMostOnceHolds`, `WaitingStepIsTargetHolds`, `AllCallsAnsweredUnresolvedHolds` and
  `ConfirmedNeverRedispatchedHolds` rest on `JInv` besides. `Journal` relates the Steps: at most one
  Tool Step is RUNNING and it belongs to the first unconfirmed call, an open Model Step is the last
  one and leaves nothing unanswered behind, a Run waits on the Step of the first unconfirmed call.
  `Works` says which of these Steps the fenced call works on. `EffectInv` adds where the journal
  keeps the trace of an effect that happened and that no application has allowed to repeat: its
  Checkpoint, a RUNNING Step, the Step the Run waits on, or a call between two writes of the
  `UnsafeWindow`, a call about to fail or cancel the Run for its Tool Step among them; and a call
  about to be dispatched has no such effect behind it (`Unowed`).

The four theorems of the second group have the hypothesis `FreshIds`: with a reused `call_id` a
new call is taken for a confirmed one (see Known disagreements). `EffectAtMostOnce` speaks of
behaviours in which no fault struck the `UnsafeWindow`; the run `replay` shows that it must.

### GatedRunProofs

For every set of Snapshots (any Context Plan, compression contract, output contract and effect),
every window, retry policy and bound, from `GatedAssumption` alone: plans are sequences of Stages
with known scopes, a plan comes with a provider, and the bounds are natural numbers.

* `Invariant`: `Spec => []IInv`, on which everything else here rests. One driver may die anywhere
  and the next one sees only the journal, so `IInv` says what the journal tells. `Journal`: no model
  is asked before the inputs are read; there is one compression, made when nothing but inputs had
  been read; at most one Model Step is in doubt, it lies behind every response, and no call is open
  then; an open call belongs to the last response and has at most one Step RUNNING; repairs follow
  a response and have attempts, except the one the budget refused, which ends the Run (`Unspent`,
  `Refusal`). `Waiting`: a Run that waits can be taken up. `AtPlace`: what a call
  relies on at each value of `call.pc`, that is, what the analyses of `_resume_running` must
  establish before they go there. The lemmas named `...Good` show that they do (`LoopEntry`,
  `ResumeJournal`, `ResumeRunning`, `ValidateOutput` and so on lead only to places whose conditions
  hold); they are stated of a state and used for the next one as well, since a call reads the
  journal after its own write.
* `TypesCorrect`: `Spec => []TypeOK`.
* `RepairsAreBounded`: `RepairBounded` is part of `IInv` together with the allowance a repair loop
  has in hand (`AtModel`, `AtOutput`). A recovered loop counts attempts rather than Steps, which
  suffices as every repair Step has one (`RepairsUsed`).
* `HeldOutcomesSurvive`: at a place with an open call and a held outcome, the call carries that
  outcome verbatim (`AtTool`), and no other place rewrites its Step.
* `EffectsAtMostOnce` rests on `EffectsKnown`: with a call open and no Step of it RUNNING, the tool
  has been granted what it does next, unless the row or the call still knows that it acted. A call
  that fails after it acted knows it until the Run has ended (`Blamed`).
* `OnlyApprovedReleased` rests on `ApprovalsKept`: the value a call is about to checkpoint or to
  release has been allowed, no later answer about another value withdraws it, and the open call
  has no Checkpoint a hold could speak of.
* `EvidenceStaysValid` rests on `EvidenceKept`: once a compression is done the inputs are complete
  and the boundaries of all later Stages are above zero, so no later result joins the base items.
* `FramesAreStable` rests on `FramesKept`: a business request that was sent at this point of the loop
  was sent with no Stage due, so no Stage is read until a response or an outcome begins a new point.
  That the Frame stays the same needs only that it is a function of the Checkpoints; what sorting,
  flattening and selecting compute is not looked into.
* `TransitionsAreLegal`: the row changes only along the transition table. `GatedRun` writes the row
  without consulting the table, which `transition_run` does; the theorem shows that the check
  would refuse none of these writes.

### SessionTurnsProofs

* `TypeCorrect`, `LinearHistoryHolds`, `NothingForgottenHolds`, `ConflictIsFinalHolds`.
* `ConversationHolds`: `Spec => ConversationSpec`, the refinement of `Conversation`.

`SessionInv`: the version is the number of turns; a snapshot that was read is a prefix of the turns
and at least as long as the version read before it, so a claim that succeeds proves it current; a
claim carries the current version, and its Run, once created, was shown the present turns; a Run
about to be created has one creator and is claimed or robbed of its claim; a Run called CONFLICT
has neither claim nor turn.

### EvalRunProofs

* `OneSuiteHolds`, `ObservationFaithfulHolds`, `TurnAccountedHolds`, `JudgedAsAskedHolds`.
* `ReportHonestHolds`: behind a report or a case that passes, every evaluator of every item passed,
  and a deterministic one on a complete observation.
* `ReportFollowsEvidenceHolds`: the gates of a published report are the worst of the results on
  record for all items of the Suite, the hard and the other ones apart, at all times after.

The invariant `IInv` says where a call is in the loops of `run_suite` and that its Suite is the stored
one; that a Run it is in exists and is its item's subject, or a Judge with the input it would have
sent; that a terminal status it saw is final; and that a record about to be written agrees with the
Run. `SuiteAssumption` is what `_case.py` (143, 183, 215, 216) validates: Suites have cases and
variants, cases have repetitions and evaluators. `SubjectAssumption` keeps the model's names of
subject and Judge Runs apart, whose identities the code derives with different prefixes.

`ReportHonestHolds` needs a second invariant on top, `RInv`: a stored result, and one about to be
stored, names its item and passes only with its observation complete (`Honest`); no observation is
a sample; a call has results for everything before its place in the loops (`Passed`), hence for
everything when it publishes. That a report passes only if all results do is a lemma chain about
the operators (`WorstFacts`, `RepetitionFacts`, `CaseFacts`, `ReportFacts`), by set reasoning, as
the worst of a set of outcomes needs no induction. `EvaluatorAssumption` is what an evaluator or
Judge binding declares (a Boolean `hard`, requirements among the evidence fields);
`ItemAssumption` is what `expand` (`_case.py` 228-257) and the unique case ids (219-223) give: an
item is a repetition of the case it names. TLC evaluates both on every instance.

`ReportFollowsEvidenceHolds` adds `ReportBuilt`: the report on record is what
`build_report_revision` makes of the evidence on record *now*. That is kept because records only
grow and a call that publishes has every result already (`StepGrows`, `BuiltStep`). What is left is
that the nested folds, over evaluators, repetitions and case-and-variant, are one fold
(`WorstUnion`, then `GateOfRepetition`, `GateOfCase`, `GateOfReport`), for which
`ExpansionAssumption` is needed: every repetition of every case is an item.

### RouterProofs and RoutingProofs

* `MatchServes`, `SelectionIsSound`, `SelectionIsBest`, `SelectionServes`: statements about the
  pure operators `Match` and `Select` for every well-typed catalog, policy, evidence and time.
  `SelectionIsBest` shows that the comparator is a total order over the candidates, so that the
  sort has a unique first element.
* `SoundEvidenceOnlyHolds`, `BestSelectedHolds`, `SelectedServesHolds`: these properties look at
  old decisions with today's catalog and policies. They survive because the inputs only grow and
  identities keep naming the same entry and policy (`InputsGrow`, `Known`).
* `StoredAsMadeHolds`, `RunsAccountedHolds`, `AuditTrailGrowsHolds`.

`InputAssumption` gives the inputs the fields and ranges their pydantic classes enforce
(`IsEntry`, `IsPolicy`, `IsSnapshot`, `IsBinding`).

### Only model-checked

* Liveness (`Settles`, `Terminates`, `ClaimSettles`, `ExecutionFinishes`): fairness is outside what
  the prover supports.
* What the recursive definitions, and the sorted, flattened or filtered sequences of a Frame,
  compute: that needs induction over data.

All other properties of the passing runs are stated by a theorem.

## 5. Known disagreements

Statements of the repository that the code does not meet. The first three have a run each; the
next are definitions that can be put in place of a run's property to see the counterexample.

| Definition | Code | Statement |
|---|---|---|
| `DurableRun.NeverReplaysUnconfirmed` (run `replay`), `DurableRun.AllCallsAnswered` (run `skipped_calls`), `SessionTurns.SingleActiveRun` (run `session_overlap`) | see `findings` | see `findings` |
| `DurableRun.LogicalModelBudget`, with `MaxRounds = 1` and `MaxAttempts = 2` | `_runner.py` 1797: only the first Model Step is taken up again | `docs/durable-run.md` 274, 278 |
| `DurableRun.CancelBlocksSuccess`, with `MaxCancels = 1` | `_runner.py` 1724: resume goes on without looking at a registered cancel event | `docs/durable-run.md` 89 |
| `RunStore.PolicyFencing` | `_sqlite_store.py` 1171: the INSERT does not repeat the lease check | `_runner.py` 23-26 |
| `RunStore.LeaseExclusion` with `OwnerOf <- SharedOwnerOf` | `_in_memory_store.py` 93: same owner, new lease | `_runner.py` 20-22, `docs/durable-run.md` 120 |
| `GatedRun.CompressedBeforeBusiness` | `_runner.py` 1701-1717: a death before the compression Step, or a hold and CONTINUE_RUN, resumes at the business Step | comment at 1845-1847, `docs/acceptance-coverage-matrix.md` 46 |
| `Routing.DecisionReproducible` | `_router.py` 503-512: the id does not contain the time of the decision | docstring at 245-252 |
| `DurableRun.AllCallsAnswered` with `FreshIds = FALSE`, `MaxRounds = 2` (no run has these values) | `_runner.py` 1733: confirmed calls are matched over all responses | `_model.py` 948-955 checks one response |

Met while modelling, in the model as the code has it, without a property of their own:

* Runner: a confirmed outcome held after CONFIRM_STEP has no pending evidence, so CONTINUE_RUN
  raises and leaves the Run RUNNING, and a resume executes the tool again (`torn`); so does a death
  between the FAILED Step of a barred outcome, or of a call that acted and failed PERMANENTly, and
  the end of the Run. A request held at the final
  gate is later treated as uncertain although it was never sent. A cancellation at a gate leaves a
  Step RUNNING. A retry policy may add attempts beyond the maximum of a repair. `apply_compression`
  drops items of later Stages that share an id with a consumed one.
* Evaluation: a Judge Run that waits is recorded as a failed evaluation, against the comment in
  `_judge.py` 180-182; a Judge is asked, and may pass, about an observation without
  evidence, as `run_judge` (`_judge.py` 167-250) does not look at its completeness, so
  `ReportHonest` promises a complete observation only behind deterministic evaluators.
* Routing: a different binding of a bound Run is appended by the in-memory store and refused by
  SQLite; of two entries of one Variant with different deployments only the first is looked at; an
  announced price hides the current one and aborts the routing; `bind` compares only the PRIMARY
  Contract; replacements may form a cycle.

## 6. Not modelled

* `inspect_run`, updates and subscriptions, telemetry, the synchronous facade: they observe a Run
  and nothing authoritative reads what they keep.
* `_fail_compression_evidence`: it needs evidence changed behind the Runner's back;
  `EvidenceRevalidates` shows that the Runner's own evidence never leads there.
* The SQLite schema migration: one transaction of schema statements; what is left to check is
  SQLite's own atomicity.
* Schemas, argument and JSON validation, codecs, measurement and rendering of context, provider
  adapters: pure functions of data the models leave out; their failures are choices of the model,
  the tool or the provider.
* Routing's cost estimates other than the worst case, and the stability score, which is treated
  like the quality score; evaluation's REPLAY and OBSERVE modes beyond the observations they make;
  the comparison of report revisions (`_baseline.py`), a pure function of two immutable values.
* The acceptance pack and the legacy framework: release tooling and an older API.

Open for extension: the refinement of `DurableRun` and `GatedRun` to one abstract loop, and the
handful of hazards without a property that `PROJECT.json` names with the reason.
