------------------------------ MODULE RunStore ------------------------------
(***************************************************************************)
(* The Run Store: one Run record with its lease, and the journal of Steps, *)
(* Attempts, Checkpoints and Policy decisions that belongs to it, shared   *)
(* by callers in several processes.  One action per store operation; each  *)
(* operation is one SQL statement or one uninterrupted coroutine in the    *)
(* adapters, hence one step, except SQLite's record_policy_decision, which *)
(* checks the lease in one statement and inserts in another.               *)
(*                                                                         *)
(* A caller is one advancing call (start_run, resume_run, resolve_run) of  *)
(* some Runner; OwnerOf gives the Runner's owner string.  A caller only    *)
(* knows what the store last told it: view is the RunRecord it holds and   *)
(* expiry the expires_at of its RunLease.  An operation the store refuses  *)
(* raises and changes nothing, which is the absence of a step; the call    *)
(* may then end (Return), as it may by a crash.                            *)
(***************************************************************************)
EXTENDS RunStatus, Integers, FiniteSets

CONSTANTS
    Callers,      \* concurrent advancing calls
    Owners,       \* owner strings of Runners
    OwnerOf,      \* the owner each caller presents
    NoOwner,      \* lease_owner = None
    NoCaller,
    StepIds, AttemptIds,
    TTL,          \* lease_ttl, in ticks
    RunMaxAttempts,     \* ModelExecutionBudget.run_max_attempts, or NoLimit
    PurposeMaxAttempts, \* purpose -> ModelExecutionBudget.maximum_for, or NoLimit
    MaxTime,      \* bound on the clock
    MaxVersion    \* bound on the Run version

ASSUME CallersAssumption ==
    /\ OwnerOf \in [Callers -> Owners]
    /\ NoOwner \notin Owners
    /\ NoCaller \notin Callers

\* ModelPurpose; an attempt of a Context or Tool Step has none.
Purposes == {"PRIMARY", "CONTEXT_COMPRESSION", "OUTPUT_REPAIR"}
NoPurpose == "none"

\* The limit of a Snapshot without a Model Execution Budget (None).
NoLimit == -1

ASSUME BoundsAssumption ==
    /\ TTL \in Nat \ {0}
    /\ RunMaxAttempts \in Nat \cup {NoLimit}
    /\ PurposeMaxAttempts \in [Purposes -> Nat \cup {NoLimit}]
    /\ MaxTime \in Nat
    /\ MaxVersion \in Nat \ {0}

ASSUME FiniteAssumption == IsFiniteSet(AttemptIds)

VARIABLES
    now,          \* the store's clock
    run,          \* [status, version, reason]: the Run row
    lease,        \* [owner, expires]: lease_owner, lease_expires_at
    steps,        \* step_id -> status of the Step
    attempts,     \* attempt_id -> status of the Attempt
    purpose,      \* attempt_id -> the model_purpose stored with the Attempt
    checkpoints,  \* the step ids that have a Checkpoint
    view,         \* caller -> the [status, version] of the RunRecord it holds
    expiry,       \* caller -> expires_at of the RunLease it holds, 0 for none
    deciding,     \* caller -> between the SELECT and the INSERT of a decision
    \* history
    holder,       \* the caller whose acquire_lease the lease row stems from
    acts,         \* <<who, holder then>> of every fenced mutation and dispatch
    decisions,    \* the same for policy decisions
    granted       \* attempt_id -> the purpose reserve_model_attempt granted it for

rowVars == <<run, lease>>
journalVars == <<steps, attempts, purpose, checkpoints>>
callerVars == <<view, expiry, deciding>>
historyVars == <<holder, acts, decisions, granted>>
vars == <<now, run, lease, steps, attempts, purpose, checkpoints,
          view, expiry, deciding, holder, acts, decisions, granted>>

NoView == [status |-> "ABSENT", version |-> 0]
StepStatuses == {"RUNNING", "SUCCEEDED", "FAILED"}

------------------------------------------------------------------------------
Init ==
    /\ now = 0
    /\ run = [status |-> "ABSENT", version |-> 0, reason |-> NoReason]
    /\ lease = [owner |-> NoOwner, expires |-> 0]
    /\ steps = [s \in StepIds |-> "ABSENT"]
    /\ attempts = [a \in AttemptIds |-> "ABSENT"]
    /\ purpose = [a \in AttemptIds |-> NoPurpose]
    /\ checkpoints = {}
    /\ view = [c \in Callers |-> NoView]
    /\ expiry = [c \in Callers |-> 0]
    /\ deciding = [c \in Callers |-> FALSE]
    /\ holder = NoCaller
    /\ acts = {}
    /\ decisions = {}
    /\ granted = [a \in AttemptIds |-> NoPurpose]

\* The row is there and the caller's expected_version is the authoritative one.
CurrentVersion(c) ==
    /\ run.status # "ABSENT"
    /\ view[c].version = run.version

\* (Operators named X_Fault are plausible faults of X; no action uses them.)
\* Fault: the expiry is compared, the owner is not.
HoldsLease_AnyOwner(c) == lease.expires > now

\* _check_lease: the presented owner holds an unexpired lease.
HoldsLease(c) ==
    /\ lease.owner = OwnerOf[c]
    /\ lease.expires > now

\* What every mutation by a Runner is conditioned on.
Fenced(c) == CurrentVersion(c) /\ HoldsLease(c)

\* Fault: lease_expires_at > now is not looked at.
LeaseAvailable_IgnoresExpiry(c) == c \in Callers

\* acquire_lease refuses only an unexpired lease of another owner.
LeaseAvailable(c) ==
    \/ lease.owner = NoOwner
    \/ lease.owner = OwnerOf[c]
    \/ lease.expires <= now

Acted(c) == acts' = acts \cup {<<c, holder>>}

------------------------------------------------------------------------------
\* assert_lease, prepare_model_dispatch: nothing is written; the external call
\* follows without a suspension point in between.
AssertLease(c) ==
    /\ Fenced(c)
    /\ Acted(c)
    /\ UNCHANGED <<now, rowVars, journalVars, callerVars, holder, decisions, granted>>

\* create_run: an existing id raises DuplicateRunError.
CreateRun(c) ==
    /\ run.status = "ABSENT"
    /\ run' = [status |-> "CREATED", version |-> 1, reason |-> NoReason]
    /\ view' = [view EXCEPT ![c] = [status |-> "CREATED", version |-> 1]]
    /\ UNCHANGED <<now, lease, journalVars, expiry, deciding, historyVars>>

\* get_run: the caller now holds the current record.
GetRun(c) ==
    /\ run.status # "ABSENT"
    /\ view' = [view EXCEPT ![c] = [status |-> run.status, version |-> run.version]]
    /\ UNCHANGED <<now, rowVars, journalVars, expiry, deciding, historyVars>>

\* acquire_lease: grant, renewal by the same owner or takeover after expiry;
\* the version does not move.
AcquireLease(c) ==
    /\ CurrentVersion(c)
    /\ LeaseAvailable(c)
    /\ lease' = [owner |-> OwnerOf[c], expires |-> now + TTL]
    /\ expiry' = [expiry EXCEPT ![c] = now + TTL]
    /\ holder' = c
    /\ UNCHANGED <<now, run, journalVars, view, deciding, acts, decisions, granted>>

\* release_lease: version and owner must match; expiry is not looked at.
ReleaseLease(c) ==
    /\ CurrentVersion(c)
    /\ lease.owner = OwnerOf[c]
    /\ lease' = [owner |-> NoOwner, expires |-> 0]
    /\ expiry' = [expiry EXCEPT ![c] = 0]
    /\ holder' = NoCaller
    /\ UNCHANGED <<now, run, journalVars, view, deciding, acts, decisions, granted>>

\* Fault: the version is not incremented.
TransitionRun_SameVersion(c, s) ==
    /\ Fenced(c)
    /\ LegalTransition(run.status, s)
    /\ \E r \in IF s = "WAITING" THEN WaitingReasons ELSE {NoReason} :
        run' = [run EXCEPT !.status = s, !.reason = r]
    /\ view' = [view EXCEPT ![c].status = s]
    /\ Acted(c)
    /\ UNCHANGED <<now, lease, journalVars, expiry, deciding, holder, decisions, granted>>

\* Fault: the transition table is not consulted.
TransitionRun_Unvalidated(c, s) ==
    /\ Fenced(c)
    /\ run.version < MaxVersion
    /\ \E r \in IF s = "WAITING" THEN WaitingReasons ELSE {NoReason} :
        run' = [status |-> s, version |-> run.version + 1, reason |-> r]
    /\ view' = [view EXCEPT ![c] = [status |-> s, version |-> run.version + 1]]
    /\ Acted(c)
    /\ UNCHANGED <<now, lease, journalVars, expiry, deciding, holder, decisions, granted>>

\* Fault: leaving WAITING keeps the reason.
TransitionRun_KeepsReason(c, s) ==
    /\ Fenced(c)
    /\ run.version < MaxVersion
    /\ LegalTransition(run.status, s)
    /\ \E r \in IF s = "WAITING" THEN WaitingReasons ELSE {run.reason} :
        run' = [status |-> s, version |-> run.version + 1, reason |-> r]
    /\ view' = [view EXCEPT ![c] = [status |-> s, version |-> run.version + 1]]
    /\ Acted(c)
    /\ UNCHANGED <<now, lease, journalVars, expiry, deciding, holder, decisions, granted>>

\* transition_run: version, lease, then the table; the waiting reason lives
\* only in WAITING; the lease row is left alone.
TransitionRun(c, s) ==
    /\ Fenced(c)
    /\ run.version < MaxVersion
    /\ LegalTransition(run.status, s)
    /\ \E r \in IF s = "WAITING" THEN WaitingReasons ELSE {NoReason} :
        run' = [status |-> s, version |-> run.version + 1, reason |-> r]
    /\ view' = [view EXCEPT ![c] = [status |-> s, version |-> run.version + 1]]
    /\ Acted(c)
    /\ UNCHANGED <<now, lease, journalVars, expiry, deciding, holder, decisions, granted>>

\* record_step upserts the Step by its id.
RecordStep(c, s, st) ==
    /\ Fenced(c)
    /\ steps' = [steps EXCEPT ![s] = st]
    /\ Acted(c)
    /\ UNCHANGED <<now, rowVars, attempts, purpose, checkpoints, callerVars,
                   holder, decisions, granted>>

\* Fault: the upsert leaves the column model_purpose out.
RecordAttempt_DropsPurpose(c, a, st) ==
    /\ Fenced(c)
    /\ attempts' = [attempts EXCEPT ![a] = st]
    /\ purpose' = [purpose EXCEPT ![a] = NoPurpose]
    /\ Acted(c)
    /\ UNCHANGED <<now, rowVars, steps, checkpoints, callerVars, holder, decisions, granted>>

\* record_attempt replaces the whole row of the Attempt; the Runner gives the
\* purpose again that the Attempt was reserved for, and none for a new one.
RecordAttempt(c, a, st) ==
    /\ Fenced(c)
    /\ attempts' = [attempts EXCEPT ![a] = st]
    /\ Acted(c)
    /\ UNCHANGED <<now, rowVars, steps, purpose, checkpoints, callerVars, holder, decisions,
                   granted>>

\* The attempts a reservation is charged with: those stored with some purpose,
\* and those stored with the same one.
ModelAttempts(stored) == {a \in AttemptIds : stored[a] # NoPurpose}
PurposeAttempts(stored, p) == {a \in AttemptIds : stored[a] = p}

HasRoom(n, max) == max = NoLimit \/ n < max

\* reserve_model_attempt: in one transaction, compare the persisted model
\* attempts with the frozen budget, for the Run and for the purpose, and, if
\* there is room in both, upsert the Step and insert the Attempt.  Out of budget
\* it returns False and does nothing.
ReserveModelAttempt(c, s, a, p) ==
    /\ Fenced(c)
    /\ attempts[a] = "ABSENT"
    /\ HasRoom(Cardinality(ModelAttempts(purpose)), RunMaxAttempts)
    /\ HasRoom(Cardinality(PurposeAttempts(purpose, p)), PurposeMaxAttempts[p])
    /\ steps' = [steps EXCEPT ![s] = "RUNNING"]
    /\ attempts' = [attempts EXCEPT ![a] = "RUNNING"]
    /\ purpose' = [purpose EXCEPT ![a] = p]
    /\ granted' = [granted EXCEPT ![a] = p]
    /\ Acted(c)
    /\ UNCHANGED <<now, rowVars, checkpoints, callerVars, holder, decisions>>

\* record_checkpoint.
RecordCheckpoint(c, s) ==
    /\ Fenced(c)
    /\ checkpoints' = checkpoints \cup {s}
    /\ Acted(c)
    /\ UNCHANGED <<now, rowVars, steps, attempts, purpose, callerVars,
                   holder, decisions, granted>>

\* SQLite's record_policy_decision, first statement: SELECT the row and compare
\* version and lease in Python.
CheckPolicyDecision(c) ==
    /\ Fenced(c)
    /\ deciding' = [deciding EXCEPT ![c] = TRUE]
    /\ UNCHANGED <<now, rowVars, journalVars, view, expiry, historyVars>>

\* ... second statement: an unconditional INSERT.
InsertPolicyDecision(c) ==
    /\ deciding[c]
    /\ deciding' = [deciding EXCEPT ![c] = FALSE]
    /\ decisions' = decisions \cup {<<c, holder>>}
    /\ UNCHANGED <<now, rowVars, journalVars, view, expiry, holder, acts, granted>>

\* The call is over: it returned, raised or its process died.  The row keeps
\* whatever lease it has.
Return(c) ==
    /\ view[c] # NoView
    /\ view' = [view EXCEPT ![c] = NoView]
    /\ expiry' = [expiry EXCEPT ![c] = 0]
    /\ deciding' = [deciding EXCEPT ![c] = FALSE]
    /\ UNCHANGED <<now, rowVars, journalVars, historyVars>>

\* Time passes.
Tick ==
    /\ now < MaxTime
    /\ now' = now + 1
    /\ UNCHANGED <<rowVars, journalVars, callerVars, historyVars>>

\* A call performs its operations one after the other.
Operation(c) ==
    \/ CreateRun(c)
    \/ GetRun(c)
    \/ AcquireLease(c)
    \/ ReleaseLease(c)
    \/ AssertLease(c)
    \/ \E s \in RunStatuses : TransitionRun(c, s)
    \/ \E s \in StepIds, st \in StepStatuses : RecordStep(c, s, st)
    \/ \E a \in AttemptIds, st \in StepStatuses : RecordAttempt(c, a, st)
    \/ \E s \in StepIds, a \in AttemptIds, p \in Purposes : ReserveModelAttempt(c, s, a, p)
    \/ \E s \in StepIds : RecordCheckpoint(c, s)
    \/ CheckPolicyDecision(c)

CallerStep(c) ==
    \/ ~deciding[c] /\ Operation(c)
    \/ InsertPolicyDecision(c)
    \/ Return(c)

Next == Tick \/ \E c \in Callers : CallerStep(c)

Spec == Init /\ [][Next]_vars

------------------------------------------------------------------------------
(* Properties. *)

\* Every variable has its type, and the waiting reason of the row is there
\* exactly in WAITING (transition_run clears it on the way out).
TypeOK ==
    /\ now \in 0..MaxTime
    /\ run \in [status : RunStatuses \cup {"ABSENT"}, version : 0..MaxVersion,
               reason : WaitingReasons \cup {NoReason}]
    /\ run.reason # NoReason <=> run.status = "WAITING"
    /\ lease \in [owner : Owners \cup {NoOwner}, expires : 0..(MaxTime + TTL)]
    /\ steps \in [StepIds -> StepStatuses \cup {"ABSENT"}]
    /\ attempts \in [AttemptIds -> StepStatuses \cup {"ABSENT"}]
    /\ purpose \in [AttemptIds -> Purposes \cup {NoPurpose}]
    /\ checkpoints \subseteq StepIds
    /\ view \in [Callers -> [status : RunStatuses \cup {"ABSENT"}, version : 0..MaxVersion]]
    /\ expiry \in [Callers -> 0..(MaxTime + TTL)]
    /\ deciding \in [Callers -> BOOLEAN]
    /\ holder \in Callers \cup {NoCaller}
    /\ acts \subseteq Callers \X (Callers \cup {NoCaller})
    /\ decisions \subseteq Callers \X (Callers \cup {NoCaller})
    /\ granted \in [AttemptIds -> Purposes \cup {NoPurpose}]

\* Every advancing call presents an owner string of its own: what the default
\* owner (a fresh uuid per Runner) gives as long as no Runner advances the same
\* Run twice at a time.
DistinctOwners == \A c, d \in Callers : OwnerOf[c] = OwnerOf[d] => c = d

\* At no time do two calls both hold a RunLease that has not run out: whatever
\* the order of grants, renewals, expiries, releases and takeovers.
LeaseExclusion ==
    \A c, d \in Callers : expiry[c] > now /\ expiry[d] > now => c = d

\* No mutation and no dispatch is let through for a call whose lease another
\* call has since taken over, even when neither bumped the version: every one of
\* them was made by the call the lease row stemmed from at that moment.
Fencing == \A w \in acts : w[1] = w[2]

\* A call whose expected version is the authoritative one holds the
\* authoritative status: the optimistic version check alone excludes decisions
\* made on a stale record (no two records share a version).
NoStaleDecision ==
    \A c \in Callers : view[c].version = run.version => view[c].status = run.status

Within(n, max) == max = NoLimit \/ n <= max

\* The model requests a Run was ever granted stay within its frozen Model
\* Execution Budget, in total and for each purpose: however reservations
\* interleave with takeovers, and although the count is taken from Attempt rows
\* that every later record_attempt replaces.
BudgetNeverOverdrawn ==
    /\ Within(Cardinality(ModelAttempts(granted)), RunMaxAttempts)
    /\ \A p \in Purposes :
        Within(Cardinality(PurposeAttempts(granted, p)), PurposeMaxAttempts[p])

Lifecycle == INSTANCE RunLifecycle
    WITH status <- run.status, version <- run.version, reason <- run.reason

\* An observer of the row sees a legal life of a Run: reservations, leases and
\* the journal are invisible in it, a terminal status is never left.
LifecycleSpec == Lifecycle!Spec

\* The claim of the Runner's documentation for policy decisions, which SQLite does
\* not meet (README, Known disagreements): a late
\* submission of a former owner is refused, so each stored decision was written
\* by the call the lease stemmed from.
PolicyFencing == \A d \in decisions : d[1] = d[2]

=============================================================================
