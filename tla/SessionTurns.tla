---------------------------- MODULE SessionTurns ----------------------------
(***************************************************************************)
(* One Session and the SessionRunners of several processes that submit     *)
(* messages to it, resume it and ask for the status of a commit            *)
(* (companion/_session_runner.py over the two Session stores).             *)
(*                                                                         *)
(* An operation of a Session store is one transaction and one action; only *)
(* SQLite's read_snapshot is two statements, ReadVersion and ReadTurns,    *)
(* between which another process may commit.  The Runner is the one of     *)
(* RunStatus and RunLifecycle: a Run moves along the table, driven by at   *)
(* most one lease holder; a former holder's late commit is refused.        *)
(* A Run stands for the text of its turn; the scope is part of the key     *)
(* under which a Session is looked up and is left out.                     *)
(***************************************************************************)
EXTENDS RunStatus, Naturals, Sequences, FiniteSets

CONSTANTS
    Workers,    \* SessionRunner processes, one call at a time each
    RunIds,     \* the pre-allocated run identities, each used once
    NoRun, NoWorker,
    MaxFaults   \* bound on deaths, raised errors and unavailable stores

ASSUME SessionAssumption ==
    NoRun \notin RunIds /\ NoWorker \notin Workers /\ MaxFaults \in Nat

VARIABLES
    turns,     \* the stored turns, by the Run that produced them
    version,   \* sessions.version
    claim,     \* the claim row: [run, version], run = NoRun if there is none
    runs,      \* run identity -> "ABSENT" or the authoritative status
    history,   \* run identity -> the Conversation History frozen at create_run
    driver,    \* run identity -> the worker whose lease is live
    used,      \* run identities allocated so far
    pc, loc,   \* worker -> where its call is, and its locals
    faults,
    \* history variables
    shown,     \* run identity -> the turns behind its frozen history
    robbed,    \* claims removed by a resume before their Run was created
    conflicts  \* runs for which commit_status answered CONFLICT

sessionVars == <<turns, version, claim>>
runVars == <<runs, history, driver, used>>
historyVars == <<shown, robbed, conflicts>>
vars == <<sessionVars, runVars, pc, loc, faults, historyVars>>

------------------------------------------------------------------------------
NoClaim == [run |-> NoRun, version |-> 0]
Committed(r) == \E i \in DOMAIN turns : turns[i] = r

\* _to_conversation_history: a USER and an ASSISTANT message for each turn.
ToConversationHistory(ts) ==
    [i \in 1..(2 * Len(ts)) |->
        <<IF i % 2 = 1 THEN "USER" ELSE "ASSISTANT", ts[(i + 1) \div 2]>>]

\* The locals of a call: its claim, the turns of its snapshot and the Run
\* status it was told.
NoLocals == [run |-> NoRun, version |-> 0, turns |-> <<>>, status |-> "ABSENT"]

Init ==
    /\ turns = <<>> /\ version = 0 /\ claim = NoClaim
    /\ runs = [r \in RunIds |-> "ABSENT"]
    /\ history = [r \in RunIds |-> <<>>]
    /\ driver = [r \in RunIds |-> NoWorker]
    /\ used = {}
    /\ pc = [w \in Workers |-> "idle"]
    /\ loc = [w \in Workers |-> NoLocals]
    /\ faults = 0
    /\ shown = [r \in RunIds |-> <<>>]
    /\ robbed = {} /\ conflicts = {}

Goto(w, p) == pc' = [pc EXCEPT ![w] = p]
\* The call returns or raises.
Return(w) == Goto(w, "idle") /\ loc' = [loc EXCEPT ![w] = NoLocals]

------------------------------------------------------------------------------
(* submit *)

\* read_snapshot, first statement: the version in the Session's row.
ReadVersion(w) ==
    /\ pc[w] = "idle"
    /\ used # RunIds
    /\ loc' = [loc EXCEPT ![w].version = version]
    /\ Goto(w, "readTurns")
    /\ UNCHANGED <<sessionVars, runVars, faults, historyVars>>

\* ... and the rows of its turns.
ReadTurns(w) ==
    /\ pc[w] = "readTurns"
    /\ loc' = [loc EXCEPT ![w].turns = turns]
    /\ Goto(w, "claimRun")
    /\ UNCHANGED <<sessionVars, runVars, faults, historyVars>>

\* Fault: the expected version is not compared.
ClaimAllowed_AnyVersion(r, v) == claim = NoClaim /\ ~Committed(r)

\* The three checks of claim_run.
ClaimAllowed(r, v) == claim = NoClaim /\ ~Committed(r) /\ version = v

\* claim_run for a new identity; a refused claim raises out of submit.
ClaimRun(w) ==
    /\ pc[w] = "claimRun"
    /\ \E r \in RunIds \ used :
        /\ used' = used \cup {r}
        /\ IF ClaimAllowed(r, loc[w].version)
           THEN /\ claim' = [run |-> r, version |-> version]
                /\ loc' = [loc EXCEPT ![w].run = r]
                /\ Goto(w, "createRun")
           ELSE Return(w) /\ UNCHANGED claim
    /\ UNCHANGED <<turns, version, runs, history, driver, faults, historyVars>>

\* create_run freezes the converted snapshot.
CreateRun(w) ==
    LET r == loc[w].run IN
    /\ pc[w] = "createRun"
    /\ runs' = [runs EXCEPT ![r] = "CREATED"]
    /\ history' = [history EXCEPT ![r] = ToConversationHistory(loc[w].turns)]
    /\ shown' = [shown EXCEPT ![r] = loc[w].turns]
    /\ Goto(w, "startRun")
    /\ UNCHANGED <<sessionVars, driver, used, loc, faults, robbed, conflicts>>

\* create_run raises and the Run does not exist.  Left out: a codec that fails to
\* decode the record just committed, after which the Run exists and its claim is
\* released all the same.
CreateRunFails(w) ==
    /\ pc[w] = "createRun"
    /\ Goto(w, "releaseClaim")
    /\ UNCHANGED <<sessionVars, runVars, loc, faults, historyVars>>

------------------------------------------------------------------------------
(* resume *)

\* get_session; without a claim resume raises.
GetSession(w) ==
    /\ pc[w] = "idle"
    /\ claim # NoClaim
    /\ loc' = [loc EXCEPT ![w].run = claim.run, ![w].version = claim.version]
    /\ Goto(w, "getRun")
    /\ UNCHANGED <<sessionVars, runVars, faults, historyVars>>

\* get_run: absent, terminal, or to be resumed.
GetRun(w) ==
    LET s == runs[loc[w].run] IN
    /\ pc[w] = "getRun"
    /\ loc' = [loc EXCEPT ![w].status = s]
    /\ Goto(w, IF s = "ABSENT" THEN "cleanUp"
               ELSE IF s \in TERMINAL_STATUSES THEN "complete" ELSE "resumeRun")
    /\ UNCHANGED <<sessionVars, runVars, faults, historyVars>>

\* Fault: the claim is removed whoever holds it.
ReleaseClaim_Any(w) == claim' = NoClaim

\* Fault: the run of the claim is cleared, its version is not.
ReleaseClaim_Half(w) ==
    claim' = IF claim.run = loc[w].run THEN [claim EXCEPT !.run = NoRun] ELSE claim

\* release_claim: a no-op without a claim, refused for another run's claim.
ReleaseClaim(w) == claim' = IF claim.run = loc[w].run THEN NoClaim ELSE claim

\* Fault: the error propagates and the claim stays.
CleanUp_Keeps(w) ==
    /\ pc[w] = "cleanUp"
    /\ Return(w)
    /\ UNCHANGED <<sessionVars, runVars, faults, historyVars>>

\* The Run was never created: the claim is released and the error propagates.
CleanUp(w) ==
    /\ pc[w] = "cleanUp"
    /\ ReleaseClaim(w)
    /\ robbed' = IF claim.run = loc[w].run THEN robbed \cup {loc[w].run} ELSE robbed
    /\ Return(w)
    /\ UNCHANGED <<turns, version, runVars, faults, shown, conflicts>>

------------------------------------------------------------------------------
(* The Runner, as the SessionRunner uses it. *)

\* start_run wants a CREATED Run and resume_run one that is not terminal; both
\* acquire the lease.  To take it from a live driver it must have run out.
AcquireLease(w) ==
    LET r == loc[w].run IN
    /\ \/ pc[w] = "startRun" /\ runs[r] = "CREATED"
       \/ pc[w] = "resumeRun" /\ runs[r] \notin TERMINAL_STATUSES
    /\ IF driver[r] = NoWorker THEN UNCHANGED faults
       ELSE faults < MaxFaults /\ faults' = faults + 1
    /\ driver' = [driver EXCEPT ![r] = w]
    /\ Goto(w, "driving")
    /\ UNCHANGED <<sessionVars, runs, history, used, loc, historyVars>>

\* Otherwise, or while another lease is live, the call raises.
AcquireRefused(w) ==
    LET r == loc[w].run IN
    /\ \/ pc[w] = "startRun" /\ (runs[r] # "CREATED" \/ driver[r] # NoWorker)
       \/ pc[w] = "resumeRun" /\ (runs[r] \in TERMINAL_STATUSES \/ driver[r] # NoWorker)
    /\ Return(w)
    /\ UNCHANGED <<sessionVars, runVars, faults, historyVars>>

\* resume_run returns a Run that waits for a resolution as it is.
ResumeWaiting(w) ==
    /\ pc[w] = "resumeRun" /\ runs[loc[w].run] = "WAITING"
    /\ loc' = [loc EXCEPT ![w].status = "WAITING"]
    /\ Goto(w, "complete")
    /\ UNCHANGED <<sessionVars, runVars, faults, historyVars>>

\* CREATED -> RUNNING, or WAITING -> RUNNING when a definition is back.
RunBegins(w) ==
    LET r == loc[w].run IN
    /\ pc[w] = "driving" /\ driver[r] = w
    /\ runs[r] \in {"CREATED", "WAITING"}
    /\ runs' = [runs EXCEPT ![r] = "RUNNING"]
    /\ UNCHANGED <<sessionVars, history, driver, used, pc, loc, faults, historyVars>>

\* The Run ends or waits; its record is returned.
RunReturns(w) ==
    LET r == loc[w].run IN
    /\ pc[w] = "driving" /\ driver[r] = w
    /\ runs[r] \in {"CREATED", "RUNNING"}
    /\ \E s \in AllowedTransitions[runs[r]] \ {"RUNNING"} :
        /\ runs' = [runs EXCEPT ![r] = s]
        /\ loc' = [loc EXCEPT ![w].status = s]
    /\ driver' = [driver EXCEPT ![r] = NoWorker]
    /\ Goto(w, "complete")
    /\ UNCHANGED <<sessionVars, history, used, faults, historyVars>>

\* A driver whose lease was taken over is refused at its next commit.
DriveRefused(w) ==
    /\ pc[w] = "driving" /\ driver[loc[w].run] # w
    /\ Return(w)
    /\ UNCHANGED <<sessionVars, runVars, faults, historyVars>>

\* The application resolves, cancels or resumes a Run through a Runner of its
\* own, past the SessionRunner.
ApplicationDrives(r) ==
    /\ runs[r] # "ABSENT" /\ driver[r] = NoWorker
    /\ \E s \in AllowedTransitions[runs[r]] : runs' = [runs EXCEPT ![r] = s]
    /\ UNCHANGED <<sessionVars, history, driver, used, pc, loc, faults, historyVars>>

------------------------------------------------------------------------------
(* _complete *)

\* commit_turn appends only for the holder of the claim, at its version.
CommitAllowed(w) == claim.run = loc[w].run /\ version = loc[w].version

\* Fault: the run identity is not looked up before the turn is appended.
CommitTurn_Twice(w) ==
    /\ pc[w] = "complete" /\ loc[w].status = "SUCCEEDED"
    /\ turns' = Append(turns, loc[w].run)
    /\ version' = version + 1
    /\ claim' = NoClaim
    /\ Return(w)
    /\ UNCHANGED <<runVars, faults, historyVars>>

\* commit_turn: COMMITTED again for a run that has a turn, CONFLICT without
\* the claim, else append, count the version up and clear the claim.
CommitTurn(w) ==
    LET r == loc[w].run IN
    /\ pc[w] = "complete" /\ loc[w].status = "SUCCEEDED"
    /\ IF ~Committed(r) /\ CommitAllowed(w)
       THEN /\ turns' = Append(turns, r)
            /\ version' = version + 1
            /\ claim' = NoClaim
       ELSE UNCHANGED sessionVars
    /\ Return(w)
    /\ UNCHANGED <<runVars, faults, historyVars>>

\* REJECTED, FAILED, CANCELLED release the claim, as does the rollback of submit.
ReleaseAfterRun(w) ==
    /\ \/ pc[w] = "complete" /\ loc[w].status \in TERMINAL_STATUSES \ {"SUCCEEDED"}
       \/ pc[w] = "releaseClaim"
    /\ ReleaseClaim(w)
    /\ Return(w)
    /\ UNCHANGED <<turns, version, runVars, faults, historyVars>>

\* WAITING keeps the claim.
KeepClaim(w) ==
    /\ pc[w] = "complete" /\ loc[w].status \notin TERMINAL_STATUSES
    /\ Return(w)
    /\ UNCHANGED <<sessionVars, runVars, faults, historyVars>>

------------------------------------------------------------------------------
(* commit_status: the Session's row, its claim, the turn, the Run. *)

StatusVersion(w) ==
    /\ pc[w] = "idle"
    /\ \E r \in {x \in RunIds : runs[x] # "ABSENT"} :
        loc' = [loc EXCEPT ![w].run = r, ![w].version = version]
    /\ Goto(w, "statusClaim")
    /\ UNCHANGED <<sessionVars, runVars, faults, historyVars>>

StatusClaim(w) ==
    /\ pc[w] = "statusClaim"
    /\ loc' = [loc EXCEPT ![w].status =
                 IF claim.run = loc[w].run /\ claim.version = loc[w].version
                 THEN "PENDING" ELSE "CONFLICT"]
    /\ Goto(w, "statusTurn")
    /\ UNCHANGED <<sessionVars, runVars, faults, historyVars>>

\* Fault: the turn is not looked up.
StatusTurn_Skipped(w) ==
    /\ pc[w] = "statusTurn"
    /\ Goto(w, "statusRun")
    /\ UNCHANGED <<sessionVars, runVars, loc, faults, historyVars>>

StatusTurn(w) ==
    /\ pc[w] = "statusTurn"
    /\ IF Committed(loc[w].run) THEN Return(w) ELSE Goto(w, "statusRun") /\ UNCHANGED loc
    /\ UNCHANGED <<sessionVars, runVars, faults, historyVars>>

StatusRun(w) ==
    /\ pc[w] = "statusRun"
    /\ conflicts' = IF runs[loc[w].run] = "SUCCEEDED" /\ loc[w].status = "CONFLICT"
                    THEN conflicts \cup {loc[w].run} ELSE conflicts
    /\ Return(w)
    /\ UNCHANGED <<sessionVars, runVars, faults, shown, robbed>>

------------------------------------------------------------------------------
\* A death, an error raised by the Runner, or a Session store that is not
\* available (PENDING): the call is over and the stores are as they were.
Fail(w) ==
    /\ pc[w] # "idle" /\ faults < MaxFaults
    /\ faults' = faults + 1
    /\ driver' = [r \in RunIds |-> IF driver[r] = w THEN NoWorker ELSE driver[r]]
    /\ Return(w)
    /\ UNCHANGED <<sessionVars, runs, history, used, historyVars>>

Advance(w) ==
    \/ ReadTurns(w) \/ ClaimRun(w) \/ CreateRun(w) \/ CreateRunFails(w)
    \/ GetRun(w) \/ CleanUp(w)
    \/ AcquireLease(w) \/ AcquireRefused(w) \/ ResumeWaiting(w)
    \/ RunBegins(w) \/ RunReturns(w) \/ DriveRefused(w)
    \/ CommitTurn(w) \/ ReleaseAfterRun(w) \/ KeepClaim(w)
    \/ StatusClaim(w) \/ StatusTurn(w) \/ StatusRun(w)

Next ==
    \/ \E w \in Workers :
        \/ ReadVersion(w) \/ GetSession(w) \/ StatusVersion(w)
        \/ Advance(w) \/ Fail(w)
    \/ \E r \in RunIds : ApplicationDrives(r)

Spec == Init /\ [][Next]_vars

\* A call goes on; the application keeps resuming a claimed Session.
FairSpec ==
    /\ Spec
    /\ \A w \in Workers : WF_vars(Advance(w))
    /\ SF_vars(\E w \in Workers : GetSession(w))

------------------------------------------------------------------------------
(* Properties *)

Places ==
    {"idle", "readTurns", "claimRun", "createRun", "startRun", "releaseClaim", "getRun",
     "cleanUp", "resumeRun", "driving", "complete", "statusClaim", "statusTurn", "statusRun"}

Locals ==
    [run : RunIds \cup {NoRun}, version : Nat, turns : Seq(RunIds),
     status : RunStatuses \cup {"ABSENT", "PENDING", "CONFLICT"}]

\* Every variable has its type; a call past its claim names a Run.
TypeOK ==
    /\ turns \in Seq(RunIds) /\ version \in Nat
    /\ claim \in [run : RunIds, version : Nat] \cup {NoClaim}
    /\ runs \in [RunIds -> RunStatuses \cup {"ABSENT"}]
    /\ history \in [RunIds -> Seq({"USER", "ASSISTANT"} \X RunIds)]
    /\ driver \in [RunIds -> Workers \cup {NoWorker}]
    /\ used \in SUBSET RunIds
    /\ pc \in [Workers -> Places]
    /\ loc \in [Workers -> Locals]
    /\ \A w \in Workers : pc[w] \in {"idle", "readTurns", "claimRun"} \/ loc[w].run \in RunIds
    /\ faults \in Nat
    /\ shown \in [RunIds -> Seq(RunIds)]
    /\ robbed \in SUBSET RunIds /\ conflicts \in SUBSET RunIds

\* The Run of every turn was given exactly the conversation before its own
\* turn: although submit reads version and turns in separate statements and the
\* claim comes later still, nothing read was stale when the turn is appended.
LinearHistory ==
    \A i \in DOMAIN turns :
        history[turns[i]] = ToConversationHistory(SubSeq(turns, 1, i - 1))

\* Through crashes, takeovers and resolutions made behind the SessionRunner's
\* back, a Run that is active or has succeeded either has its turn or still
\* holds the claim, unless a resume took the claim away before it was created.
NothingForgotten ==
    \A r \in RunIds :
        runs[r] \in {"CREATED", "RUNNING", "WAITING", "SUCCEEDED"} =>
            Committed(r) \/ claim.run = r \/ r \in robbed

\* commit_status reads four rows one after the other; when it says CONFLICT the
\* turn is indeed never committed, before or after.
ConflictIsFinal == \A r \in conflicts : ~Committed(r)

\* ADR 0020 and _session.py: at most one CREATED, RUNNING or WAITING Run per
\* Session.
SingleActiveRun ==
    Cardinality({r \in RunIds : runs[r] \in {"CREATED", "RUNNING", "WAITING"}}) <= 1

\* The store and its callers implement the abstract conversation.
TheConversation ==
    INSTANCE Conversation WITH
        seen <- [i \in DOMAIN turns |-> shown[turns[i]]]
ConversationSpec == TheConversation!Spec

\* A claim does not block the Session for ever: it ends, or its Run waits for
\* the application, also when the submitter died before the Run was created.
ClaimSettles ==
    \A r \in RunIds : claim.run = r ~> (claim.run # r \/ runs[r] = "WAITING")
=============================================================================
