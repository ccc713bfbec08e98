--------------------------- MODULE GatedRunProofs ---------------------------
(***************************************************************************)
(* What holds of a gated Run for every Snapshot and every bound: the       *)
(* safety properties of GatedRun, from one inductive invariant that says   *)
(* what the journal may look like, what a Run that waits can be taken up   *)
(* with, and what a call relies on at each place of the loop.              *)
(***************************************************************************)
EXTENDS GatedRun, FiniteSetTheorems, WellFoundedInduction, TLAPS

Statuses == {"RUNNING", "SUCCEEDED", "FAILED"}
Paths == {"none", "execute", "resume", "loop", "continue"}
Ends == {"none", "SUCCEEDED", "FAILED", "REJECTED"}

------------------------------------------------------------------------------
(* Words for the journal. *)

Compressions == ModelSteps("CONTEXT_COMPRESSION")
Repairs == ModelSteps("OUTPUT_REPAIR")

HasDone == \E i \in DOMAIN steps : steps[i].done

\* The RUN_INPUT Stages have their Checkpoints; so have all of this point of the loop.
InputDone == Due("RUN_INPUT") = {}
Settled ==
    /\ InputDone
    /\ ToolBoundary > 0 => Due("TOOL_OUTCOME") = {}
    /\ Due("MODEL_STEP") = {}

\* No Stage inside the loop has been read.
OnlyInput == \A i \in Done("CONTEXT") : steps[i].key[2] = "RUN_INPUT"

\* The Model Steps whose dispatch no Checkpoint confirms, and the Tool Steps under way.
Unsure == {i \in StepsOf("MODEL") \ Done("MODEL") : HasAttempt(i, {"RUNNING", "UNCONFIRMED"})}
InFlight == {i \in StepsOf("TOOL") : steps[i].status = "RUNNING"}

\* No requested call is without its outcome.
Closed == Rounds = 0 \/ Answered

\* At most compressions have been tried, and none is in doubt.
Unasked == StepsOf("MODEL") = Compressions /\ StepsOf("TOOL") = {} /\ Unsure = {}

------------------------------------------------------------------------------
(* The inductive invariant. *)

StepOK(s) ==
    /\ DOMAIN s = {"type", "key", "status", "atts", "done", "items", "reply", "outcome"}
    /\ s.type \in {"CONTEXT", "MODEL", "TOOL"} /\ s.status \in Statuses
    /\ s.atts \in Seq(AttemptStates) /\ s.done \in BOOLEAN /\ s.outcome \in Int
    /\ s.type = "CONTEXT" => /\ s.key = <<s.key[1], s.key[2], s.key[3]>>
                             /\ s.key[2] \in Scopes /\ s.key[3] \in Nat
    /\ s.type = "MODEL" => s.key = <<s.key[1]>> /\ s.key[1] \in Purposes
    /\ s.type = "TOOL" => s.key = <<s.key[1]>> /\ s.key[1] \in Nat \ {0}
    /\ s.done => s.status # "RUNNING" /\ s.atts # <<>>
    /\ s.done /\ s.type = "TOOL" => s.status = "SUCCEEDED" /\ Last(s.atts) # "PENDING"
    /\ s.type = "TOOL" /\ s.atts # <<>> /\ Last(s.atts) = "PENDING" => s.status = "RUNNING"

RunOK ==
    /\ run.status \in RunStatuses /\ run.reason \in WaitingReasons \cup {NoReason}
    /\ run.wstep \in 0..Len(steps) /\ run.output \in 0..Len(steps)
    /\ run.reason # NoReason <=> run.status = "WAITING"

CallOK(c) ==
    /\ DOMAIN c = {"pc", "step", "stage", "path", "purpose", "model", "replay", "left", "outcome", "end"}
    /\ c.pc \in Places /\ c.step \in 0..Len(steps) /\ c.path \in Paths /\ c.purpose \in Purposes
    /\ c.model \in 0..Len(steps) /\ c.replay \in BOOLEAN /\ c.left \in -1..RepairMax
    /\ c.outcome \in Int /\ c.end \in Ends

Types ==
    /\ snapshot \in Snapshots
    /\ steps \in Seq(Range(steps)) /\ \A i \in DOMAIN steps : StepOK(steps[i])
    /\ RunOK
    /\ effects \in [1..MaxRounds -> Nat] /\ grants \in [1..MaxRounds -> Nat]
    /\ Rounds \in 0..MaxRounds
    /\ torn \in BOOLEAN

\* Every repair was sent.  The budget may refuse the last one, which ends the Run.
Unspent == \A i \in Repairs : steps[i].atts # <<>>
Refusal(i) ==
    /\ Closed /\ Unsure = {} /\ steps[i].status = "FAILED"
    /\ \A j \in StepsOf("MODEL") : j <= i

\* What was read and asked in which order: nothing is asked of a model before the
\* inputs are there; there is one compression, made when nothing else was; what is in
\* doubt is one Step, behind every response, with no call open; an open call belongs
\* to the last response and has at most one Step under way.
Journal ==
    /\ StepsOf("MODEL") \cup StepsOf("TOOL") # {} => InputDone
    /\ \A i \in StepsOf("TOOL") : steps[i].key[1] <= Rounds
    /\ \A i, j \in Compressions : i = j
    /\ Repairs # {} => BusinessDone # {}
    /\ \A i \in Repairs : steps[i].atts # <<>> \/ Refusal(i)
    /\ \A i, j \in Unsure : i = j
    /\ \A i \in Unsure : Closed /\ \A j \in BusinessDone : j < i
    /\ Unsure \cap Compressions # {} =>
        OnlyInput /\ StepsOf("MODEL") = Compressions /\ Compressible # <<>>
    /\ HasDone \/ (StepsOf("MODEL") = Compressions /\ StepsOf("TOOL") = {})
               \/ StagesForScope(Plan, "MODEL_STEP") = {}
    /\ \A i \in BusinessDone : (\A j \in BusinessDone : j <= i) /\ steps[i].reply # "tool" => Closed
    /\ \A i \in InFlight : steps[i].key = <<Rounds>> /\ ~Closed /\ Unsure = {}
    /\ \A i, j \in InFlight : i = j

\* A Run that waits can be taken up.
Waiting ==
    /\ run.reason = "POLICY_RESOLUTION_REQUIRED" => HasDone \/ Unasked
    /\ run.reason = "UNCERTAIN_NON_IDEMPOTENT" =>
        /\ run.wstep \in StepsOf("TOOL") \ Done("TOOL")
        /\ steps[run.wstep].key = <<Rounds>>
        /\ ~Closed /\ Unsure = {} /\ InFlight = {}
    /\ run.reason # "DEFINITION_UNAVAILABLE"
    /\ run.status = "CREATED" => steps = <<>>

StagePlaces == {"contextGate", "recordContext", "contextFinal", "provide", "unsupported"}
ModelPlaces == {"reserve", "model"}
ToolPlaces ==
    {"toolGate", "recordTool", "toolFinal", "invoke", "outcomeGate", "recordPending",
     "confirmGate", "continueGate", "checkpointTool", "enterUncertain", "unconfirmTool"}

\* The Model Step the loop is to go on with, if there is one.
Resumable(i) ==
    /\ Unsure \subseteq {i}
    /\ i # 0 => /\ i \in ModelSteps("PRIMARY") \ Done("MODEL")
                /\ \A j \in BusinessDone : j < i

\* The loop may be entered with Model Step i.
LoopReady(i) == InputDone /\ Closed /\ Unspent /\ Resumable(i)

AtStage(c) ==
    /\ \E n \in Due(c.stage.scope) : c.stage = Plan[n]
    /\ c.stage.scope \in Scopes
    /\ c.stage.scope = "TOOL_OUTCOME" => ToolBoundary > 0
    /\ IF c.path = "loop" THEN /\ c.stage.scope # "RUN_INPUT" /\ LoopReady(c.model)
                               /\ HasDone \/ Unasked
       ELSE c.stage.scope = "RUN_INPUT" /\ c.path \in {"execute", "resume"}
    /\ c.path = "execute" => OnlyInput
    /\ c.step # 0 => /\ c.step \in StepsOf("CONTEXT") \ Done("CONTEXT")
                     /\ steps[c.step].key = StageKey(c.stage)
    /\ c.pc \in {"contextFinal", "provide"} => c.step # 0

AtModel(c) ==
    /\ InputDone /\ Closed /\ Unspent /\ Unsure \subseteq {c.step}
    /\ c.step # 0 => /\ c.step \in ModelSteps(c.purpose) \ Done("MODEL")
                     /\ \A j \in BusinessDone : j < c.step
    /\ c.pc = "model" => c.step # 0
    /\ c.purpose = "PRIMARY" => Settled
    /\ c.purpose = "CONTEXT_COMPRESSION" =>
        OnlyInput /\ StepsOf("MODEL") \subseteq {c.step} /\ Compressible # <<>>
    /\ c.purpose = "OUTPUT_REPAIR" => BusinessDone # {}
    /\ c.left >= 0 => c.purpose = "OUTPUT_REPAIR"
    /\ c.purpose = "OUTPUT_REPAIR" /\ c.step = 0 =>
        c.left >= 0 /\ Cardinality(Repairs) + 1 + c.left <= RepairMax
    /\ c.left >= 0 => Cardinality(Repairs) + c.left <= RepairMax

AtFailure(c) ==
    /\ Unspent
    /\ c.step # 0 => c.step \in StepsOf("MODEL")
    /\ c.step = 0 => /\ InputDone /\ Unsure = {} /\ Closed
                     /\ c.purpose = "PRIMARY" => Settled
                     /\ c.purpose = "OUTPUT_REPAIR" =>
                            BusinessDone # {} /\ Cardinality(Repairs) < RepairMax
                     /\ c.purpose = "CONTEXT_COMPRESSION" => StepsOf("MODEL") = {}

AtTool(c) ==
    /\ ~Closed /\ Unsure = {} /\ InFlight \subseteq {c.step}
    /\ c.step # 0 => c.step \in StepsOf("TOOL") \ Done("TOOL") /\ steps[c.step].key = <<Rounds>>
    /\ c.pc \notin {"toolGate", "recordTool"} => c.step # 0
    /\ c.pc \in {"toolFinal", "invoke", "outcomeGate", "recordPending"} => c.step \in InFlight
    /\ IF c.pc \in {"continueGate", "checkpointTool"}
       THEN c.step \in HeldSteps => c.path = "continue" /\ c.outcome = steps[c.step].outcome
       ELSE HeldSteps = {}
    /\ c.pc = "enterUncertain" => snapshot.effect = "NON_IDEMPOTENT"
    /\ c.pc = "unconfirmTool" => snapshot.effect # "NON_IDEMPOTENT"

AtOutput(c) ==
    /\ c.step \in BusinessDone /\ steps[c.step].reply # "tool"
    /\ \A j \in BusinessDone : j <= c.step
    /\ Unsure = {} /\ Unspent
    /\ c.left >= 0 => Cardinality(Repairs) + c.left <= RepairMax

AtBlame(c) ==
    /\ Unspent
    /\ c.step \in (StepsOf("CONTEXT") \cup StepsOf("TOOL")) \ HeldSteps
    /\ ~steps[c.step].done
    /\ InFlight \subseteq {c.step}

\* What a call relies on where it is.
AtPlace(c) ==
    /\ c.pc \in {"inputGate", "start"} => Unasked /\ ~HasDone
    /\ c.pc \in StagePlaces => AtStage(c)
    /\ c.pc \in ModelPlaces => AtModel(c)
    /\ c.pc = "failModelStep" => AtFailure(c)
    /\ c.pc = "unconfirmModel" => c.step \in Unsure
    /\ c.pc \in ToolPlaces => AtTool(c)
    /\ c.pc = "outputGate" => AtOutput(c)
    /\ c.pc = "blameStep" => AtBlame(c)
    /\ c.pc = "enterWaiting" => HasDone \/ Unasked
    /\ c.pc \in {"endRun", "blameStep"} => c.end # "none"

\* A call drives a Run that is CREATED or RUNNING.
Driving ==
    /\ call.pc = "idle" <=> call = Idle
    /\ call # Idle => run.status \in {"CREATED", "RUNNING"}
    /\ call.pc \notin {"idle", "inputGate", "start", "enterWaiting", "endRun"} => run.status = "RUNNING"

IInv ==
    /\ Types /\ Journal /\ Waiting /\ CallOK(call) /\ AtPlace(call) /\ Driving
    /\ Cardinality(Repairs) <= RepairMax

------------------------------------------------------------------------------
(* Effects. *)

Dispatching == {"toolGate", "recordTool", "toolFinal", "invoke"}

\* No call beyond the last has had an effect; none more than its first and those
\* granted; the open call is free to act.
Unreached == \A c \in 1..MaxRounds : c > Rounds => effects[c] = 0
AtMostGranted == \A c \in 1..MaxRounds : effects[c] <= 1 + grants[c]
Unused == effects[Rounds] <= grants[Rounds]

\* The outcome in hand.
InHand(c) ==
    /\ c.pc \in Dispatching => c.outcome = NoOutcome
    /\ c.pc \in {"outcomeGate", "recordPending"} => c.outcome >= 0
    /\ c.pc = "confirmGate" => c.outcome = 0

\* Somebody knows that the tool acted: the row, or the call.
Known ==
    \/ run.reason = "UNCERTAIN_NON_IDEMPOTENT" \/ run.status \in TERMINAL_STATUSES
    \/ Unrecorded

\* With a call open and no Step of it under way, the tool has been granted what it
\* does next, unless somebody knows that it acted.
EffectsKnown ==
    /\ Unreached /\ InHand(call)
    /\ snapshot.effect = "NON_IDEMPOTENT" /\ ~torn =>
        /\ AtMostGranted
        /\ call.pc \in Dispatching => Unused
        /\ call.pc = "blameStep" /\ call.outcome = NoOutcome /\ ~Closed => Unused
        /\ ~Closed /\ InFlight = {} => Unused \/ Known

(* Approvals. *)

Released(i) ==
    /\ <<"FINAL_OUTPUT", i>> \in approved
    /\ i \in BusinessDone /\ \A j \in BusinessDone : j <= i
    /\ snapshot.output # "none" => steps[i].reply = "good"

ApprovalsKept ==
    /\ call.pc = "start" => run.status = "CREATED"
    /\ \A i \in Done("TOOL") : <<"TOOL_OUTCOME", <<steps[i].key[1], steps[i].outcome>>>> \in approved
    /\ call.pc = "checkpointTool" => <<"TOOL_OUTCOME", <<Rounds, call.outcome>>>> \in approved
    /\ call.pc = "endRun" /\ call.end = "SUCCEEDED" => Released(call.step)
    /\ call.pc = "blameStep" => call.end # "SUCCEEDED"
    /\ run.status = "SUCCEEDED" => Released(run.output)

(* Frames. *)

\* What a compression was made from is what the contract allows now.
EvidenceKept == \A c \in Compressions \cap Done("MODEL") : steps[c].items = Compressible

\* A business request at this point of the loop was sent with everything read, and
\* carried what one sent now would; compressions carry the same as long as nothing but
\* inputs has been read.
FrameKept(f) ==
    /\ f.tools \in 0..ToolBoundary /\ f.models \in 0..ModelBoundary
    /\ f.purpose \in Purposes
    /\ f.purpose = "PRIMARY" /\ f.tools = ToolBoundary /\ f.models = ModelBoundary =>
        Settled /\ f.items = FrameItems
    /\ f.purpose = "CONTEXT_COMPRESSION" => Compressions # {} /\ (OnlyInput => f.items = Compressible)
    /\ f.purpose = "OUTPUT_REPAIR" => f.items = <<>>

FramesKept == FrameStable /\ \A f \in sent : FrameKept(f)

------------------------------------------------------------------------------
(* The first and the last of some numbers. *)

LEMMA LeastOf ==
    ASSUME NEW S \in SUBSET Nat, S # {}
    PROVE  Min(S) \in S
<1> DEFINE Below == {ss \in Nat \X Nat : ss[1] < ss[2]}
<1>1. IsWellFoundedOn(Below, Nat)
    BY NatLessThanWellFounded DEF OpToRel
<1>2. PICK x \in S : \A y \in S : ~(<<y, x>> \in Below)
    <2> HIDE DEF Below
    <2> QED
        BY <1>1, WFMin
<1>3. ASSUME NEW y \in S PROVE x <= y
    <2>1. x \in Nat /\ y \in Nat /\ <<y, x>> \in Nat \X Nat
        OBVIOUS
    <2>2. ~(y < x)
        BY <1>2, <2>1
    <2> QED
        BY <2>1, <2>2
<1> QED
    BY <1>3 DEF Min

LEMMA LastOfFacts ==
    ASSUME NEW n \in Nat, NEW S \in SUBSET (1..n)
    PROVE  /\ LastOf(S) \in 0..n
           /\ LastOf(S) = 0 <=> S = {}
           /\ S # {} => LastOf(S) \in S /\ LastOf(S) = Max(S)
           /\ \A x \in S : x <= LastOf(S)
<1>1. CASE S = {}
    BY <1>1 DEF LastOf
<1>2. CASE S # {}
    <2> DEFINE T == {n - x : x \in S}
    <2>1. T \in SUBSET Nat /\ T # {}
        <3>1. \A x \in S : n - x \in Nat
            OBVIOUS
        <3> QED
            BY <1>2, <3>1
    <2>2. PICK t \in T : \A y \in T : t <= y
        <3> DEFINE Below == {ss \in Nat \X Nat : ss[1] < ss[2]}
        <3>1. IsWellFoundedOn(Below, Nat)
            BY NatLessThanWellFounded DEF OpToRel
        <3>2. PICK x \in T : \A y \in T : ~(<<y, x>> \in Below)
            <4> HIDE DEF Below, T
            <4> QED
                BY <2>1, <3>1, WFMin
        <3>3. ASSUME NEW y \in T PROVE x <= y
            <4>1. x \in Nat /\ y \in Nat /\ <<y, x>> \in Nat \X Nat
                BY <2>1
            <4>2. ~(y < x)
                BY <3>2, <4>1
            <4> QED
                BY <4>1, <4>2
        <3> QED
            BY <3>3
    <2>3. PICK x \in S : t = n - x
        BY <2>2
    <2>4. \A y \in S : x >= y
        BY <2>2, <2>3
    <2>5. Max(S) \in S /\ \A y \in S : Max(S) >= y
        BY <2>4 DEF Max
    <2>6. PICK m : m = Max(S)
        OBVIOUS
    <2>7. LastOf(S) = m
        BY <1>2, <2>6 DEF LastOf
    <2>8. m \in 1..n
        BY <2>5, <2>6
    <2> QED
        BY <1>2, <2>5, <2>6, <2>7, <2>8
<1> QED
    BY <1>1, <1>2

------------------------------------------------------------------------------
(* What a write does to the journal. *)

\* A Step is created; a Step gets new contents.
Adds(s) ==
    /\ DOMAIN steps' = 1..(Len(steps) + 1) /\ Len(steps') = Len(steps) + 1
    /\ \A j \in DOMAIN steps : steps'[j] = steps[j]
    /\ steps'[Len(steps) + 1] = s
    /\ steps' \in Seq(Range(steps'))
Puts(i, s) ==
    /\ DOMAIN steps' = DOMAIN steps /\ Len(steps') = Len(steps)
    /\ \A j \in DOMAIN steps : j # i => steps'[j] = steps[j]
    /\ steps'[i] = s
    /\ steps' \in Seq(Range(steps'))

LEMMA JournalDomain ==
    ASSUME Types
    PROVE  Len(steps) \in Nat /\ DOMAIN steps = 1..Len(steps)
BY DEF Types

LEMMA Sequence ==
    ASSUME NEW n \in Nat, NEW f, f = [j \in 1..n |-> f[j]]
    PROVE  /\ f \in Seq(Range(f)) /\ Len(f) = n /\ DOMAIN f = 1..n
<1>1. f \in [1..n -> Range(f)]
    <2>1. \A j \in 1..n : f[j] \in Range(f)
        BY DEF Range
    <2> QED
        BY <2>1
<1>2. f \in Seq(Range(f))
    BY <1>1
<1> QED
    BY <1>1, <1>2

LEMMA AddStep ==
    ASSUME Types, NEW s, steps' = Append(steps, s)
    PROVE  Adds(s)
<1> PICK R : R = Range(steps)
    OBVIOUS
<1> PICK n : n = Len(steps)
    OBVIOUS
<1>1. steps \in Seq(R) /\ n \in Nat
    BY DEF Types
<1>2. steps' \in Seq(R \cup {s})
    BY <1>1
<1>3. /\ Len(steps') = n + 1 /\ DOMAIN steps' = 1..(n + 1)
      /\ \A j \in 1..n : steps'[j] = steps[j]
      /\ steps'[n + 1] = s
    BY <1>1, <1>2
<1>4. steps' \in Seq(Range(steps'))
    <2>1. PICK q : q = steps'
        OBVIOUS
    <2>2. PICK T : T = R \cup {s}
        OBVIOUS
    <2>3. q \in [1..(n + 1) -> T]
        <3>1. q \in Seq(T)
            BY <1>2, <2>1, <2>2
        <3>2. Len(q) = n + 1
            BY <1>3, <2>1
        <3>3. q \in [1..Len(q) -> T]
            BY <3>1
        <3> QED
            BY <3>2, <3>3
    <2>4. q = [j \in 1..(n + 1) |-> q[j]] /\ n + 1 \in Nat
        BY <1>1, <2>3
    <2> QED
        BY <2>1, <2>4, Sequence
<1> QED
    BY <1>1, <1>3, <1>4 DEF Adds

LEMMA PutStep ==
    ASSUME Types, NEW i \in DOMAIN steps, NEW s, steps' = [steps EXCEPT ![i] = s]
    PROVE  Puts(i, s)
<1> PICK n : n = Len(steps)
    OBVIOUS
<1>1. n \in Nat /\ DOMAIN steps = 1..n
    BY DEF Types
<1>2. steps' = [j \in 1..n |-> steps'[j]] /\ DOMAIN steps' = 1..n
    BY <1>1
<1>3. steps' \in Seq(Range(steps')) /\ Len(steps') = n
    BY <1>1, <1>2, Sequence
<1>4. (\A j \in DOMAIN steps : j # i => steps'[j] = steps[j]) /\ steps'[i] = s
    BY <1>1
<1> QED
    BY <1>1, <1>2, <1>3, <1>4 DEF Puts

\* No Checkpoint appears or changes, and Steps keep what they are for.
SameCheckpoint(s, t) ==
    /\ t.type = s.type /\ t.key = s.key /\ t.done = s.done /\ t.items = s.items /\ t.reply = s.reply
    /\ s.done => t.outcome = s.outcome
Keeps ==
    /\ snapshot' = snapshot
    /\ DOMAIN steps \subseteq DOMAIN steps'
    /\ \A j \in DOMAIN steps : SameCheckpoint(steps[j], steps'[j])
    /\ \A j \in DOMAIN steps' : j \notin DOMAIN steps => ~steps'[j].done

\* The Model Steps, and the Tool Steps, are untouched.
SameModels ==
    /\ StepsOf("MODEL")' = StepsOf("MODEL")
    /\ \A j \in StepsOf("MODEL") : steps'[j] = steps[j]
SameTools ==
    /\ StepsOf("TOOL")' = StepsOf("TOOL")
    /\ \A j \in StepsOf("TOOL") : steps'[j] = steps[j]

\* What depends on Checkpoints alone.
SameView ==
    /\ Done("CONTEXT")' = Done("CONTEXT") /\ Done("MODEL")' = Done("MODEL") /\ Done("TOOL")' = Done("TOOL")
    /\ BusinessDone' = BusinessDone /\ Rounds' = Rounds /\ Answered' = Answered /\ Closed' = Closed
    /\ ToolBoundary' = ToolBoundary /\ ModelBoundary' = ModelBoundary
    /\ Plan' = Plan
    /\ \A s : Due(s)' = Due(s)
    /\ StageResults' = StageResults /\ Compressible' = Compressible
    /\ HasDone' = HasDone /\ OnlyInput' = OnlyInput /\ InputDone' = InputDone /\ Settled' = Settled

LEMMA DoneKept ==
    ASSUME Types, Keeps, NEW t
    PROVE  Done(t)' = Done(t)
BY DEF Types, StepOK, Keeps, SameCheckpoint, Done, StepsOf

LEMMA BusinessKept ==
    ASSUME Types, Keeps
    PROVE  BusinessDone' = BusinessDone
<1>1. Done("MODEL")' = Done("MODEL") /\ \A j \in Done("MODEL") : j \in DOMAIN steps
    BY DoneKept DEF Done, StepsOf
<1>2. \A j \in Done("MODEL") : Purpose(j)' = Purpose(j) /\ (j \in StepsOf("MODEL")) /\ (j \in StepsOf("MODEL"))'
    BY <1>1 DEF Keeps, SameCheckpoint, Purpose, Done, StepsOf
<1> QED
    BY <1>1, <1>2 DEF BusinessDone, ModelSteps

LEMMA RoundsKept ==
    ASSUME Types, Keeps
    PROVE  Rounds' = Rounds /\ Answered' = Answered /\ Closed' = Closed
<1>1. BusinessDone' = BusinessDone /\ Done("TOOL")' = Done("TOOL")
    BY BusinessKept, DoneKept
<1>2. \A j \in BusinessDone : steps'[j].reply = steps[j].reply
    BY DEF Keeps, SameCheckpoint, BusinessDone, Done, StepsOf
<1>3. \A j \in Done("TOOL") : steps'[j].key = steps[j].key
    BY DEF Keeps, SameCheckpoint, Done, StepsOf
<1>4. Rounds' = Rounds
    <2>1. {i \in BusinessDone : steps[i].reply = "tool"}' = {i \in BusinessDone : steps[i].reply = "tool"}
        BY <1>1, <1>2
    <2> QED
        BY <2>1 DEF Rounds
<1>5. Answered' = Answered
    BY <1>1, <1>3, <1>4 DEF Answered
<1> QED
    BY <1>4, <1>5 DEF Closed

LEMMA DueKept ==
    ASSUME Types, Keeps, NEW s
    PROVE  Due(s)' = Due(s)
<1>1. Done("CONTEXT")' = Done("CONTEXT") /\ ToolBoundary' = ToolBoundary /\ ModelBoundary' = ModelBoundary
    BY DoneKept DEF ToolBoundary, ModelBoundary
<1>2. Plan' = Plan
    BY DEF Keeps, Plan
<1>3. \A j \in Done("CONTEXT") : steps'[j].key = steps[j].key
    BY DEF Keeps, SameCheckpoint, Done, StepsOf
<1>4. \A n : StageKey(Plan[n])' = StageKey(Plan[n])
    BY <1>1, <1>2 DEF StageKey, Boundary
<1> QED
    BY <1>1, <1>2, <1>3, <1>4 DEF Due, StagesForScope

LEMMA ResultsKept ==
    ASSUME Types, Keeps
    PROVE  StageResults' = StageResults
<1>1. Done("CONTEXT")' = Done("CONTEXT")
    BY DoneKept
<1>2. \A j \in Done("CONTEXT") : steps'[j].key = steps[j].key /\ steps'[j].items = steps[j].items
    BY DEF Keeps, SameCheckpoint, Done, StepsOf
<1> QED
    BY <1>1, <1>2 DEF StageResults

LEMMA ViewKept ==
    ASSUME Types, Keeps
    PROVE  SameView
<1>1. Done("CONTEXT")' = Done("CONTEXT") /\ Done("MODEL")' = Done("MODEL") /\ Done("TOOL")' = Done("TOOL")
    BY DoneKept
<1>2. ToolBoundary' = ToolBoundary /\ ModelBoundary' = ModelBoundary
    BY <1>1 DEF ToolBoundary, ModelBoundary
<1>3. Plan' = Plan /\ snapshot' = snapshot
    BY DEF Keeps, Plan
<1>4. \A s : Due(s)' = Due(s)
    BY DueKept
<1>5. StageResults' = StageResults /\ Compressible' = Compressible
    BY <1>3, ResultsKept DEF Compressible
<1>6. HasDone' = HasDone
    BY DEF Keeps, SameCheckpoint, HasDone, Types, StepOK
<1>7. OnlyInput' = OnlyInput
    <2>1. \A j \in Done("CONTEXT") : steps'[j].key = steps[j].key
        BY DEF Keeps, SameCheckpoint, Done, StepsOf
    <2> QED
        BY <1>1, <2>1 DEF OnlyInput
<1>8. InputDone' = InputDone /\ Settled' = Settled
    BY <1>2, <1>4 DEF InputDone, Settled
<1> QED
    BY <1>1, <1>2, <1>3, <1>4, <1>5, <1>6, <1>7, <1>8, BusinessKept, RoundsKept DEF SameView

LEMMA ModelsKept ==
    ASSUME SameModels
    PROVE  /\ Compressions' = Compressions /\ Repairs' = Repairs
           /\ ModelSteps("PRIMARY")' = ModelSteps("PRIMARY")
           /\ Unsure' = Unsure /\ Done("MODEL")' = Done("MODEL") /\ BusinessDone' = BusinessDone
<1>1. \A p : ModelSteps(p)' = ModelSteps(p)
    BY DEF SameModels, ModelSteps, Purpose
<1>2. Done("MODEL")' = Done("MODEL")
    BY DEF SameModels, Done
<1>3. \A j \in StepsOf("MODEL") : \A A : HasAttempt(j, A)' = HasAttempt(j, A)
    BY DEF SameModels, HasAttempt, Range
<1>4. Unsure' = Unsure
    BY <1>2, <1>3 DEF SameModels, Unsure
<1> QED
    BY <1>1, <1>2, <1>4 DEF Compressions, Repairs, BusinessDone

LEMMA SentKept ==
    ASSUME SameModels
    PROVE  Unspent' = Unspent
<1>1. \A i \in Repairs : steps'[i] = steps[i]
    BY DEF SameModels, Repairs, ModelSteps
<1> QED
    BY <1>1, ModelsKept DEF Unspent

LEMMA RefusalsKept ==
    ASSUME SameModels, Closed' = Closed, \A i \in Repairs : steps[i].atts # <<>> \/ Refusal(i)
    PROVE  (\A i \in Repairs : steps[i].atts # <<>> \/ Refusal(i))'
<1>1. \A i \in Repairs : steps'[i] = steps[i]
    BY DEF SameModels, Repairs, ModelSteps
<1>2. \A i \in Repairs : Refusal(i)' = Refusal(i)
    BY <1>1, ModelsKept DEF Refusal, SameModels
<1> QED
    BY <1>1, <1>2, ModelsKept

LEMMA ToolsKept ==
    ASSUME SameTools
    PROVE  InFlight' = InFlight /\ HeldSteps' = HeldSteps /\ Done("TOOL")' = Done("TOOL")
<1>1. \A j \in StepsOf("TOOL") : \A A : EndsIn(j, A)' = EndsIn(j, A)
    BY DEF SameTools, EndsIn
<1> QED
    BY <1>1 DEF SameTools, InFlight, HeldSteps, Done

------------------------------------------------------------------------------
(* Where a call goes on, it finds what it relies on.  The lemmas about Entry  *)
(* operators are stated for a state, and used for the next one as well.       *)

\* A record a call may go on with, and that only a gate could have followed otherwise.
Plain(c) ==
    /\ c.pc \notin {"idle", "inputGate", "start", "outcomeGate", "recordPending", "confirmGate",
                    "continueGate", "checkpointTool"}
    /\ c.end # "SUCCEEDED" /\ c.outcome = NoOutcome
    /\ snapshot.effect = "NON_IDEMPOTENT" /\ c.pc \in Dispatching \cup {"blameStep"} =>
        c.pc = "toolGate" /\ InFlight = {}
Good(c) == CallOK(c) /\ AtPlace(c) /\ Plain(c)

\* Neither a value to be checkpointed nor one to be released, nor a Run to be started.
Quiet(c) ==
    c.pc \notin {"start", "checkpointTool"} /\ (c.pc \in {"endRun", "blameStep"} => c.end # "SUCCEEDED")

LEMMA Bounds ==
    /\ MaxAttempts \in Nat /\ RepairMax \in Nat \ {0} /\ Window \in Nat /\ MaxRounds \in Nat
    /\ MaxHolds \in Nat /\ MaxFailures \in Nat /\ MaxCrashes \in Nat /\ MaxResolutions \in Nat
BY GatedAssumption

LEMMA StepSets ==
    ASSUME Types
    PROVE  /\ \A t : StepsOf(t) \in SUBSET (1..Len(steps)) /\ Done(t) \in SUBSET (1..Len(steps))
           /\ \A p : ModelSteps(p) \in SUBSET (1..Len(steps)) /\ ModelSteps(p) \in SUBSET StepsOf("MODEL")
           /\ BusinessDone \in SUBSET (1..Len(steps)) /\ Unsure \in SUBSET (1..Len(steps))
           /\ BusinessDone \in SUBSET Done("MODEL") /\ Unsure \cap Done("MODEL") = {}
           /\ Unsure \in SUBSET StepsOf("MODEL") /\ InFlight \in SUBSET StepsOf("TOOL")
           /\ HeldSteps \in SUBSET InFlight /\ InFlight \cap Done("TOOL") = {}
           /\ Compressions \in SUBSET (1..Len(steps)) /\ Repairs \in SUBSET (1..Len(steps))
<1>1. DOMAIN steps = 1..Len(steps)
    BY JournalDomain
<1>2. HeldSteps \in SUBSET InFlight /\ InFlight \cap Done("TOOL") = {}
    <2>1. \A i \in StepsOf("TOOL") : StepOK(steps[i]) /\ steps[i].type = "TOOL"
        BY DEF Types, StepsOf
    <2> QED
        BY <2>1 DEF HeldSteps, InFlight, EndsIn, StepOK, Done
<1> QED
    BY <1>1, <1>2 DEF StepsOf, Done, ModelSteps, BusinessDone, Unsure, InFlight, Compressions, Repairs

LEMMA LastSteps ==
    ASSUME Types, NEW S \in SUBSET (1..Len(steps))
    PROVE  /\ LastOf(S) \in 0..Len(steps)
           /\ LastOf(S) = 0 <=> S = {}
           /\ S # {} => LastOf(S) \in S /\ LastOf(S) = Max(S)
           /\ \A x \in S : x <= LastOf(S)
BY JournalDomain, LastOfFacts

LEMMA FiniteSteps ==
    ASSUME Types, NEW S \in SUBSET (1..Len(steps))
    PROVE  /\ IsFiniteSet(S) /\ Cardinality(S) \in Nat
           /\ Cardinality(S) = 0 <=> S = {}
<1>1. Len(steps) \in Nat
    BY JournalDomain
<1>2. IsFiniteSet(1..Len(steps))
    BY <1>1, FS_Interval
<1>3. IsFiniteSet(S)
    BY <1>2, FS_Subset
<1> QED
    BY <1>3, FS_CardinalityType, FS_EmptySet

LEMMA RoundsFacts ==
    ASSUME Types
    PROVE  /\ BusinessDone = {} => Rounds = 0
           /\ (\E i \in BusinessDone : steps[i].reply = "tool") => Rounds # 0
<1>1. PICK S : S = {i \in BusinessDone : steps[i].reply = "tool"}
    OBVIOUS
<1>2. S \in SUBSET (1..Len(steps))
    BY <1>1, StepSets
<1>3. Cardinality(S) = 0 <=> S = {}
    BY <1>2, FiniteSteps
<1>4. Rounds = Cardinality(S)
    BY <1>1 DEF Rounds
<1> QED
    BY <1>1, <1>3, <1>4

LEMMA PlanFacts ==
    ASSUME Types
    PROVE  /\ DOMAIN Plan \in SUBSET Nat
           /\ \A n \in DOMAIN Plan : Plan[n].scope \in Scopes
<1>1. snapshot \in Snapshots
    BY DEF Types
<1>2. CASE snapshot.plan = <<>> /\ snapshot.provider
    BY <1>2 DEF Plan, LegacyProviderStage, Scopes
<1>3. CASE ~(snapshot.plan = <<>> /\ snapshot.provider)
    <2>1. Plan = snapshot.plan
        BY <1>3 DEF Plan
    <2>2. snapshot.plan \in Seq(Range(snapshot.plan))
        BY <1>1, GatedAssumption
    <2> QED
        BY <1>1, <2>1, <2>2, GatedAssumption
<1> QED
    BY <1>2, <1>3

LEMMA DueFacts ==
    ASSUME Types, NEW s, Due(s) # {}
    PROVE  Min(Due(s)) \in Due(s)
<1>1. Due(s) \in SUBSET Nat
    BY PlanFacts DEF Due, StagesForScope
<1> QED
    BY <1>1, LeastOf

LEMMA PlaceNames ==
    Places = {"inputGate", "contextGate", "contextFinal", "toolGate", "toolFinal", "outcomeGate",
              "continueGate", "confirmGate", "outputGate",
              "idle", "start", "recordPending", "enterWaiting", "blameStep", "endRun", "unsupported",
              "recordContext", "provide", "reserve", "model", "failModelStep", "unconfirmModel",
              "recordTool", "invoke", "enterUncertain", "unconfirmTool", "checkpointTool"}
<1>1. DOMAIN Gates = {"inputGate", "contextGate", "contextFinal", "toolGate", "toolFinal",
                      "outcomeGate", "continueGate", "confirmGate", "outputGate"}
    BY DEF Gates
<1> QED
    BY <1>1 DEF Places

LEMMA AtFields ==
    ASSUME NEW p, NEW i
    PROVE  /\ DOMAIN At(p, i) = {"pc", "step", "stage", "path", "purpose", "model", "replay", "left",
                                 "outcome", "end"}
           /\ At(p, i).pc = p /\ At(p, i).step = i /\ At(p, i).stage = NoStage
           /\ At(p, i).path = "none" /\ At(p, i).purpose = "PRIMARY" /\ At(p, i).model = 0
           /\ At(p, i).replay \in BOOLEAN /\ At(p, i).left = -1 /\ At(p, i).outcome = NoOutcome
           /\ At(p, i).end = "none"
BY DEF At, Idle

LEMMA AtOK ==
    ASSUME Types, NEW p \in Places, NEW i \in 0..Len(steps)
    PROVE  CallOK(At(p, i))
<1>1. /\ "none" \in Paths /\ "PRIMARY" \in Purposes /\ 0 \in 0..Len(steps) /\ -1 \in -1..RepairMax
      /\ NoOutcome \in Int /\ "none" \in Ends
    BY JournalDomain, Bounds DEF Paths, Purposes, NoOutcome, Ends
<1>2. PICK c : c = At(p, i)
    OBVIOUS
<1>3. /\ DOMAIN c = {"pc", "step", "stage", "path", "purpose", "model", "replay", "left", "outcome", "end"}
      /\ c.pc = p /\ c.step = i /\ c.path = "none" /\ c.purpose = "PRIMARY" /\ c.model = 0
      /\ c.replay \in BOOLEAN /\ c.left = -1 /\ c.outcome = NoOutcome /\ c.end = "none"
    BY <1>2, AtFields
<1>4. CallOK(c)
    BY <1>1, <1>3 DEF CallOK
<1> QED
    BY <1>2, <1>4

Reserving(p, i, l) == [At("reserve", i) EXCEPT !.purpose = p, !.left = l]

LEMMA FailModelStepOK ==
    ASSUME Types, NEW i \in 0..Len(steps), NEW p \in Purposes
    PROVE  CallOK(FailModelStep(i, p))
<1>1. CallOK(At("failModelStep", i))
    BY AtOK, PlaceNames
<1> QED
    BY <1>1 DEF CallOK, FailModelStep, Ends

LEMMA ModelEntryGood ==
    Types => \A p \in Purposes, i \in 0..Len(steps), r \in BOOLEAN, l \in -1..RepairMax :
        AtModel(Reserving(p, i, l)) => Good(ModelEntry(p, i, r, l))
<1> SUFFICES ASSUME Types, NEW p \in Purposes, NEW i \in 0..Len(steps), NEW r \in BOOLEAN,
                    NEW l \in -1..RepairMax, AtModel(Reserving(p, i, l))
             PROVE  Good(ModelEntry(p, i, r, l))
    OBVIOUS
<1>0. Len(steps) \in Nat /\ RepairMax \in Nat
    BY JournalDomain, Bounds
<1>1. CASE ModelEntry(p, i, r, l) = Reserving(p, i, l)
    <2>1. CallOK(Reserving(p, i, l))
        <3>1. CallOK(At("reserve", i))
            BY AtOK, PlaceNames
        <3> QED
            BY <3>1 DEF CallOK, Reserving
    <2>2. Reserving(p, i, l).pc = "reserve" /\ Reserving(p, i, l).end = "none"
          /\ Reserving(p, i, l).outcome = NoOutcome
        BY DEF Reserving, At, Idle
    <2> QED
        BY <1>1, <2>1, <2>2 DEF Good, AtPlace, Plain, StagePlaces, ToolPlaces, Dispatching
<1>2. CASE ModelEntry(p, i, r, l) # Reserving(p, i, l)
    <2>1. PICK c : c = FailModelStep(i, p)
        OBVIOUS
    <2>2. ModelEntry(p, i, r, l) = c
        BY <1>2, <2>1 DEF ModelEntry, Reserving
    <2>3. i = 0 => p # "OUTPUT_REPAIR"
        <3> SUFFICES ASSUME i = 0, p = "OUTPUT_REPAIR" PROVE FALSE
            OBVIOUS
        <3>1. WithinBudget(RequestItems(p), Window)
            <4>1. RequestItems(p) = <<>>
                BY DEF RequestItems
            <4> QED
                BY <4>1, Bounds DEF WithinBudget
        <3> QED
            BY <1>2, <3>1 DEF ModelEntry, Reserving
    <2>4. c.pc = "failModelStep" /\ c.step = i /\ c.purpose = p /\ c.end = "FAILED" /\ c.outcome = NoOutcome
        BY <2>1 DEF FailModelStep, At, Idle
    <2>5. CallOK(c)
        BY <2>1, FailModelStepOK
    <2>6. Reserving(p, i, l).step = i /\ Reserving(p, i, l).purpose = p
        BY DEF Reserving, At, Idle
    <2>7. AtFailure(c)
        <3>1. CASE i = 0
            <4>1. Unsure = {} /\ 0 \notin StepsOf("MODEL")
                BY <1>0, <2>6, <3>1, StepSets DEF AtModel
            <4> QED
                BY <2>3, <2>4, <2>6, <3>1, <4>1 DEF AtModel, AtFailure, Purposes
        <3>2. CASE i # 0
            BY <2>4, <2>6, <3>2 DEF AtModel, AtFailure, ModelSteps
        <3> QED
            BY <3>1, <3>2
    <2> QED
        BY <2>2, <2>4, <2>5, <2>7 DEF Good, AtPlace, Plain, StagePlaces, ToolPlaces, ModelPlaces, Dispatching
<1> QED
    BY <1>1, <1>2

\* What a Stage of a scope needs besides being due.
StageReady(s, p, i) ==
    /\ s = "TOOL_OUTCOME" => ToolBoundary > 0
    /\ IF p = "loop" THEN s # "RUN_INPUT" /\ LoopReady(i) /\ (HasDone \/ Unasked)
       ELSE s = "RUN_INPUT" /\ p \in {"execute", "resume"}
    /\ p = "execute" => OnlyInput

LEMMA BoundaryNat ==
    ASSUME Types, NEW st, st.scope \in Scopes
    PROVE  Boundary(st) \in Nat
<1>1. ToolBoundary \in Nat /\ ModelBoundary \in Nat
    BY StepSets, FiniteSteps DEF ToolBoundary, ModelBoundary
<1> QED
    BY <1>1 DEF Boundary, Scopes

\* The Step a Stage goes on with is an unfinished one of its own.
LEMMA StageStep ==
    ASSUME Types, NEW s \in Scopes, NEW n \in Due(s)
    PROVE  /\ StepAt(StageKey(Plan[n])) \in 0..Len(steps)
           /\ StepAt(StageKey(Plan[n])) # 0 =>
                /\ StepAt(StageKey(Plan[n])) \in StepsOf("CONTEXT") \ Done("CONTEXT")
                /\ steps[StepAt(StageKey(Plan[n]))].key = StageKey(Plan[n])
<1>1. PICK k : k = StageKey(Plan[n])
    OBVIOUS
<1>2. PICK S : S = {i \in DOMAIN steps : steps[i].key = k}
    OBVIOUS
<1>3. S \in SUBSET (1..Len(steps))
    BY <1>2, JournalDomain
<1>4. PICK x : x = LastOf(S)
    OBVIOUS
<1>5. x \in 0..Len(steps) /\ (x # 0 => x \in S)
    BY <1>3, <1>4, LastSteps
<1>6. StepAt(k) = x
    BY <1>2, <1>4 DEF StepAt
<1>7. ASSUME x # 0 PROVE x \in StepsOf("CONTEXT") \ Done("CONTEXT") /\ steps[x].key = k
    <2>1. x \in DOMAIN steps /\ steps[x].key = k
        BY <1>2, <1>5, <1>7
    <2>2. PICK a, b, c : k = <<a, b, c>>
        BY <1>1 DEF StageKey
    <2>3. StepOK(steps[x])
        BY <2>1 DEF Types
    <2>4. steps[x].type = "CONTEXT"
        BY <2>1, <2>2, <2>3 DEF StepOK
    <2>5. x \notin Done("CONTEXT")
        BY <1>1, <2>1 DEF Due
    <2> QED
        BY <2>1, <2>4, <2>5 DEF StepsOf
<1> QED
    BY <1>1, <1>5, <1>6, <1>7

LEMMA StageEntryGood ==
    Types => \A s \in Scopes : \A n \in Due(s), p \in {"loop", "execute", "resume"},
                                  i \in 0..Len(steps), r \in BOOLEAN :
        StageReady(s, p, i) => Good(StageEntry(Plan[n], p, i, r))
<1> SUFFICES ASSUME Types, NEW s \in Scopes, NEW n \in Due(s), NEW p \in {"loop", "execute", "resume"},
                    NEW i \in 0..Len(steps), NEW r \in BOOLEAN, StageReady(s, p, i)
             PROVE  Good(StageEntry(Plan[n], p, i, r))
    OBVIOUS
<1>1. PICK x : x = StepAt(StageKey(Plan[n]))
    OBVIOUS
<1>2. /\ x \in 0..Len(steps)
      /\ x # 0 => x \in StepsOf("CONTEXT") \ Done("CONTEXT") /\ steps[x].key = StageKey(Plan[n])
    BY <1>1, StageStep
<1>3. PICK q \in {"contextGate", "unsupported"} :
        q = IF Plan[n].transform = "PROVIDE" THEN "contextGate" ELSE "unsupported"
    OBVIOUS
<1>4. PICK c : c = [At(q, x) EXCEPT !.stage = Plan[n], !.path = p, !.model = i, !.replay = r]
    OBVIOUS
<1>5. StageEntry(Plan[n], p, i, r) = c
    BY <1>1, <1>3, <1>4 DEF StageEntry
<1>6. CallOK(At(q, x)) /\ At(q, x).pc = q /\ At(q, x).step = x /\ At(q, x).outcome = NoOutcome
      /\ At(q, x).end = "none"
    BY <1>2, AtOK, AtFields, PlaceNames
<1>7. /\ CallOK(c) /\ c.pc = q /\ c.step = x /\ c.stage = Plan[n] /\ c.path = p /\ c.model = i
      /\ c.outcome = NoOutcome /\ c.end = "none"
    <2>1. PICK d : d = At(q, x)
        OBVIOUS
    <2>2. c = [d EXCEPT !.stage = Plan[n], !.path = p, !.model = i, !.replay = r]
        BY <1>4, <2>1
    <2>3. CallOK(d) /\ d.pc = q /\ d.step = x /\ d.outcome = NoOutcome /\ d.end = "none"
        BY <1>6, <2>1
    <2> QED
        BY <2>2, <2>3 DEF CallOK, Paths
<1>8. Plan[n].scope = s
    BY DEF Due, StagesForScope
<1>9. AtStage(c)
    BY <1>2, <1>7, <1>8 DEF AtStage, StageReady
<1> QED
    BY <1>5, <1>7, <1>9 DEF Good, AtPlace, Plain, StagePlaces, ToolPlaces, ModelPlaces, Dispatching

LEMMA LoopEntryGood ==
    Types /\ Journal => \A i \in 0..Len(steps), r \in BOOLEAN : LoopReady(i) => Good(LoopEntry(i, r))
<1> SUFFICES ASSUME Types, Journal, NEW i \in 0..Len(steps), NEW r \in BOOLEAN, LoopReady(i)
             PROVE  Good(LoopEntry(i, r))
    OBVIOUS
<1>1. CASE ToolBoundary > 0 /\ Due("TOOL_OUTCOME") # {}
    <2>1. HasDone
        <3>1. Done("TOOL") # {}
            <4>1. Done("TOOL") \in SUBSET (1..Len(steps))
                BY StepSets
            <4>2. Cardinality(Done("TOOL")) = 0 <=> Done("TOOL") = {}
                BY <4>1, FiniteSteps
            <4> QED
                BY <1>1, <4>2 DEF ToolBoundary
        <3> QED
            BY <3>1 DEF HasDone, Done, StepsOf
    <2>2. Min(Due("TOOL_OUTCOME")) \in Due("TOOL_OUTCOME")
        BY <1>1, DueFacts
    <2>3. StageReady("TOOL_OUTCOME", "loop", i) /\ "TOOL_OUTCOME" \in Scopes
        BY <1>1, <2>1 DEF StageReady, Scopes
    <2> QED
        BY <1>1, <2>2, <2>3, StageEntryGood DEF LoopEntry
<1>2. CASE ~(ToolBoundary > 0 /\ Due("TOOL_OUTCOME") # {}) /\ Due("MODEL_STEP") # {}
    <2>1. Min(Due("MODEL_STEP")) \in Due("MODEL_STEP")
        BY <1>2, DueFacts
    <2>2. HasDone \/ Unasked
        <3>1. StagesForScope(Plan, "MODEL_STEP") # {}
            BY <1>2 DEF Due
        <3>2. ASSUME StepsOf("MODEL") = Compressions PROVE Unsure = {}
            <4>1. Unsure \in SUBSET StepsOf("MODEL")
                BY StepSets
            <4>2. Compressions \cap ModelSteps("PRIMARY") = {}
                BY DEF Compressions, ModelSteps
            <4>3. 0 \notin StepsOf("MODEL")
                BY StepSets, JournalDomain
            <4> QED
                BY <3>2, <4>1, <4>2, <4>3 DEF LoopReady, Resumable
        <3> QED
            BY <3>1, <3>2 DEF Journal, Unasked
    <2>3. StageReady("MODEL_STEP", "loop", i) /\ "MODEL_STEP" \in Scopes
        BY <2>2 DEF StageReady, Scopes
    <2> QED
        BY <1>2, <2>1, <2>3, StageEntryGood DEF LoopEntry
<1>3. CASE ~(ToolBoundary > 0 /\ Due("TOOL_OUTCOME") # {}) /\ Due("MODEL_STEP") = {}
    <2>1. LoopEntry(i, r) = ModelEntry("PRIMARY", i, r, -1)
        BY <1>3 DEF LoopEntry
    <2>2. Settled
        BY <1>3 DEF Settled, LoopReady
    <2>3. PICK c : c = Reserving("PRIMARY", i, -1)
        OBVIOUS
    <2>4. c.step = i /\ c.purpose = "PRIMARY" /\ c.pc = "reserve" /\ c.left = -1
        BY <2>3 DEF Reserving, At, Idle
    <2>5. AtModel(c)
        BY <2>2, <2>4 DEF AtModel, LoopReady, Resumable
    <2>6. "PRIMARY" \in Purposes /\ -1 \in -1..RepairMax
        BY Bounds DEF Purposes
    <2> QED
        BY <2>1, <2>3, <2>5, <2>6, ModelEntryGood
<1> QED
    BY <1>1, <1>2, <1>3

LEMMA CompressionIs ==
    ASSUME Types
    PROVE  /\ CompressionStep \in 0..Len(steps)
           /\ CompressionStep = 0 <=> Compressions = {}
           /\ Compressions # {} => CompressionStep \in Compressions
<1>1. Compressions \in SUBSET (1..Len(steps))
    BY StepSets
<1> QED
    BY <1>1, LastSteps DEF CompressionStep, Compressions

LEMMA SentRepairs ==
    ASSUME Journal, BusinessDone = {} \/ ~Closed \/ Unsure # {}
    PROVE  Unspent
BY DEF Journal, Unspent, Refusal

LEMMA CompressionEntryGood ==
    Types /\ Journal /\ InputDone /\ OnlyInput /\ StepsOf("MODEL") = Compressions =>
        \A r \in BOOLEAN : Good(CompressionEntry(r))
<1> SUFFICES ASSUME Types, Journal, InputDone, OnlyInput, StepsOf("MODEL") = Compressions,
                    NEW r \in BOOLEAN
             PROVE  Good(CompressionEntry(r))
    OBVIOUS
<1>1. BusinessDone = {} /\ Closed
    <2>1. BusinessDone = {}
        BY DEF BusinessDone, Compressions, Done, ModelSteps
    <2> QED
        BY <2>1, RoundsFacts DEF Closed
<1>2. Unsure \in SUBSET Compressions /\ Unsure \cap Done("MODEL") = {}
    BY StepSets
<1>3. CASE Compressible = <<>> \/ CompressionStep \in Done("MODEL")
    <2>1. Unsure = {}
        <3>1. CASE Compressible = <<>>
            BY <1>2, <3>1 DEF Journal
        <3>2. CASE CompressionStep \in Done("MODEL")
            <4>1. Compressions \subseteq {CompressionStep}
                BY CompressionIs DEF Journal
            <4> QED
                BY <1>2, <3>2, <4>1
        <3> QED
            BY <1>3, <3>1, <3>2
    <2>2. LoopReady(0) /\ 0 \in 0..Len(steps) /\ FALSE \in BOOLEAN
        BY <1>1, <2>1, JournalDomain, SentRepairs DEF LoopReady, Resumable
    <2> QED
        BY <1>3, <2>2, LoopEntryGood DEF CompressionEntry
<1>4. CASE ~(Compressible = <<>> \/ CompressionStep \in Done("MODEL"))
    <2>1. PICK i : i = CompressionStep
        OBVIOUS
    <2>2. i \in 0..Len(steps) /\ (i # 0 => i \in Compressions \ Done("MODEL")) /\ Compressions \subseteq {i}
        BY <1>4, <2>1, CompressionIs DEF Journal
    <2>3. PICK c : c = Reserving("CONTEXT_COMPRESSION", i, -1)
        OBVIOUS
    <2>4. c.step = i /\ c.purpose = "CONTEXT_COMPRESSION" /\ c.pc = "reserve" /\ c.left = -1
        BY <2>3 DEF Reserving, At, Idle
    <2>5. AtModel(c)
        BY <1>1, <1>2, <1>4, <2>2, <2>4, SentRepairs DEF AtModel, Compressions
    <2>6. "CONTEXT_COMPRESSION" \in Purposes /\ -1 \in -1..RepairMax
        BY Bounds DEF Purposes
    <2>7. CompressionEntry(r) = ModelEntry("CONTEXT_COMPRESSION", i, r, -1)
        BY <1>4, <2>1 DEF CompressionEntry
    <2> QED
        BY <2>2, <2>3, <2>5, <2>6, <2>7, ModelEntryGood
<1> QED
    BY <1>3, <1>4

LEMMA ToolEntryGood ==
    Types /\ Journal /\ ~Closed /\ Unsure = {} /\ HeldSteps = {} =>
        \A i \in 0..Len(steps), r \in BOOLEAN :
            /\ i # 0 => i \in StepsOf("TOOL") \ Done("TOOL") /\ steps[i].key = <<Rounds>>
            /\ InFlight \subseteq {i}
            /\ snapshot.effect = "NON_IDEMPOTENT" => i = 0
            => Good(ToolEntry(i, r))
<1> SUFFICES ASSUME Types, Journal, ~Closed, Unsure = {}, HeldSteps = {},
                    NEW i \in 0..Len(steps), NEW r \in BOOLEAN,
                    i # 0 => i \in StepsOf("TOOL") \ Done("TOOL") /\ steps[i].key = <<Rounds>>,
                    InFlight \subseteq {i}, snapshot.effect = "NON_IDEMPOTENT" => i = 0
             PROVE  Good(ToolEntry(i, r))
    OBVIOUS
<1>0. i = 0 => InFlight = {}
    BY StepSets, JournalDomain
<1>1. CASE ToolEntry(i, r) = At("toolGate", i)
    <2>1. PICK c : c = At("toolGate", i)
        OBVIOUS
    <2>2. CallOK(c) /\ c.pc = "toolGate" /\ c.step = i /\ c.outcome = NoOutcome /\ c.end = "none"
        BY <2>1, AtOK, AtFields, PlaceNames
    <2>3. AtTool(c)
        BY <2>2 DEF AtTool
    <2> QED
        BY <1>0, <1>1, <2>1, <2>2, <2>3 DEF Good, AtPlace, Plain, StagePlaces, ModelPlaces, Dispatching
<1>2. CASE ToolEntry(i, r) # At("toolGate", i)
    <2>1. i # 0 /\ ToolEntry(i, r) = [At("blameStep", i) EXCEPT !.end = "FAILED"]
        BY <1>2 DEF ToolEntry
    <2>2. PICK d : d = At("blameStep", i)
        OBVIOUS
    <2>3. CallOK(d) /\ d.pc = "blameStep" /\ d.step = i /\ d.outcome = NoOutcome
        BY <2>2, AtOK, AtFields, PlaceNames
    <2>4. PICK c : c = [d EXCEPT !.end = "FAILED"]
        OBVIOUS
    <2>5. CallOK(c) /\ c.pc = "blameStep" /\ c.step = i /\ c.outcome = NoOutcome /\ c.end = "FAILED"
        BY <2>3, <2>4 DEF CallOK, Ends
    <2>6. AtBlame(c)
        BY <2>1, <2>5, SentRepairs DEF AtBlame, Done
    <2>7. ToolEntry(i, r) = c
        BY <2>1, <2>2, <2>4
    <2> QED
        BY <2>1, <2>5, <2>6, <2>7
        DEF Good, AtPlace, Plain, StagePlaces, ToolPlaces, ModelPlaces, Dispatching
<1> QED
    BY <1>1, <1>2

LEMMA ResumeToolGood ==
    Types /\ Journal /\ ~Closed /\ Unsure = {} /\ HeldSteps = {} => Good(ResumeTool)
<1> SUFFICES ASSUME Types, Journal, ~Closed, Unsure = {}, HeldSteps = {} PROVE Good(ResumeTool)
    OBVIOUS
<1>1. PICK i : i = LastOf(InFlight)
    OBVIOUS
<1>2. InFlight \in SUBSET (1..Len(steps)) /\ InFlight \cap Done("TOOL") = {} /\ InFlight \in SUBSET StepsOf("TOOL")
    BY StepSets
<1>3. i \in 0..Len(steps) /\ (i = 0 <=> InFlight = {}) /\ (i # 0 => i \in InFlight)
    BY <1>1, <1>2, LastSteps
<1>4. InFlight \subseteq {i} /\ (i # 0 => i \in StepsOf("TOOL") \ Done("TOOL") /\ steps[i].key = <<Rounds>>)
    BY <1>2, <1>3 DEF Journal
<1>5. ASSUME NEW p \in {"enterUncertain", "unconfirmTool"}, i # 0,
             snapshot.effect = "NON_IDEMPOTENT" <=> p = "enterUncertain"
      PROVE  Good(At(p, i))
    <2>1. PICK c : c = At(p, i)
        OBVIOUS
    <2>2. CallOK(c) /\ c.pc = p /\ c.step = i /\ c.outcome = NoOutcome /\ c.end = "none"
        BY <1>3, <2>1, AtOK, AtFields, PlaceNames
    <2>3. AtTool(c)
        BY <1>4, <1>5, <2>2 DEF AtTool
    <2> QED
        BY <2>1, <2>2, <2>3 DEF Good, AtPlace, Plain, StagePlaces, ModelPlaces, Dispatching
<1>6. (snapshot.effect = "NON_IDEMPOTENT" => i = 0) => Good(ToolEntry(i, FALSE))
    BY <1>3, <1>4, ToolEntryGood
<1>7. ResumeTool = CASE i # 0 /\ snapshot.effect = "NON_IDEMPOTENT" -> At("enterUncertain", i)
                     [] i # 0 /\ snapshot.effect # "NON_IDEMPOTENT" /\ EndsIn(i, {"RUNNING"}) ->
                            At("unconfirmTool", i)
                     [] OTHER -> ToolEntry(i, FALSE)
    BY <1>1 DEF ResumeTool, InFlight
<1>8. CASE i # 0 /\ snapshot.effect = "NON_IDEMPOTENT"
    <2>1. ResumeTool = At("enterUncertain", i)
        BY <1>7, <1>8
    <2> QED
        BY <1>5, <1>8, <2>1
<1>9. CASE i # 0 /\ snapshot.effect # "NON_IDEMPOTENT" /\ EndsIn(i, {"RUNNING"})
    <2>1. ResumeTool = At("unconfirmTool", i)
        BY <1>7, <1>9
    <2> QED
        BY <1>5, <1>9, <2>1
<1>10. CASE ~(i # 0 /\ snapshot.effect = "NON_IDEMPOTENT")
            /\ ~(i # 0 /\ snapshot.effect # "NON_IDEMPOTENT" /\ EndsIn(i, {"RUNNING"}))
    <2>1. ResumeTool = ToolEntry(i, FALSE)
        BY <1>7, <1>10
    <2> QED
        BY <1>6, <1>10, <2>1
<1> QED
    BY <1>8, <1>9, <1>10

LEMMA OutputGateGood ==
    ASSUME Types, NEW i \in BusinessDone, steps[i].reply # "tool", \A j \in BusinessDone : j <= i, Unsure = {},
           Unspent
    PROVE  Good(At("outputGate", i))
<1>1. PICK c : c = At("outputGate", i)
    OBVIOUS
<1>2. CallOK(c) /\ c.pc = "outputGate" /\ c.step = i /\ c.outcome = NoOutcome /\ c.end = "none" /\ c.left = -1
    <2>1. i \in 0..Len(steps)
        BY StepSets, JournalDomain
    <2> QED
        BY <1>1, <2>1, AtOK, AtFields, PlaceNames
<1>3. AtOutput(c)
    BY <1>2 DEF AtOutput
<1> QED
    BY <1>1, <1>2, <1>3 DEF Good, AtPlace, Plain, StagePlaces, ModelPlaces, ToolPlaces, Dispatching

LEMMA UnconfirmedIs ==
    ASSUME Types
    PROVE  /\ UnconfirmedModel = LastOf(Unsure) /\ UnconfirmedModel \in 0..Len(steps)
           /\ UnconfirmedModel = 0 <=> Unsure = {}
           /\ UnconfirmedModel # 0 => UnconfirmedModel \in Unsure
<1>1. UnconfirmedModel = LastOf(Unsure)
    BY DEF UnconfirmedModel, Unsure
<1>2. Unsure \in SUBSET (1..Len(steps))
    BY StepSets
<1> QED
    BY <1>1, <1>2, LastSteps

LEMMA ResumeJournalGood ==
    Types /\ Journal /\ InputDone /\ Unspent /\ HeldSteps = {} => Good(ResumeJournal)
<1> SUFFICES ASSUME Types, Journal, InputDone, Unspent, HeldSteps = {} PROVE Good(ResumeJournal)
    OBVIOUS
<1>1. PICK u : u = UnconfirmedModel
    OBVIOUS
<1>2. PICK last : last = LastOf(BusinessDone)
    OBVIOUS
<1>3. PICK R : R = {i \in StepsOf("MODEL") : steps[i].status = "RUNNING"}
    OBVIOUS
<1>4. PICK running : running = LastOf(R)
    OBVIOUS
<1>5. u \in 0..Len(steps) /\ (u = 0 <=> Unsure = {}) /\ (u # 0 => u \in Unsure) /\ Unsure \subseteq {u}
    BY <1>1, UnconfirmedIs DEF Journal
<1>6. /\ last = 0 <=> BusinessDone = {}
      /\ last # 0 => last \in BusinessDone
      /\ \A j \in BusinessDone : j <= last
    <2>1. BusinessDone \in SUBSET (1..Len(steps))
        BY StepSets
    <2> QED
        BY <1>2, <2>1, LastSteps
<1>7. running \in 0..Len(steps) /\ (running # 0 => running \in R)
    <2>1. R \in SUBSET (1..Len(steps))
        BY <1>3, StepSets
    <2> QED
        BY <1>4, <2>1, LastSteps
<1>8. ResumeJournal =
        CASE u # 0 /\ Purpose(u) = "OUTPUT_REPAIR" -> ModelEntry("OUTPUT_REPAIR", u, TRUE, -1)
          [] u # 0 /\ Purpose(u) = "CONTEXT_COMPRESSION" -> CompressionEntry(TRUE)
          [] u # 0 /\ Purpose(u) = "PRIMARY" -> LoopEntry(u, TRUE)
          [] u = 0 /\ last = 0 -> LoopEntry(IF running = CompressionStep THEN 0 ELSE running, FALSE)
          [] u = 0 /\ last # 0 /\ steps[last].reply # "tool" -> At("outputGate", last)
          [] u = 0 /\ last # 0 /\ steps[last].reply = "tool" ->
                IF Answered THEN LoopEntry(0, FALSE) ELSE ResumeTool
    BY <1>1, <1>2, <1>3, <1>4 DEF ResumeJournal
<1>9. ASSUME u # 0 PROVE u \in StepsOf("MODEL") \ Done("MODEL") /\ Purpose(u) \in Purposes /\ Closed
                         /\ \A j \in BusinessDone : j < u
    <2>1. u \in StepsOf("MODEL") \ Done("MODEL")
        BY <1>5, <1>9 DEF Unsure
    <2>2. Purpose(u) \in Purposes
        BY <2>1 DEF Types, StepOK, StepsOf, Purpose
    <2> QED
        BY <1>5, <1>9, <2>1, <2>2 DEF Journal
<1>10. CASE u # 0 /\ Purpose(u) = "OUTPUT_REPAIR"
    <2>1. ResumeJournal = ModelEntry("OUTPUT_REPAIR", u, TRUE, -1)
        BY <1>8, <1>10
    <2>2. PICK c : c = Reserving("OUTPUT_REPAIR", u, -1)
        OBVIOUS
    <2>3. c.step = u /\ c.purpose = "OUTPUT_REPAIR" /\ c.pc = "reserve" /\ c.left = -1
        BY <2>2 DEF Reserving, At, Idle
    <2>4. u \in Repairs
        BY <1>9, <1>10 DEF Repairs, ModelSteps
    <2>5. AtModel(c)
        BY <1>5, <1>9, <1>10, <2>3, <2>4 DEF AtModel, Repairs, Journal
    <2>6. "OUTPUT_REPAIR" \in Purposes /\ -1 \in -1..RepairMax /\ TRUE \in BOOLEAN
        BY Bounds DEF Purposes
    <2> QED
        BY <1>5, <2>1, <2>2, <2>5, <2>6, ModelEntryGood
<1>11. CASE u # 0 /\ Purpose(u) = "CONTEXT_COMPRESSION"
    <2>1. u \in Unsure \cap Compressions
        BY <1>5, <1>9, <1>11 DEF Compressions, ModelSteps
    <2>2. OnlyInput /\ StepsOf("MODEL") = Compressions
        BY <2>1 DEF Journal
    <2>3. ResumeJournal = CompressionEntry(TRUE)
        BY <1>8, <1>11
    <2> QED
        BY <2>2, <2>3, CompressionEntryGood
<1>12. CASE u # 0 /\ Purpose(u) = "PRIMARY"
    <2>1. ResumeJournal = LoopEntry(u, TRUE)
        BY <1>8, <1>12
    <2>2. LoopReady(u)
        BY <1>5, <1>9, <1>12 DEF LoopReady, Resumable, ModelSteps
    <2> QED
        BY <1>5, <2>1, <2>2, LoopEntryGood
<1>13. CASE u = 0 /\ last = 0
    <2>1. PICK i : i = IF running = CompressionStep THEN 0 ELSE running
        OBVIOUS
    <2>2. ResumeJournal = LoopEntry(i, FALSE)
        BY <1>8, <1>13, <2>1
    <2>3. BusinessDone = {} /\ Closed /\ Unsure = {}
        BY <1>5, <1>6, <1>13, RoundsFacts DEF Closed
    <2>4. ASSUME i # 0 PROVE i \in ModelSteps("PRIMARY") \ Done("MODEL")
        <3>1. i \in StepsOf("MODEL") /\ steps[i].status = "RUNNING"
            BY <1>3, <1>7, <2>1, <2>4
        <3>2. StepOK(steps[i])
            BY <3>1 DEF Types, StepsOf
        <3>3. i \notin Done("MODEL") /\ Purpose(i) \in Purposes
            BY <3>1, <3>2 DEF Done, StepOK, StepsOf, Purpose
        <3>4. i \notin Repairs
            BY <2>3 DEF Journal
        <3>5. i \notin Compressions
            BY <2>1, <2>4, CompressionIs DEF Journal
        <3> QED
            BY <3>1, <3>3, <3>4, <3>5 DEF Repairs, Compressions, ModelSteps, Purposes
    <2>5. LoopReady(i)
        BY <2>3, <2>4 DEF LoopReady, Resumable
    <2>6. i \in 0..Len(steps)
        BY <1>7, <2>1, JournalDomain
    <2> QED
        BY <2>2, <2>5, <2>6, LoopEntryGood
<1>14. CASE u = 0 /\ last # 0 /\ steps[last].reply # "tool"
    <2>1. ResumeJournal = At("outputGate", last)
        BY <1>8, <1>14
    <2> QED
        BY <1>5, <1>6, <1>14, <2>1, OutputGateGood
<1>15. CASE u = 0 /\ last # 0 /\ steps[last].reply = "tool"
    <2>1. ResumeJournal = IF Answered THEN LoopEntry(0, FALSE) ELSE ResumeTool
        BY <1>8, <1>15
    <2>2. CASE Answered
        <3>1. LoopReady(0) /\ 0 \in 0..Len(steps)
            BY <1>5, <1>15, <2>2, JournalDomain DEF LoopReady, Resumable, Closed
        <3> QED
            BY <2>1, <2>2, <3>1, LoopEntryGood
    <2>3. CASE ~Answered
        <3>1. ~Closed
            BY <1>6, <1>15, <2>3, RoundsFacts DEF Closed
        <3> QED
            BY <1>5, <1>15, <2>1, <2>3, <3>1, ResumeToolGood
    <2> QED
        BY <2>2, <2>3
<1> QED
    BY <1>9, <1>10, <1>11, <1>12, <1>13, <1>14, <1>15 DEF Purposes

LEMMA InputEntryGood ==
    Types /\ Journal =>
        /\ OnlyInput /\ StepsOf("MODEL") = Compressions => Good(InputEntry("execute"))
        /\ HeldSteps = {} /\ Unspent => Good(InputEntry("resume"))
<1> SUFFICES ASSUME Types, Journal
             PROVE  /\ OnlyInput /\ StepsOf("MODEL") = Compressions => Good(InputEntry("execute"))
                    /\ HeldSteps = {} /\ Unspent => Good(InputEntry("resume"))
    OBVIOUS
<1>1. ASSUME Due("RUN_INPUT") # {}, NEW p \in {"execute", "resume"}, p = "execute" => OnlyInput
      PROVE  Good(InputEntry(p))
    <2>1. Min(Due("RUN_INPUT")) \in Due("RUN_INPUT")
        BY <1>1, DueFacts
    <2>2. StageReady("RUN_INPUT", p, 0) /\ "RUN_INPUT" \in Scopes /\ 0 \in 0..Len(steps)
        BY <1>1, JournalDomain DEF StageReady, Scopes
    <2>3. InputEntry(p) = StageEntry(Plan[Min(Due("RUN_INPUT"))], p, 0, FALSE)
        BY <1>1 DEF InputEntry
    <2> QED
        BY <2>1, <2>2, <2>3, StageEntryGood
<1>2. ASSUME Due("RUN_INPUT") = {}, OnlyInput, StepsOf("MODEL") = Compressions
      PROVE  Good(InputEntry("execute"))
    BY <1>2, CompressionEntryGood DEF InputEntry, InputDone
<1>3. ASSUME Due("RUN_INPUT") = {}, HeldSteps = {}, Unspent PROVE Good(InputEntry("resume"))
    BY <1>3, ResumeJournalGood DEF InputEntry, InputDone
<1> QED
    BY <1>1, <1>2, <1>3

LEMMA EndRunGood ==
    ASSUME Types, NEW e \in {"FAILED", "REJECTED"}
    PROVE  Good(EndRun(e))
<1>1. EndRun(e) = [Idle EXCEPT !.pc = "endRun", !.end = e]
    BY DEF EndRun
<1>2. PICK c : c = EndRun(e)
    OBVIOUS
<1>3. c.pc = "endRun" /\ c.outcome = NoOutcome /\ c.end = e
    BY <1>2 DEF EndRun, Idle
<1>4. CallOK(c)
    <2>1. /\ "none" \in Paths /\ "PRIMARY" \in Purposes /\ 0 \in 0..Len(steps) /\ -1 \in -1..RepairMax
          /\ NoOutcome \in Int /\ e \in Ends /\ "endRun" \in Places
        BY JournalDomain, Bounds, PlaceNames DEF Paths, Purposes, NoOutcome, Ends
    <2>2. /\ DOMAIN c = {"pc", "step", "stage", "path", "purpose", "model", "replay", "left", "outcome", "end"}
          /\ c.step = 0 /\ c.path = "none" /\ c.purpose = "PRIMARY" /\ c.model = 0
          /\ c.replay \in BOOLEAN /\ c.left = -1
        BY <1>2 DEF EndRun, Idle
    <2> QED
        BY <1>3, <2>1, <2>2 DEF CallOK
<1> QED
    BY <1>2, <1>3, <1>4 DEF Good, AtPlace, Plain, StagePlaces, ToolPlaces, ModelPlaces, Dispatching

LEMMA ResumeModelGood == Types /\ Journal /\ HeldSteps = {} => Good(ResumeModel)
<1> SUFFICES ASSUME Types, Journal, HeldSteps = {} PROVE Good(ResumeModel)
    OBVIOUS
<1>1. PICK u : u = UnconfirmedModel
    OBVIOUS
<1>2. ASSUME u # 0 PROVE Good(FailModelStep(u, Purpose(u)))
    <2>1. u \in StepsOf("MODEL") /\ u \in 0..Len(steps)
        BY <1>1, <1>2, UnconfirmedIs, StepSets
    <2>2. PICK p : p = Purpose(u)
        OBVIOUS
    <2>3. p \in Purposes
        BY <2>1, <2>2 DEF Types, StepOK, StepsOf, Purpose
    <2>4. PICK c : c = FailModelStep(u, p)
        OBVIOUS
    <2>5. c.pc = "failModelStep" /\ c.step = u /\ c.end = "FAILED" /\ c.outcome = NoOutcome
        BY <2>4 DEF FailModelStep, At, Idle
    <2>6. CallOK(c) /\ AtFailure(c)
        <3>1. Unspent
            BY <1>1, <1>2, UnconfirmedIs, SentRepairs
        <3>2. 0 \notin StepsOf("MODEL")
            BY StepSets, JournalDomain
        <3> QED
            BY <1>2, <2>1, <2>3, <2>4, <2>5, <3>1, <3>2, FailModelStepOK DEF AtFailure
    <2> QED
        BY <2>2, <2>4, <2>5, <2>6 DEF Good, AtPlace, Plain, StagePlaces, ToolPlaces, ModelPlaces, Dispatching
<1>3. Good(EndRun("FAILED"))
    BY EndRunGood
<1>4. CASE Unspent
    <2>1. Good(InputEntry("resume"))
        BY <1>4, InputEntryGood
    <2> QED
        BY <1>1, <1>2, <1>3, <2>1 DEF ResumeModel
<1>5. CASE ~Unspent
    <2>1. PICK i \in Repairs : Refusal(i)
        BY <1>5 DEF Journal, Unspent
    <2>2. u = 0
        BY <1>1, <2>1, UnconfirmedIs DEF Refusal
    <2>3. PICK last : last = LastOf(StepsOf("MODEL"))
        OBVIOUS
    <2>4. StepsOf("MODEL") \in SUBSET (1..Len(steps)) /\ i \in StepsOf("MODEL")
        BY StepSets DEF Repairs, ModelSteps
    <2>5. last \in StepsOf("MODEL") /\ i <= last
        BY <2>3, <2>4, LastSteps
    <2>6. last = i /\ last # 0 /\ steps[last].status = "FAILED"
        BY <2>1, <2>4, <2>5, JournalDomain DEF Refusal
    <2> QED
        BY <1>1, <1>3, <2>2, <2>3, <2>6 DEF ResumeModel
<1> QED
    BY <1>4, <1>5

\* An open call, like every Tool Step, follows a response.
LEMMA ToolMeansDone ==
    ASSUME Types, Journal, StepsOf("TOOL") # {} \/ ~Closed
    PROVE  HasDone
<1>1. Rounds # 0
    <2>1. ASSUME NEW i \in StepsOf("TOOL") PROVE Rounds # 0
        <3>1. steps[i].key[1] \in Nat \ {0} /\ steps[i].key[1] <= Rounds
            BY DEF Types, StepOK, StepsOf, Journal
        <3> QED
            BY <3>1
    <2> QED
        BY <2>1 DEF Closed
<1>2. BusinessDone # {}
    BY <1>1, RoundsFacts
<1> QED
    BY <1>2 DEF BusinessDone, Done, StepsOf, HasDone

LEMMA ResumeRunningGood == Types /\ Journal => Good(ResumeRunning)
<1> SUFFICES ASSUME Types, Journal PROVE Good(ResumeRunning)
    OBVIOUS
<1>1. CASE HeldSteps # {}
    <2>1. PICK i : i = Max(HeldSteps)
        OBVIOUS
    <2>2. HeldSteps \in SUBSET (1..Len(steps)) /\ StepsOf("TOOL") # {}
        BY <1>1, StepSets
    <2>3. i \in 0..Len(steps)
        BY <1>1, <2>1, <2>2, LastSteps, JournalDomain
    <2>4. PICK c : c = At("enterWaiting", i)
        OBVIOUS
    <2>5. CallOK(c) /\ c.pc = "enterWaiting" /\ c.outcome = NoOutcome /\ c.end = "none"
        BY <2>3, <2>4, AtOK, AtFields, PlaceNames
    <2>6. HasDone
        BY <2>2, ToolMeansDone
    <2>7. ResumeRunning = c
        BY <1>1, <2>1, <2>4 DEF ResumeRunning
    <2> QED
        BY <2>5, <2>6, <2>7 DEF Good, AtPlace, Plain, StagePlaces, ToolPlaces, ModelPlaces, Dispatching
<1>2. CASE HeldSteps = {} /\ UnconfirmedModel # 0 /\ EndsIn(UnconfirmedModel, {"RUNNING"})
    <2>1. PICK u : u = UnconfirmedModel
        OBVIOUS
    <2>2. PICK c : c = At("unconfirmModel", u)
        OBVIOUS
    <2>3. u \in Unsure /\ u \in 0..Len(steps)
        BY <1>2, <2>1, UnconfirmedIs
    <2>4. CallOK(c) /\ c.pc = "unconfirmModel" /\ c.step = u /\ c.outcome = NoOutcome /\ c.end = "none"
        BY <2>2, <2>3, AtOK, AtFields, PlaceNames
    <2>5. ResumeRunning = c
        BY <1>2, <2>1, <2>2 DEF ResumeRunning
    <2> QED
        BY <2>3, <2>4, <2>5 DEF Good, AtPlace, Plain, StagePlaces, ToolPlaces, ModelPlaces, Dispatching
<1>3. CASE HeldSteps = {} /\ ~(UnconfirmedModel # 0 /\ EndsIn(UnconfirmedModel, {"RUNNING"}))
    BY <1>3, ResumeModelGood DEF ResumeRunning
<1> QED
    BY <1>1, <1>2, <1>3

------------------------------------------------------------------------------
(* Repairs. *)

RepairAttempts(i) == {i} \X DOMAIN steps[i].atts

\* Every repair Step has used an attempt.
LEMMA RepairsUsed ==
    ASSUME Types, Unspent
    PROVE  /\ Cardinality(Repairs) \in Nat
           /\ RepairsLeft \in 0..RepairMax
           /\ RepairsLeft # 0 => Cardinality(Repairs) + RepairsLeft <= RepairMax
<1>1. PICK R : R = Repairs
    OBVIOUS
<1>2. R \in SUBSET (1..Len(steps)) /\ IsFiniteSet(R) /\ Cardinality(R) \in Nat
    <2>1. R \in SUBSET (1..Len(steps))
        BY <1>1, StepSets
    <2> QED
        BY <2>1, FiniteSteps
<1>3. \A i \in R : steps[i].atts \in Seq(AttemptStates) /\ 1 \in DOMAIN steps[i].atts
    <2> SUFFICES ASSUME NEW i \in R
                 PROVE  steps[i].atts \in Seq(AttemptStates) /\ 1 \in DOMAIN steps[i].atts
        OBVIOUS
    <2>1. PICK a : a = steps[i].atts
        OBVIOUS
    <2>2. i \in DOMAIN steps
        BY <1>2, JournalDomain
    <2>3. a \in Seq(AttemptStates) /\ a # <<>>
        BY <1>1, <2>1, <2>2 DEF Types, StepOK, Unspent
    <2>4. 1 \in DOMAIN a
        BY <2>3
    <2> QED
        BY <2>1, <2>3, <2>4
<1>4. PICK B : B = {RepairAttempts(i) : i \in R}
    OBVIOUS
<1>5. IsFiniteSet(B)
    <2>1. PICK f : f = [i \in R |-> RepairAttempts(i)]
        OBVIOUS
    <2>2. f \in Surjection(R, B)
        BY <1>4, <2>1 DEF Surjection
    <2> QED
        BY <1>2, <2>2, FS_Surjection
<1>6. \A T \in B : IsFiniteSet(T)
    <2> SUFFICES ASSUME NEW i \in R PROVE IsFiniteSet(RepairAttempts(i))
        BY <1>4
    <2>1. IsFiniteSet(DOMAIN steps[i].atts)
        <3>1. PICK n : n = Len(steps[i].atts)
            OBVIOUS
        <3>2. n \in Nat /\ DOMAIN steps[i].atts = 1..n
            BY <1>3, <3>1
        <3> QED
            BY <3>2, FS_Interval
    <2>2. IsFiniteSet({i})
        BY FS_Singleton
    <2> QED
        BY <2>1, <2>2, FS_Product DEF RepairAttempts
<1>7. PICK U : U = UNION B
    OBVIOUS
<1>8. IsFiniteSet(U)
    BY <1>5, <1>6, <1>7, FS_UNION
<1>9. Cardinality(R) <= Cardinality(U) /\ Cardinality(U) \in Nat
    <2>1. PICK f : f = [i \in R |-> <<i, 1>>]
        OBVIOUS
    <2>2. \A i \in R : <<i, 1>> \in U
        BY <1>3, <1>4, <1>7 DEF RepairAttempts
    <2>3. f \in Injection(R, U)
        BY <2>1, <2>2 DEF Injection, IsInjective
    <2>4. Cardinality(R) <= Cardinality(U)
        BY <1>8, <2>3, FS_Injection
    <2>5. Cardinality(U) \in Nat
        BY <1>8, FS_CardinalityType
    <2> QED
        BY <2>4, <2>5
<1>10. RepairsLeft = IF Cardinality(U) < RepairMax THEN RepairMax - Cardinality(U) ELSE 0
    <2>1. U = UNION {{i} \X DOMAIN steps[i].atts : i \in ModelSteps("OUTPUT_REPAIR")}
        BY <1>1, <1>4, <1>7 DEF RepairAttempts, Repairs
    <2> QED
        BY <2>1 DEF RepairsLeft, AttemptsOf
<1> QED
    BY <1>1, <1>2, <1>9, <1>10, Bounds

LEMMA RepairLoopGood ==
    ASSUME Types, Journal, InputDone, Closed, Unsure = {}, Unspent, BusinessDone # {}, Cardinality(Repairs) \in Nat,
           NEW l \in 0..RepairMax, l # 0 => Cardinality(Repairs) + l <= RepairMax
    PROVE  Good(RepairLoop(l))
<1>1. CASE l = 0
    BY <1>1, EndRunGood DEF RepairLoop
<1>2. CASE l # 0
    <2>1. PICK m : m = l - 1
        OBVIOUS
    <2>2. /\ m \in -1..RepairMax /\ m >= 0
          /\ Cardinality(Repairs) + 1 + m <= RepairMax /\ Cardinality(Repairs) + m <= RepairMax
        BY <1>2, <2>1, Bounds
    <2>3. PICK c : c = Reserving("OUTPUT_REPAIR", 0, m)
        OBVIOUS
    <2>4. c.step = 0 /\ c.purpose = "OUTPUT_REPAIR" /\ c.pc = "reserve" /\ c.left = m
        BY <2>3 DEF Reserving, At, Idle
    <2>5. AtModel(c)
        BY <2>2, <2>4 DEF AtModel
    <2>6. "OUTPUT_REPAIR" \in Purposes /\ FALSE \in BOOLEAN /\ 0 \in 0..Len(steps)
        BY JournalDomain DEF Purposes
    <2>7. RepairLoop(l) = ModelEntry("OUTPUT_REPAIR", 0, FALSE, m)
        BY <1>2, <2>1 DEF RepairLoop
    <2> QED
        BY <2>2, <2>3, <2>5, <2>6, <2>7, ModelEntryGood
<1> QED
    BY <1>1, <1>2

\* A response that is released, and one that is not.
Succeeding(c, i) ==
    /\ CallOK(c) /\ AtPlace(c) /\ c.pc = "endRun" /\ c.end = "SUCCEEDED" /\ c.step = i /\ c.outcome = NoOutcome
    /\ snapshot.output # "none" => steps[i].reply = "good"

LEMMA ValidateOutputGood ==
    ASSUME Types, Journal, NEW c, CallOK(c), AtOutput(c)
    PROVE  LET d == ValidateOutput(c.step, c.left) IN Good(d) \/ Succeeding(d, c.step)
<1>1. PICK i : i = c.step
    OBVIOUS
<1>2. PICK l : l = c.left
    OBVIOUS
<1>3. /\ i \in BusinessDone /\ steps[i].reply # "tool" /\ Unsure = {} /\ l \in -1..RepairMax
      /\ \A j \in BusinessDone : j <= i
      /\ Unspent
      /\ l >= 0 => Cardinality(Repairs) + l <= RepairMax
    BY <1>1, <1>2 DEF AtOutput, CallOK
<1>4. Closed /\ InputDone /\ i \in StepsOf("MODEL") /\ i \in 0..Len(steps)
    <2>1. i \in StepsOf("MODEL") /\ i \in 0..Len(steps)
        BY <1>3, StepSets, JournalDomain DEF BusinessDone, Done
    <2> QED
        BY <1>3, <2>1 DEF Journal
<1>5. /\ Cardinality(Repairs) \in Nat
      /\ RepairsLeft \in 0..RepairMax
      /\ RepairsLeft # 0 => Cardinality(Repairs) + RepairsLeft <= RepairMax
    BY <1>3, RepairsUsed
<1>6. CASE snapshot.output = "none" \/ steps[i].reply = "good"
    <2>1. PICK d : d = [At("endRun", i) EXCEPT !.end = "SUCCEEDED"]
        OBVIOUS
    <2>2. ValidateOutput(i, l) = d
        BY <1>6, <2>1 DEF ValidateOutput
    <2>3. CallOK(At("endRun", i)) /\ At("endRun", i).pc = "endRun" /\ At("endRun", i).step = i
          /\ At("endRun", i).outcome = NoOutcome
        BY <1>4, AtOK, AtFields, PlaceNames
    <2>4. CallOK(d) /\ d.pc = "endRun" /\ d.end = "SUCCEEDED" /\ d.step = i /\ d.outcome = NoOutcome
        BY <2>1, <2>3 DEF CallOK, Ends
    <2>5. AtPlace(d)
        BY <2>4 DEF AtPlace, StagePlaces, ModelPlaces, ToolPlaces
    <2> QED
        BY <1>1, <1>2, <1>6, <2>2, <2>4, <2>5 DEF Succeeding
<1>7. CASE ~(snapshot.output = "none" \/ steps[i].reply = "good") /\ l >= 0
    <2>1. ValidateOutput(i, l) = RepairLoop(l)
        BY <1>7 DEF ValidateOutput
    <2>2. Good(RepairLoop(l))
        BY <1>3, <1>4, <1>5, <1>7, RepairLoopGood
    <2> QED
        BY <1>1, <1>2, <2>1, <2>2
<1>8. CASE ~(snapshot.output = "none" \/ steps[i].reply = "good") /\ ~(l >= 0)
    <2>1. ValidateOutput(i, l) =
            CASE snapshot.output = "strict" -> [At("failModelStep", i) EXCEPT !.end = "FAILED"]
              [] snapshot.output = "repair" -> RepairLoop(RepairsLeft)
              [] snapshot.output = "plain" -> EndRun("FAILED")
        BY <1>8 DEF ValidateOutput
    <2>2. snapshot.output \in {"strict", "repair", "plain"}
        BY <1>8, GatedAssumption DEF Types
    <2>3. CASE snapshot.output = "strict"
        <3>1. PICK d : d = [At("failModelStep", i) EXCEPT !.end = "FAILED"]
            OBVIOUS
        <3>2. CallOK(At("failModelStep", i)) /\ At("failModelStep", i).pc = "failModelStep"
              /\ At("failModelStep", i).step = i /\ At("failModelStep", i).outcome = NoOutcome
            BY <1>4, AtOK, AtFields, PlaceNames
        <3>3. CallOK(d) /\ d.pc = "failModelStep" /\ d.end = "FAILED" /\ d.step = i /\ d.outcome = NoOutcome
            BY <3>1, <3>2 DEF CallOK, Ends
        <3>4. AtFailure(d)
            <4>1. i # 0
                BY <1>4, StepSets, JournalDomain
            <4> QED
                BY <1>3, <1>4, <3>3, <4>1 DEF AtFailure
        <3>5. Good(d)
            BY <3>3, <3>4 DEF Good, AtPlace, Plain, StagePlaces, ModelPlaces, ToolPlaces, Dispatching
        <3> QED
            BY <1>1, <1>2, <2>1, <2>3, <3>1, <3>5
    <2>4. CASE snapshot.output = "repair"
        <3>1. PICK m : m = RepairsLeft
            OBVIOUS
        <3>2. Good(RepairLoop(m))
            BY <1>3, <1>4, <1>5, <3>1, RepairLoopGood
        <3> QED
            BY <1>1, <1>2, <2>1, <2>4, <3>1, <3>2
    <2>5. CASE snapshot.output = "plain"
        BY <1>1, <1>2, <2>1, <2>5, EndRunGood
    <2> QED
        BY <2>2, <2>3, <2>4, <2>5
<1> QED
    BY <1>6, <1>7, <1>8

------------------------------------------------------------------------------
(* The same about the next state. *)

LEMMA LoopEntryNext ==
    (Types /\ Journal => \A i \in 0..Len(steps), r \in BOOLEAN : LoopReady(i) => Good(LoopEntry(i, r)))'
BY LoopEntryGood, PTL

LEMMA InputEntryNext ==
    (Types /\ Journal =>
        /\ OnlyInput /\ StepsOf("MODEL") = Compressions => Good(InputEntry("execute"))
        /\ HeldSteps = {} /\ Unspent => Good(InputEntry("resume")))'
BY InputEntryGood, PTL

LEMMA ResumeModelNext == (Types /\ Journal /\ HeldSteps = {} => Good(ResumeModel))'
BY ResumeModelGood, PTL

LEMMA ResumeRunningNext == (Types /\ Journal => Good(ResumeRunning))'
BY ResumeRunningGood, PTL

LEMMA ToolEntryNext ==
    (Types /\ Journal /\ ~Closed /\ Unsure = {} /\ HeldSteps = {} =>
        \A i \in 0..Len(steps), r \in BOOLEAN :
            /\ i # 0 => i \in StepsOf("TOOL") \ Done("TOOL") /\ steps[i].key = <<Rounds>>
            /\ InFlight \subseteq {i}
            /\ snapshot.effect = "NON_IDEMPOTENT" => i = 0
            => Good(ToolEntry(i, r)))'
BY ToolEntryGood, PTL

------------------------------------------------------------------------------
(* Steps that leave the journal alone. *)

LEMMA StillView ==
    ASSUME Types, UNCHANGED <<snapshot, steps>>
    PROVE  SameView /\ SameModels /\ SameTools
<1>1. Keeps
    BY DEF Keeps, SameCheckpoint
<1>2. SameModels /\ SameTools
    BY DEF SameModels, SameTools, StepsOf
<1> QED
    BY <1>1, <1>2, ViewKept

LEMMA StillJournal ==
    ASSUME Types, Journal, UNCHANGED <<snapshot, steps>>
    PROVE  Journal'
<1>1. SameView /\ SameModels /\ SameTools
    BY StillView
<1>2. /\ Compressions' = Compressions /\ Repairs' = Repairs /\ Unsure' = Unsure /\ InFlight' = InFlight
      /\ StepsOf("MODEL")' = StepsOf("MODEL") /\ StepsOf("TOOL")' = StepsOf("TOOL")
    BY <1>1, ModelsKept, ToolsKept DEF SameModels, SameTools
<1>3. (\A i \in Repairs : steps[i].atts # <<>> \/ Refusal(i))'
    BY <1>1, RefusalsKept DEF Journal, SameView
<1> QED
    BY <1>1, <1>2, <1>3 DEF Journal, SameView

LEMMA CallKept ==
    ASSUME Types, NEW c, CallOK(c), Len(steps') \in Nat, Len(steps') >= Len(steps)
    PROVE  CallOK(c)'
<1>1. Len(steps) \in Nat
    BY JournalDomain
<1> QED
    BY <1>1 DEF CallOK

LEMMA KeyKept ==
    ASSUME SameView, NEW st
    PROVE  StageKey(st)' = StageKey(st)
BY DEF SameView, StageKey, Boundary

\* What a call relies on stays true while Steps of other types are written.
LEMMA StagePlaceKept ==
    ASSUME SameView, SameModels, SameTools, NEW c, AtStage(c),
           c.step # 0 => /\ c.step \in (StepsOf("CONTEXT") \ Done("CONTEXT"))'
                         /\ steps'[c.step].key = steps[c.step].key
    PROVE  AtStage(c)'
<1>1. /\ Unsure' = Unsure /\ Compressions' = Compressions /\ ModelSteps("PRIMARY")' = ModelSteps("PRIMARY")
      /\ StepsOf("MODEL")' = StepsOf("MODEL") /\ StepsOf("TOOL")' = StepsOf("TOOL")
    BY ModelsKept DEF SameModels, SameTools
<1>2. StageKey(c.stage)' = StageKey(c.stage)
    BY KeyKept
<1>3. LoopReady(c.model)' = LoopReady(c.model) /\ Unasked' = Unasked
    BY <1>1, SentKept DEF LoopReady, Resumable, Unasked, SameView
<1> QED
    BY <1>2, <1>3 DEF AtStage, SameView

LEMMA ModelPlaceKept ==
    ASSUME SameView, SameModels, NEW c
    PROVE  /\ c.purpose \in Purposes => AtModel(c)' = AtModel(c)
           /\ AtFailure(c)' = AtFailure(c) /\ AtOutput(c)' = AtOutput(c)
<1>1. /\ Unsure' = Unsure /\ Compressions' = Compressions /\ Repairs' = Repairs
      /\ ModelSteps("PRIMARY")' = ModelSteps("PRIMARY") /\ StepsOf("MODEL")' = StepsOf("MODEL")
    BY ModelsKept DEF SameModels
<1>2. \A p : ModelSteps(p)' = ModelSteps(p)
    BY DEF SameModels, ModelSteps, Purpose
<1>3. \A i \in BusinessDone : steps'[i].reply = steps[i].reply
    BY DEF SameModels, BusinessDone, Done
<1> QED
    BY <1>1, <1>2, <1>3, SentKept DEF AtModel, AtFailure, AtOutput, SameView

LEMMA ToolPlaceKept ==
    ASSUME Types, SameView, SameTools, Unsure' = Unsure, snapshot' = snapshot, NEW c, AtTool(c)
    PROVE  AtTool(c)'
<1>1. InFlight' = InFlight /\ HeldSteps' = HeldSteps /\ StepsOf("TOOL")' = StepsOf("TOOL")
    BY ToolsKept DEF SameTools
<1>2. \A i \in StepsOf("TOOL") : steps'[i] = steps[i]
    BY DEF SameTools
<1>3. HeldSteps \in SUBSET StepsOf("TOOL")
    BY DEF HeldSteps
<1> QED
    BY <1>1, <1>2, <1>3 DEF AtTool, SameView

LEMMA StillPlace ==
    ASSUME Types, UNCHANGED <<snapshot, steps>>, NEW c, CallOK(c), AtPlace(c)
    PROVE  AtPlace(c)'
<1>1. SameView /\ SameModels /\ SameTools
    BY StillView
<1>2. /\ Unsure' = Unsure /\ Compressions' = Compressions /\ InFlight' = InFlight /\ HeldSteps' = HeldSteps
      /\ StepsOf("MODEL")' = StepsOf("MODEL") /\ StepsOf("TOOL")' = StepsOf("TOOL")
      /\ StepsOf("CONTEXT")' = StepsOf("CONTEXT") /\ Done("CONTEXT")' = Done("CONTEXT") /\ HasDone' = HasDone
    BY <1>1, ModelsKept, ToolsKept DEF SameModels, SameTools, SameView, StepsOf
<1>3. Unasked' = Unasked
    BY <1>2 DEF Unasked
<1>4. AtStage(c) => AtStage(c)'
    <2> SUFFICES ASSUME AtStage(c) PROVE AtStage(c)'
        OBVIOUS
    <2>1. c.step # 0 => /\ c.step \in (StepsOf("CONTEXT") \ Done("CONTEXT"))'
                        /\ steps'[c.step].key = steps[c.step].key
        BY <1>2 DEF AtStage
    <2> QED
        BY <1>1, <2>1, StagePlaceKept
<1>5. AtModel(c)' = AtModel(c) /\ AtFailure(c)' = AtFailure(c) /\ AtOutput(c)' = AtOutput(c)
    BY <1>1, ModelPlaceKept DEF CallOK
<1>6. AtTool(c) => AtTool(c)'
    BY <1>1, <1>2, ToolPlaceKept
<1>7. AtBlame(c)' = AtBlame(c)
    BY <1>1, <1>2, SentKept DEF AtBlame
<1> QED
    BY <1>2, <1>3, <1>4, <1>5, <1>6, <1>7 DEF AtPlace

LEMMA StillInv ==
    ASSUME IInv, UNCHANGED <<snapshot, steps>>, NEW c, call' = c, CallOK(c), AtPlace(c),
           RunOK', Waiting', Driving',
           effects' \in [1..MaxRounds -> Nat], grants' \in [1..MaxRounds -> Nat], torn' \in BOOLEAN
    PROVE  IInv'
<1>1. Types /\ Journal
    BY DEF IInv
<1>2. AtPlace(c)' /\ CallOK(c)'
    BY <1>1, StillPlace, CallKept, JournalDomain
<1>3. AtPlace(call)' /\ CallOK(call)'
    BY <1>2
<1>4. Rounds' = Rounds
    BY <1>1, StillView DEF SameView
<1>5. Types'
    BY <1>1, <1>3, <1>4 DEF Types
<1>6. Journal'
    BY <1>1, StillJournal
<1>7. Cardinality(Repairs)' = Cardinality(Repairs)
    BY <1>1, StillView, ModelsKept
<1> QED
    BY <1>3, <1>5, <1>6, <1>7 DEF IInv

\* The row: what a Run waits for is still there.
LEMMA WaitingKept ==
    ASSUME Types, Waiting, UNCHANGED <<snapshot, steps, run>>
    PROVE  Waiting'
<1>1. SameView /\ SameModels /\ SameTools
    BY StillView
<1>2. /\ Unsure' = Unsure /\ Compressions' = Compressions /\ InFlight' = InFlight
      /\ StepsOf("MODEL")' = StepsOf("MODEL") /\ StepsOf("TOOL")' = StepsOf("TOOL")
    BY <1>1, ModelsKept, ToolsKept DEF SameModels, SameTools
<1> QED
    BY <1>1, <1>2 DEF Waiting, Unasked, SameView

LEMMA NotWaiting ==
    ASSUME run'.reason = NoReason, run'.status # "CREATED"
    PROVE  Waiting'
BY DEF Waiting, NoReason

LEMMA IdleGood ==
    ASSUME Types
    PROVE  CallOK(Idle) /\ AtPlace(Idle)
<1>1. PICK c : c = Idle
    OBVIOUS
<1>2. /\ DOMAIN c = {"pc", "step", "stage", "path", "purpose", "model", "replay", "left", "outcome", "end"}
      /\ c.pc = "idle" /\ c.step = 0 /\ c.path = "none" /\ c.purpose = "PRIMARY" /\ c.model = 0
      /\ c.replay \in BOOLEAN /\ c.left = -1 /\ c.outcome = NoOutcome /\ c.end = "none"
    BY <1>1 DEF Idle
<1>3. /\ "none" \in Paths /\ "PRIMARY" \in Purposes /\ 0 \in 0..Len(steps) /\ -1 \in -1..RepairMax
      /\ NoOutcome \in Int /\ "none" \in Ends /\ "idle" \in Places
    BY JournalDomain, Bounds, PlaceNames DEF Paths, Purposes, NoOutcome, Ends
<1>4. CallOK(c) /\ AtPlace(c)
    BY <1>2, <1>3 DEF CallOK, AtPlace, StagePlaces, ModelPlaces, ToolPlaces
<1> QED
    BY <1>1, <1>4

LEMMA DrivesOn ==
    ASSUME call'.pc # "idle", run'.status = "RUNNING"
    PROVE  Driving'
BY DEF Driving, Idle

------------------------------------------------------------------------------
(* Calls start and resume. *)

LEMMA StartRunInv == ASSUME IInv, StartRun PROVE IInv'
<1>1. Types /\ Waiting
    BY DEF IInv
<1>2. PICK c : c = At("inputGate", 0)
    OBVIOUS
<1>3. CallOK(c) /\ c.pc = "inputGate"
    <2>1. 0 \in 0..Len(steps)
        BY <1>1, JournalDomain
    <2> QED
        BY <1>1, <1>2, <2>1, AtOK, AtFields, PlaceNames
<1>4. Unasked /\ ~HasDone
    <2>1. DOMAIN steps = {}
        BY <1>1 DEF StartRun, Waiting
    <2> QED
        BY <2>1 DEF Unasked, HasDone, StepsOf, Compressions, ModelSteps, Unsure
<1>5. AtPlace(c)
    BY <1>3, <1>4 DEF AtPlace, StagePlaces, ModelPlaces, ToolPlaces
<1>6. UNCHANGED <<snapshot, steps, run, effects, grants, torn>> /\ call' = c /\ run.status = "CREATED"
    BY <1>2 DEF StartRun, storeVars, history, counters
<1>7. Waiting' /\ RunOK'
    BY <1>1, <1>6, WaitingKept DEF Types, RunOK
<1>8. Driving'
    BY <1>3, <1>6 DEF Driving, Idle
<1> QED
    BY <1>1, <1>3, <1>5, <1>6, <1>7, <1>8, StillInv DEF Types

LEMMA ResumeRunInv == ASSUME IInv, ResumeRun PROVE IInv'
<1>1. Types /\ Waiting /\ Journal
    BY DEF IInv
<1>2. PICK c : c = ResumeRunning
    OBVIOUS
<1>3. CallOK(c) /\ AtPlace(c) /\ c.pc # "idle"
    BY <1>1, <1>2, ResumeRunningGood DEF Good, Plain
<1>4. UNCHANGED <<snapshot, steps, run, effects, grants, torn>> /\ call' = c /\ run.status = "RUNNING"
    BY <1>2 DEF ResumeRun, storeVars, history, counters
<1>5. Waiting' /\ RunOK'
    BY <1>1, <1>4, WaitingKept DEF Types, RunOK
<1>6. Driving'
    BY <1>3, <1>4, DrivesOn
<1> QED
    BY <1>1, <1>3, <1>4, <1>5, <1>6, StillInv DEF Types

\* The row after transition_run.
LEMMA Transitioned ==
    ASSUME NEW st \in RunStatuses, NEW re \in WaitingReasons \cup {NoReason},
           NEW ws \in 0..Len(steps), NEW o \in 0..Len(steps), Len(steps') = Len(steps),
           Transition(st, re, ws, o), re # NoReason <=> st = "WAITING"
    PROVE  RunOK' /\ run'.status = st /\ run'.reason = re /\ run'.wstep = ws /\ run'.output = o
<1>1. run'.status = st /\ run'.reason = re /\ run'.wstep = ws /\ run'.output = o
    BY DEF Transition
<1> QED
    BY <1>1 DEF RunOK

LEMMA Reopened ==
    ASSUME Types, UNCHANGED steps, Transition("RUNNING", NoReason, 0, 0)
    PROVE  RunOK' /\ Waiting' /\ run'.status = "RUNNING" /\ run'.reason = NoReason
<1>1. 0 \in 0..Len(steps) /\ "RUNNING" \in RunStatuses /\ NoReason \in WaitingReasons \cup {NoReason}
    BY JournalDomain DEF RunStatuses
<1>2. RunOK' /\ run'.status = "RUNNING" /\ run'.reason = NoReason
    BY <1>1, Transitioned
<1> QED
    BY <1>2, NotWaiting

LEMMA NothingDone ==
    ASSUME Unasked, ~HasDone
    PROVE  OnlyInput /\ StepsOf("MODEL") = Compressions
BY DEF Unasked, HasDone, OnlyInput, Done, StepsOf

LEMMA StartInv == ASSUME IInv, Start PROVE IInv'
<1>1. Types /\ Journal /\ Unasked /\ ~HasDone
    BY DEF IInv, AtPlace, Start
<1>2. PICK c : c = InputEntry("execute")
    OBVIOUS
<1>3. CallOK(c) /\ AtPlace(c) /\ c.pc # "idle"
    BY <1>1, <1>2, InputEntryGood, NothingDone DEF Good, Plain
<1>4. UNCHANGED <<snapshot, steps, effects, grants, torn>> /\ call' = c
      /\ Transition("RUNNING", NoReason, 0, 0)
    BY <1>2 DEF Start, history, counters
<1>5. RunOK' /\ Waiting' /\ run'.status = "RUNNING"
    BY <1>1, <1>4, Reopened
<1>6. Driving'
    BY <1>3, <1>4, <1>5, DrivesOn
<1> QED
    BY <1>1, <1>3, <1>4, <1>5, <1>6, StillInv DEF Types

------------------------------------------------------------------------------
(* Gates. *)

LEMMA StageNotOpen ==
    ASSUME Types, Journal, NEW c, AtStage(c)
    PROVE  /\ HasDone \/ Unasked
           /\ InFlight = {} /\ HeldSteps = {} /\ Unspent
           /\ c.path # "loop" => StepsOf("MODEL") = {} /\ StepsOf("TOOL") = {} /\ Unasked
<1>1. CASE c.path = "loop"
    <2>1. Closed /\ Unspent /\ (HasDone \/ Unasked)
        BY <1>1 DEF AtStage, LoopReady
    <2>2. InFlight = {}
        BY <2>1 DEF Journal
    <2> QED
        BY <1>1, <2>1, <2>2, StepSets
<1>2. CASE c.path # "loop"
    <2>1. ~InputDone
        BY <1>2 DEF AtStage, InputDone
    <2>2. StepsOf("MODEL") = {} /\ StepsOf("TOOL") = {}
        BY <2>1 DEF Journal
    <2>3. Unasked /\ InFlight = {} /\ HeldSteps = {} /\ Unspent
        BY <2>2, StepSets DEF Unspent, Repairs, Unasked, Compressions, ModelSteps, Unsure, InFlight, HeldSteps
    <2> QED
        BY <2>2, <2>3
<1> QED
    BY <1>1, <1>2

GatePlaces ==
    {"inputGate", "contextGate", "contextFinal", "toolGate", "toolFinal", "outcomeGate",
     "continueGate", "confirmGate", "outputGate"}

LEMMA GateNames == DOMAIN Gates = GatePlaces
BY DEF Gates, GatePlaces

LEMMA HeldGood ==
    ASSUME IInv, call.pc \in GatePlaces
    PROVE  CallOK(Held) /\ AtPlace(Held) /\ Held.pc \in {"recordPending", "enterWaiting"} /\ Held.end = "none"
           /\ Held.outcome = call.outcome /\ (Held.pc = "recordPending" <=> call.pc = "outcomeGate")
<1>0. Types /\ Journal /\ AtPlace(call) /\ CallOK(call)
    BY DEF IInv, Types
<1>1. PICK p \in {"recordPending", "enterWaiting"} :
        p = IF call.pc = "outcomeGate" THEN "recordPending" ELSE "enterWaiting"
    OBVIOUS
<1>2. PICK i : i = IF call.pc \in BlamingGates \cup {"continueGate"} THEN call.step ELSE 0
    OBVIOUS
<1>3. i \in 0..Len(steps)
    BY <1>0, <1>2, JournalDomain DEF CallOK
<1>4. PICK d : d = At(p, i)
    OBVIOUS
<1>5. CallOK(d) /\ d.pc = p /\ d.step = i /\ d.path = "none" /\ d.end = "none"
    BY <1>0, <1>3, <1>4, AtOK, AtFields, PlaceNames
<1>6. PICK c : c = [d EXCEPT !.outcome = call.outcome]
    OBVIOUS
<1>7. Held = c
    BY <1>1, <1>2, <1>4, <1>6 DEF Held
<1>8. CallOK(c) /\ c.pc = p /\ c.step = i /\ c.end = "none" /\ c.outcome = call.outcome
    BY <1>0, <1>5, <1>6 DEF CallOK
<1>9. AtPlace(c)
    <2>1. CASE call.pc = "outcomeGate"
        <3>1. AtTool(call) /\ i = call.step /\ c.pc = "recordPending"
            BY <1>0, <1>1, <1>2, <1>8, <2>1 DEF AtPlace, ToolPlaces, BlamingGates
        <3>2. AtTool(c)
            BY <1>8, <2>1, <3>1 DEF AtTool
        <3> QED
            BY <3>1, <3>2 DEF AtPlace, StagePlaces, ModelPlaces
    <2>2. CASE call.pc # "outcomeGate"
        <3>1. c.pc = "enterWaiting"
            BY <1>1, <1>8, <2>2
        <3>2. HasDone \/ Unasked
            <4>1. CASE call.pc = "inputGate"
                BY <1>0, <4>1 DEF AtPlace
            <4>2. CASE call.pc \in {"contextGate", "contextFinal"}
                BY <1>0, <4>2, StageNotOpen DEF AtPlace, StagePlaces
            <4>3. CASE call.pc \in {"toolGate", "toolFinal", "continueGate", "confirmGate"}
                BY <1>0, <4>3, ToolMeansDone DEF AtPlace, ToolPlaces, AtTool
            <4>4. CASE call.pc = "outputGate"
                BY <1>0, <4>4 DEF AtPlace, AtOutput, BusinessDone, Done, StepsOf, HasDone
            <4> QED
                BY <2>2, <4>1, <4>2, <4>3, <4>4 DEF GatePlaces
        <3> QED
            BY <3>1, <3>2 DEF AtPlace, StagePlaces, ModelPlaces, ToolPlaces
    <2> QED
        BY <2>1, <2>2
<1> QED
    BY <1>1, <1>7, <1>8, <1>9

LEMMA BarredGood ==
    ASSUME IInv, call.pc \in GatePlaces, NEW e \in {"REJECTED", "FAILED"}
    PROVE  CallOK(Barred(e)) /\ AtPlace(Barred(e)) /\ Barred(e).pc \in {"blameStep", "endRun"}
           /\ Barred(e).end = e /\ Barred(e).outcome = call.outcome
           /\ (Barred(e).pc = "blameStep" <=> call.pc \in BlamingGates)
<1>0. Types /\ Journal /\ AtPlace(call) /\ CallOK(call)
    BY DEF IInv, Types
<1>1. CASE call.pc \in BlamingGates
    <2>1. PICK d : d = At("blameStep", call.step)
        OBVIOUS
    <2>2. CallOK(d) /\ d.pc = "blameStep" /\ d.step = call.step
        <3>1. call.step \in 0..Len(steps)
            BY <1>0 DEF CallOK
        <3> QED
            BY <1>0, <2>1, <3>1, AtOK, AtFields, PlaceNames
    <2>3. PICK c : c = [d EXCEPT !.end = e, !.outcome = call.outcome]
        OBVIOUS
    <2>4. Barred(e) = c
        BY <1>1, <2>1, <2>3 DEF Barred
    <2>5. CallOK(c) /\ c.pc = "blameStep" /\ c.step = call.step /\ c.end = e /\ c.outcome = call.outcome
        BY <1>0, <2>2, <2>3 DEF CallOK, Ends
    <2>6. AtBlame(c)
        <3>1. CASE call.pc = "contextFinal"
            <4>1. AtStage(call) /\ call.step \in StepsOf("CONTEXT") \ Done("CONTEXT")
                BY <1>0, <3>1 DEF AtPlace, StagePlaces, AtStage
            <4>2. InFlight = {} /\ HeldSteps = {} /\ Unspent
                BY <1>0, <4>1, StageNotOpen
            <4> QED
                BY <2>5, <4>1, <4>2 DEF AtBlame, Done
        <3>2. CASE call.pc \in {"toolFinal", "outcomeGate"}
            <4>1. AtTool(call)
                BY <1>0, <3>2 DEF AtPlace, ToolPlaces
            <4> QED
                BY <1>0, <2>5, <3>2, <4>1, SentRepairs DEF AtTool, AtBlame, Done
        <3> QED
            BY <1>1, <3>1, <3>2 DEF BlamingGates
    <2> QED
        BY <1>1, <2>4, <2>5, <2>6 DEF AtPlace, StagePlaces, ModelPlaces, ToolPlaces
<1>2. CASE call.pc \notin BlamingGates
    <2>1. PICK d : d = EndRun(e)
        OBVIOUS
    <2>2. CallOK(d) /\ d.pc = "endRun" /\ d.end = e
        <3>1. Good(d)
            BY <1>0, <2>1, EndRunGood
        <3> QED
            BY <2>1, <3>1 DEF Good, EndRun, Idle
    <2>3. PICK c : c = [d EXCEPT !.outcome = call.outcome]
        OBVIOUS
    <2>4. Barred(e) = c
        BY <1>2, <2>1, <2>3 DEF Barred
    <2>5. CallOK(c) /\ c.pc = "endRun" /\ c.end = e /\ c.outcome = call.outcome
        BY <1>0, <2>2, <2>3 DEF CallOK
    <2> QED
        BY <1>2, <2>4, <2>5 DEF AtPlace, StagePlaces, ModelPlaces, ToolPlaces
<1> QED
    BY <1>1, <1>2

\* The same call, at another place.
Moved(q) == [call EXCEPT !.pc = q]

LEMMA MovedFields ==
    ASSUME CallOK(call), NEW q \in Places
    PROVE  /\ CallOK(Moved(q)) /\ Moved(q).pc = q /\ Moved(q).step = call.step
           /\ Moved(q).stage = call.stage /\ Moved(q).path = call.path /\ Moved(q).model = call.model
           /\ Moved(q).purpose = call.purpose /\ Moved(q).left = call.left
           /\ Moved(q).outcome = call.outcome /\ Moved(q).end = call.end /\ Moved(q).replay = call.replay
BY DEF CallOK, Moved

NextPlace ==
    [contextGate |-> "recordContext", contextFinal |-> "provide", toolGate |-> "recordTool",
     toolFinal |-> "invoke", outcomeGate |-> "checkpointTool", continueGate |-> "checkpointTool",
     confirmGate |-> "checkpointTool"]

LEMMA PassedCases ==
    ASSUME IInv, call.pc \in GatePlaces
    PROVE  \/ call.pc = "inputGate" /\ run.status = "CREATED" /\ Passed = At("start", 0)
           \/ call.pc = "inputGate" /\ run.status # "CREATED" /\ Good(Passed)
           \/ call.pc \in GatePlaces \ {"inputGate", "outputGate"} /\ Passed = Moved(NextPlace[call.pc])
           \/ call.pc = "outputGate" /\ (Good(Passed) \/ Succeeding(Passed, call.step))
<1>0. Types /\ Journal /\ AtPlace(call) /\ CallOK(call)
    BY DEF IInv, Types
<1>1. CASE call.pc = "inputGate" /\ run.status = "CREATED"
    BY <1>1 DEF Passed
<1>2. CASE call.pc = "inputGate" /\ run.status # "CREATED"
    <2>1. Passed = InputEntry("execute")
        BY <1>2 DEF Passed
    <2>2. Good(InputEntry("execute"))
        BY <1>0, <1>2, InputEntryGood, NothingDone DEF AtPlace
    <2> QED
        BY <1>2, <2>1, <2>2
<1>3. CASE call.pc \in GatePlaces \ {"inputGate", "outputGate"}
    BY <1>3 DEF Passed, Moved, NextPlace, GatePlaces
<1>4. CASE call.pc = "outputGate"
    <2>1. Passed = ValidateOutput(call.step, call.left)
        BY <1>4 DEF Passed
    <2>2. PICK c : c = call
        OBVIOUS
    <2>3. CallOK(c) /\ AtOutput(c)
        BY <1>0, <1>4, <2>2 DEF AtPlace
    <2>4. LET d == ValidateOutput(c.step, c.left) IN Good(d) \/ Succeeding(d, c.step)
        BY <1>0, <2>3, ValidateOutputGood
    <2> QED
        BY <1>4, <2>1, <2>2, <2>4
<1> QED
    BY <1>1, <1>2, <1>3, <1>4

LEMMA PassedGood ==
    ASSUME IInv, call.pc \in GatePlaces
    PROVE  CallOK(Passed) /\ AtPlace(Passed) /\ Passed.pc # "idle"
           /\ (run.status = "CREATED" /\ call.pc = "inputGate" => Passed.pc = "start")
<1>0. Types /\ Journal /\ AtPlace(call) /\ CallOK(call)
    BY DEF IInv, Types
<1>1. CASE call.pc = "inputGate" /\ run.status = "CREATED" /\ Passed = At("start", 0)
    <2>1. PICK c : c = At("start", 0)
        OBVIOUS
    <2>2. CallOK(c) /\ c.pc = "start"
        <3>1. 0 \in 0..Len(steps)
            BY <1>0, JournalDomain
        <3> QED
            BY <1>0, <2>1, <3>1, AtOK, AtFields, PlaceNames
    <2>3. AtPlace(c)
        BY <1>0, <1>1, <2>2 DEF AtPlace, StagePlaces, ModelPlaces, ToolPlaces
    <2> QED
        BY <1>1, <2>1, <2>2, <2>3
<1>2. CASE call.pc \in GatePlaces \ {"inputGate", "outputGate"} /\ Passed = Moved(NextPlace[call.pc])
    <2>1. PICK q : q = NextPlace[call.pc]
        OBVIOUS
    <2>2. q \in Places /\ q \in {"recordContext", "provide", "recordTool", "invoke", "checkpointTool"}
        BY <1>2, <2>1, PlaceNames DEF NextPlace, GatePlaces
    <2>3. PICK c : c = Moved(q)
        OBVIOUS
    <2>4. /\ CallOK(c) /\ c.pc = q /\ c.step = call.step /\ c.stage = call.stage /\ c.path = call.path
          /\ c.model = call.model /\ c.outcome = call.outcome
        BY <1>0, <2>2, <2>3, MovedFields
    <2>5. CASE call.pc \in {"contextGate", "contextFinal"}
        <3>1. AtStage(call) /\ q \in {"recordContext", "provide"}
              /\ (q = "provide" => call.pc = "contextFinal")
            BY <1>0, <2>1, <2>5 DEF AtPlace, StagePlaces, NextPlace
        <3>2. AtStage(c)
            BY <2>4, <3>1 DEF AtStage
        <3> QED
            BY <1>2, <2>1, <2>3, <2>4, <2>5, <3>1, <3>2 DEF AtPlace, StagePlaces, ModelPlaces, ToolPlaces
    <2>6. CASE call.pc \in {"toolGate", "toolFinal", "outcomeGate", "continueGate", "confirmGate"}
        <3>1. AtTool(call) /\ q \in {"recordTool", "invoke", "checkpointTool"}
              /\ (q = "recordTool" <=> call.pc = "toolGate") /\ (q = "invoke" <=> call.pc = "toolFinal")
            BY <1>0, <2>1, <2>6 DEF AtPlace, ToolPlaces, NextPlace
        <3>2. AtTool(c)
            BY <2>4, <2>6, <3>1 DEF AtTool
        <3> QED
            BY <1>2, <2>1, <2>3, <2>4, <2>6, <3>1, <3>2 DEF AtPlace, StagePlaces, ModelPlaces, ToolPlaces
    <2> QED
        BY <1>2, <2>5, <2>6 DEF GatePlaces
<1>3. CASE Good(Passed) /\ ~(call.pc = "inputGate" /\ run.status = "CREATED")
    BY <1>3 DEF Good, Plain
<1>4. CASE call.pc = "outputGate" /\ Succeeding(Passed, call.step)
    BY <1>4 DEF Succeeding
<1> QED
    BY <1>1, <1>2, <1>3, <1>4, PassedCases

PolicyActions == {"ALLOW", "REQUIRE_RESOLUTION", "REJECT", "fault"}

LEMMA DecideInv == ASSUME IInv, NEW action \in PolicyActions, Decide(action) PROVE IInv'
<1>0. Types /\ Journal /\ Waiting /\ Driving /\ call.pc \in GatePlaces
    BY GateNames DEF IInv, Decide
<1>1. PICK c : c = call'
    OBVIOUS
<1>2. CallOK(c) /\ AtPlace(c) /\ c.pc # "idle"
      /\ (run.status = "CREATED" /\ call.pc = "inputGate" => c.pc \in {"start", "enterWaiting", "endRun"})
    <2>1. CASE action = "ALLOW"
        <3>1. c = Passed
            BY <1>1, <2>1 DEF Decide
        <3> QED
            BY <1>0, <3>1, PassedGood
    <2>2. CASE action = "REQUIRE_RESOLUTION"
        <3>1. c = Held
            BY <1>1, <2>2 DEF Decide
        <3> QED
            BY <1>0, <3>1, HeldGood
    <2>3. CASE action = "REJECT"
        <3>1. c = Barred("REJECTED")
            BY <1>1, <2>3 DEF Decide
        <3> QED
            BY <1>0, <3>1, BarredGood DEF BlamingGates
    <2>4. CASE action = "fault"
        <3>1. c = Barred("FAILED")
            BY <1>1, <2>4 DEF Decide
        <3> QED
            BY <1>0, <3>1, BarredGood DEF BlamingGates
    <2> QED
        BY <2>1, <2>2, <2>3, <2>4 DEF PolicyActions
<1>3. UNCHANGED <<snapshot, steps, run, effects, grants>> /\ torn' \in BOOLEAN
    BY <1>0 DEF Decide, Types
<1>4. Waiting' /\ RunOK'
    BY <1>0, <1>3, WaitingKept DEF Types, RunOK
<1>5. Driving'
    <2>1. call # Idle
        BY <1>0 DEF Idle, GatePlaces
    <2>2. run.status \in {"CREATED", "RUNNING"} /\ (run.status = "CREATED" => call.pc = "inputGate")
        BY <1>0, <2>1 DEF Driving, GatePlaces
    <2> QED
        BY <1>1, <1>2, <1>3, <2>2 DEF Driving, Idle
<1> QED
    BY <1>0, <1>1, <1>2, <1>3, <1>4, <1>5, StillInv DEF Types

LEMMA EnterWaitingPolicyInv == ASSUME IInv, EnterWaitingPolicy PROVE IInv'
<1>0. Types /\ Journal /\ AtPlace(call) /\ CallOK(call)
    BY DEF IInv, Types
<1>1. UNCHANGED <<snapshot, steps, effects, grants, torn>> /\ call' = Idle
      /\ Transition("WAITING", "POLICY_RESOLUTION_REQUIRED", call.step, 0)
    BY DEF EnterWaitingPolicy, history, counters
<1>2. RunOK' /\ run'.status = "WAITING" /\ run'.reason = "POLICY_RESOLUTION_REQUIRED"
    <2>1. /\ "WAITING" \in RunStatuses /\ "POLICY_RESOLUTION_REQUIRED" \in WaitingReasons \cup {NoReason}
          /\ call.step \in 0..Len(steps) /\ 0 \in 0..Len(steps) /\ NoReason # "POLICY_RESOLUTION_REQUIRED"
        BY <1>0, JournalDomain DEF RunStatuses, WaitingReasons, NoReason, CallOK
    <2> QED
        BY <1>1, <2>1, Transitioned
<1>3. HasDone \/ Unasked
    BY <1>0 DEF AtPlace, EnterWaitingPolicy
<1>4. Waiting'
    <2>1. HasDone' = HasDone /\ Unasked' = Unasked
        <3>1. SameView /\ SameModels /\ SameTools
            BY <1>0, <1>1, StillView
        <3> QED
            BY <3>1, ModelsKept DEF SameView, SameModels, SameTools, Unasked
    <2> QED
        BY <1>2, <1>3, <2>1 DEF Waiting
<1>5. CallOK(Idle) /\ AtPlace(Idle)
    BY <1>0, IdleGood
<1>6. Driving'
    BY <1>1 DEF Driving, Idle
<1> QED
    BY <1>0, <1>1, <1>2, <1>4, <1>5, <1>6, StillInv DEF Types

LEMMA EndInv == ASSUME IInv, End PROVE IInv'
<1>0. Types /\ Journal /\ AtPlace(call) /\ CallOK(call)
    BY DEF IInv, Types
<1>1. PICK o : o = IF call.end = "SUCCEEDED" THEN call.step ELSE 0
    OBVIOUS
<1>2. UNCHANGED <<snapshot, steps, effects, grants, torn>> /\ call' = Idle
      /\ Transition(call.end, NoReason, 0, o)
    BY <1>1 DEF End, history, counters
<1>3. call.end \in {"SUCCEEDED", "FAILED", "REJECTED"}
    BY <1>0 DEF End, AtPlace, CallOK, Ends
<1>4. RunOK' /\ run'.status = call.end /\ run'.reason = NoReason
    <2>1. /\ call.end \in RunStatuses /\ NoReason \in WaitingReasons \cup {NoReason}
          /\ o \in 0..Len(steps) /\ 0 \in 0..Len(steps) /\ call.end # "WAITING"
        BY <1>0, <1>1, <1>3, JournalDomain DEF RunStatuses, CallOK
    <2>2. NoReason # NoReason <=> call.end = "WAITING"
        BY <2>1
    <2> QED
        BY <1>2, <2>1, <2>2, Transitioned
<1>5. Waiting'
    BY <1>3, <1>4, NotWaiting
<1>6. CallOK(Idle) /\ AtPlace(Idle)
    BY <1>0, IdleGood
<1>7. Driving'
    BY <1>2 DEF Driving, Idle
<1> QED
    BY <1>0, <1>2, <1>4, <1>5, <1>6, <1>7, StillInv DEF Types

------------------------------------------------------------------------------
(* The tool acts; the application resolves a Run that waits; a call dies. *)

\* An open call has a number.
LEMMA OpenRound ==
    ASSUME Types, ~Closed
    PROVE  Rounds \in 1..MaxRounds
BY Bounds DEF Types, Closed

LEMMA InvokeInv == ASSUME IInv, Invoke PROVE IInv'
<1>0. Types /\ Journal /\ Waiting /\ AtPlace(call) /\ CallOK(call) /\ Driving
    BY DEF IInv, Types
<1>1. call.pc = "invoke" /\ AtTool(call)
    BY <1>0 DEF Invoke, AtPlace, ToolPlaces
<1>2. Rounds \in 1..MaxRounds /\ effects \in [1..MaxRounds -> Nat]
    BY <1>0, <1>1, OpenRound DEF AtTool, Types
<1>3. PICK o : o = effects[Rounds] + 1
    OBVIOUS
<1>4. o \in Nat
    BY <1>2, <1>3
<1>5. PICK c : c = [call EXCEPT !.pc = "outcomeGate", !.outcome = o]
    OBVIOUS
<1>6. CallOK(c) /\ c.pc = "outcomeGate" /\ c.step = call.step /\ c.path = call.path
    <2>1. "outcomeGate" \in Places
        BY PlaceNames
    <2> QED
        BY <1>0, <1>4, <1>5, <2>1 DEF CallOK
<1>7. AtPlace(c)
    <2>1. AtTool(c)
        BY <1>1, <1>6 DEF AtTool
    <2> QED
        BY <1>6, <2>1 DEF AtPlace, StagePlaces, ModelPlaces
<1>8. UNCHANGED <<snapshot, steps, run, grants, torn>> /\ call' = c
    BY <1>3, <1>5 DEF Invoke, storeVars, counters
<1>9. effects' \in [1..MaxRounds -> Nat]
    BY <1>2 DEF Invoke
<1>10. Waiting' /\ RunOK'
    BY <1>0, <1>8, WaitingKept DEF Types, RunOK
<1>11. Driving'
    BY <1>0, <1>1, <1>6, <1>8, DrivesOn DEF Driving
<1> QED
    BY <1>0, <1>6, <1>7, <1>8, <1>9, <1>10, <1>11, StillInv DEF Types

LEMMA CrashInv == ASSUME IInv, Crash PROVE IInv'
<1>0. Types /\ Journal /\ Waiting
    BY DEF IInv
<1>1. UNCHANGED <<snapshot, steps, run, effects, grants>> /\ call' = Idle
    BY DEF Crash, storeVars, history
<1>2. torn' \in BOOLEAN
    BY <1>0 DEF Crash, Types, Unrecorded
<1>3. Waiting' /\ RunOK'
    BY <1>0, <1>1, WaitingKept DEF Types, RunOK
<1>4. CallOK(Idle) /\ AtPlace(Idle)
    BY <1>0, IdleGood
<1>5. Driving'
    BY <1>1 DEF Driving, Idle
<1> QED
    BY <1>0, <1>1, <1>2, <1>3, <1>4, <1>5, StillInv DEF Types

LEMMA EndWaitingInv ==
    ASSUME IInv, NEW st \in {"FAILED", "CANCELLED"}, EndWaiting(st)
    PROVE  IInv'
<1>0. Types /\ Journal
    BY DEF IInv
<1>1. UNCHANGED <<snapshot, steps, effects, grants, torn>> /\ call' = Idle
      /\ Transition(st, NoReason, 0, 0)
    BY DEF EndWaiting, history, counters
<1>2. RunOK' /\ run'.status = st /\ run'.reason = NoReason
    <2>1. st \in RunStatuses /\ NoReason \in WaitingReasons \cup {NoReason} /\ 0 \in 0..Len(steps)
        BY <1>0, JournalDomain DEF RunStatuses
    <2>2. NoReason # NoReason <=> st = "WAITING"
        OBVIOUS
    <2> QED
        BY <1>1, <2>1, <2>2, Transitioned
<1>3. Waiting'
    BY <1>2, NotWaiting
<1>4. CallOK(Idle) /\ AtPlace(Idle)
    BY <1>0, IdleGood
<1>5. Driving'
    BY <1>1 DEF Driving, Idle
<1> QED
    BY <1>0, <1>1, <1>2, <1>3, <1>4, <1>5, StillInv DEF Types

\* What RETRY_STEP and CONFIRM_STEP find.
LEMMA UncertainReady ==
    ASSUME IInv, run.reason = "UNCERTAIN_NON_IDEMPOTENT"
    PROVE  /\ run.wstep \in StepsOf("TOOL") \ Done("TOOL") /\ steps[run.wstep].key = <<Rounds>>
           /\ ~Closed /\ Unsure = {} /\ InFlight = {} /\ HeldSteps = {}
           /\ run.wstep \in 0..Len(steps) /\ run.wstep # 0
<1>0. Types /\ Waiting
    BY DEF IInv
<1>1. run.wstep \in StepsOf("TOOL") /\ StepsOf("TOOL") \in SUBSET (1..Len(steps)) /\ Len(steps) \in Nat
    BY <1>0, StepSets, JournalDomain DEF Waiting
<1> QED
    BY <1>0, <1>1, StepSets DEF Waiting

LEMMA RetryStepInv == ASSUME IInv, RetryStep PROVE IInv'
<1>0. Types /\ Journal
    BY DEF IInv
<1>1. run.reason = "UNCERTAIN_NON_IDEMPOTENT"
    BY DEF RetryStep, AllowedResolutions
<1>2. PICK i : i = run.wstep
    OBVIOUS
<1>3. /\ i \in StepsOf("TOOL") \ Done("TOOL") /\ steps[i].key = <<Rounds>>
      /\ ~Closed /\ Unsure = {} /\ InFlight = {} /\ HeldSteps = {}
      /\ i \in 0..Len(steps) /\ i # 0
    BY <1>1, <1>2, UncertainReady
<1>4. PICK c : c = At("toolGate", i)
    OBVIOUS
<1>5. CallOK(c) /\ c.pc = "toolGate" /\ c.step = i
    BY <1>0, <1>3, <1>4, AtOK, AtFields, PlaceNames
<1>6. AtPlace(c)
    <2>1. AtTool(c)
        BY <1>3, <1>5 DEF AtTool
    <2> QED
        BY <1>5, <2>1 DEF AtPlace, StagePlaces, ModelPlaces
<1>7. UNCHANGED <<snapshot, steps, effects, torn>> /\ call' = c /\ Transition("RUNNING", NoReason, 0, 0)
    BY <1>2, <1>4 DEF RetryStep
<1>8. grants' \in [1..MaxRounds -> Nat]
    <2>1. Rounds \in 1..MaxRounds /\ grants \in [1..MaxRounds -> Nat]
        BY <1>0, <1>3, OpenRound DEF Types
    <2> QED
        BY <2>1 DEF RetryStep
<1>9. RunOK' /\ Waiting' /\ run'.status = "RUNNING"
    BY <1>0, <1>7, Reopened
<1>10. Driving'
    BY <1>5, <1>7, <1>9, DrivesOn
<1> QED
    BY <1>0, <1>5, <1>6, <1>7, <1>8, <1>9, <1>10, StillInv DEF Types

LEMMA ConfirmStepInv == ASSUME IInv, ConfirmStep PROVE IInv'
<1>0. Types /\ Journal
    BY DEF IInv
<1>1. run.reason = "UNCERTAIN_NON_IDEMPOTENT"
    BY DEF ConfirmStep, AllowedResolutions
<1>2. PICK i : i = run.wstep
    OBVIOUS
<1>3. /\ i \in StepsOf("TOOL") \ Done("TOOL") /\ steps[i].key = <<Rounds>>
      /\ ~Closed /\ Unsure = {} /\ InFlight = {} /\ HeldSteps = {}
      /\ i \in 0..Len(steps) /\ i # 0
    BY <1>1, <1>2, UncertainReady
<1>4. PICK d : d = At("confirmGate", i)
    OBVIOUS
<1>5. CallOK(d) /\ d.pc = "confirmGate" /\ d.step = i
    BY <1>0, <1>3, <1>4, AtOK, AtFields, PlaceNames
<1>6. PICK c : c = [d EXCEPT !.outcome = 0]
    OBVIOUS
<1>7. CallOK(c) /\ c.pc = "confirmGate" /\ c.step = i
    BY <1>5, <1>6 DEF CallOK
<1>8. AtPlace(c)
    <2>1. AtTool(c)
        BY <1>3, <1>7 DEF AtTool
    <2> QED
        BY <1>7, <2>1 DEF AtPlace, StagePlaces, ModelPlaces
<1>9. UNCHANGED <<snapshot, steps, effects, grants, torn>> /\ call' = c
      /\ Transition("RUNNING", NoReason, 0, 0)
    BY <1>2, <1>4, <1>6 DEF ConfirmStep, history
<1>10. RunOK' /\ Waiting' /\ run'.status = "RUNNING"
    BY <1>0, <1>9, Reopened
<1>11. Driving'
    BY <1>7, <1>9, <1>10, DrivesOn
<1> QED
    BY <1>0, <1>7, <1>8, <1>9, <1>10, <1>11, StillInv DEF Types

\* The outcome that was held, in hand again.
Continuing(i) ==
    [At("continueGate", i) EXCEPT !.outcome = steps[i].outcome, !.path = "continue"]

LEMMA ContinuingGood ==
    ASSUME Types, Journal, NEW i \in HeldSteps
    PROVE  CallOK(Continuing(i)) /\ AtPlace(Continuing(i)) /\ Continuing(i).pc = "continueGate"
           /\ Continuing(i).step = i /\ Continuing(i).outcome = steps[i].outcome
<1>1. /\ i \in InFlight /\ i \in StepsOf("TOOL") \ Done("TOOL")
      /\ i \in 1..Len(steps) /\ Len(steps) \in Nat
    BY StepSets, JournalDomain
<1>2. PICK d : d = At("continueGate", i)
    OBVIOUS
<1>3. CallOK(d) /\ d.pc = "continueGate" /\ d.step = i
    <2>1. i \in 0..Len(steps)
        BY <1>1
    <2> QED
        BY <1>2, <2>1, AtOK, AtFields, PlaceNames
<1>4. steps[i].outcome \in Int
    BY <1>1, JournalDomain DEF Types, StepOK
<1>5. PICK c : c = [d EXCEPT !.outcome = steps[i].outcome, !.path = "continue"]
    OBVIOUS
<1>6. /\ CallOK(c) /\ c.pc = "continueGate" /\ c.step = i /\ c.path = "continue"
      /\ c.outcome = steps[i].outcome
    BY <1>3, <1>4, <1>5 DEF CallOK, Paths
<1>7. AtTool(c)
    <2>1. ~Closed /\ Unsure = {} /\ steps[i].key = <<Rounds>> /\ InFlight \subseteq {i}
        BY <1>1 DEF Journal
    <2> QED
        BY <1>1, <1>6, <2>1 DEF AtTool
<1>8. AtPlace(c)
    BY <1>6, <1>7 DEF AtPlace, StagePlaces, ModelPlaces
<1>9. c = Continuing(i)
    BY <1>2, <1>5 DEF Continuing
<1> QED
    BY <1>6, <1>8, <1>9

LEMMA ContinueRunInv == ASSUME IInv, ContinueRun PROVE IInv'
<1>0. Types /\ Journal /\ Waiting
    BY DEF IInv
<1>1. run.reason = "POLICY_RESOLUTION_REQUIRED"
    BY DEF ContinueRun, AllowedResolutions
<1>2. UNCHANGED <<snapshot, steps, effects, grants, torn>> /\ Transition("RUNNING", NoReason, 0, 0)
    BY DEF ContinueRun, history, counters
<1>3. PICK c : c = call'
    OBVIOUS
<1>4. CallOK(c) /\ AtPlace(c) /\ (c = Idle \/ c.pc # "idle")
    <2>1. CASE c = Idle
        BY <1>0, <2>1, IdleGood
    <2>2. CASE run.wstep \in HeldSteps /\ c = Continuing(run.wstep)
        BY <1>0, <2>2, ContinuingGood
    <2>3. CASE c = ResumeRunning
        BY <1>0, <2>3, ResumeRunningGood DEF Good, Plain
    <2>4. CASE ~HasDone /\ c = At("inputGate", 0)
        <3>1. 0 \in 0..Len(steps)
            BY <1>0, JournalDomain
        <3>2. CallOK(c) /\ c.pc = "inputGate"
            BY <1>0, <2>4, <3>1, AtOK, AtFields, PlaceNames
        <3>3. Unasked
            BY <1>0, <1>1, <2>4 DEF Waiting
        <3> QED
            BY <2>4, <3>2, <3>3 DEF AtPlace, StagePlaces, ModelPlaces, ToolPlaces
    <2> QED
        BY <1>3, <2>1, <2>2, <2>3, <2>4 DEF ContinueRun, Continuing, HasDone
<1>5. RunOK' /\ Waiting' /\ run'.status = "RUNNING"
    BY <1>0, <1>2, Reopened
<1>6. Driving'
    BY <1>3, <1>4, <1>5 DEF Driving, Idle
<1> QED
    BY <1>0, <1>2, <1>3, <1>4, <1>5, <1>6, StillInv DEF Types

------------------------------------------------------------------------------
(* Writes that complete no Step. *)

LEMMA AttemptSet ==
    ASSUME NEW a \in Seq(AttemptStates), NEW s \in AttemptStates
    PROVE  /\ SetAttempt(a, s) \in Seq(AttemptStates) /\ SetAttempt(a, s) # <<>>
           /\ Last(SetAttempt(a, s)) = s
           /\ Range(SetAttempt(a, s)) \subseteq Range(a) \cup {s}
<1>1. CASE a # <<>> /\ Last(a) \in {"RUNNING", "PENDING"}
    <2>1. PICK n : n = Len(a)
        OBVIOUS
    <2>2. n \in Nat \ {0} /\ DOMAIN a = 1..n
        BY <1>1, <2>1
    <2>3. PICK b : b = [a EXCEPT ![n] = s]
        OBVIOUS
    <2>4. b = [j \in 1..n |-> IF j = n THEN s ELSE a[j]]
        BY <2>2, <2>3
    <2>5. b \in Seq(AttemptStates) /\ Len(b) = n /\ b[n] = s /\ b # <<>> /\ DOMAIN b = 1..n
        BY <2>2, <2>4
    <2>6. Range(b) \subseteq Range(a) \cup {s}
        BY <2>2, <2>4 DEF Range
    <2>7. SetAttempt(a, s) = b
        BY <1>1, <2>1, <2>3 DEF SetAttempt
    <2> QED
        BY <2>5, <2>6, <2>7 DEF Last
<1>2. CASE ~(a # <<>> /\ Last(a) \in {"RUNNING", "PENDING"})
    <2>1. PICK b : b = Append(a, s)
        OBVIOUS
    <2>2. b \in Seq(AttemptStates) /\ Len(b) = Len(a) + 1 /\ b[Len(a) + 1] = s /\ DOMAIN b = 1..(Len(a) + 1)
        BY <2>1
    <2>3. \A j \in 1..Len(a) : b[j] = a[j]
        BY <2>1
    <2>4. Range(b) \subseteq Range(a) \cup {s}
        BY <2>2, <2>3 DEF Range
    <2>5. SetAttempt(a, s) = b
        BY <1>2, <2>1 DEF SetAttempt
    <2> QED
        BY <2>2, <2>4, <2>5 DEF Last
<1> QED
    BY <1>1, <1>2

LEMMA AttemptAdded ==
    ASSUME NEW a \in Seq(AttemptStates), NEW s \in AttemptStates
    PROVE  /\ Append(a, s) \in Seq(AttemptStates) /\ Append(a, s) # <<>> /\ Last(Append(a, s)) = s
           /\ Range(Append(a, s)) \subseteq Range(a) \cup {s}
<1>1. PICK b : b = Append(a, s)
    OBVIOUS
<1>2. b \in Seq(AttemptStates) /\ Len(b) = Len(a) + 1 /\ b[Len(a) + 1] = s /\ DOMAIN b = 1..(Len(a) + 1)
    BY <1>1
<1>3. \A j \in 1..Len(a) : b[j] = a[j]
    BY <1>1
<1>4. Range(b) \subseteq Range(a) \cup {s}
    BY <1>2, <1>3 DEF Range
<1> QED
    BY <1>1, <1>2, <1>4 DEF Last

\* A Step of type t and key k is created.
Creates(s) ==
    /\ Keeps /\ (\A j \in DOMAIN steps' : StepOK(steps'[j])) /\ steps' \in Seq(Range(steps'))
    /\ Len(steps') = Len(steps) + 1 /\ DOMAIN steps' = 1..(Len(steps) + 1)
    /\ steps'[Len(steps) + 1] = s
    /\ \A j \in DOMAIN steps : steps'[j] = steps[j]
    /\ \A t : StepsOf(t)' = IF t = s.type THEN StepsOf(t) \cup {Len(steps) + 1} ELSE StepsOf(t)
    /\ s.type # "MODEL" => SameModels
    /\ s.type # "TOOL" => SameTools

LEMMA Created ==
    ASSUME Types, NEW s, StepOK(s), ~s.done, snapshot' = snapshot, steps' = Append(steps, s)
    PROVE  Creates(s)
<1>1. Adds(s) /\ Len(steps) \in Nat /\ DOMAIN steps = 1..Len(steps)
    BY AddStep, JournalDomain
<1>2. PICK n : n = Len(steps)
    OBVIOUS
<1>3. /\ DOMAIN steps' = 1..(n + 1) /\ (\A j \in 1..n : steps'[j] = steps[j]) /\ steps'[n + 1] = s
      /\ n \in Nat /\ DOMAIN steps = 1..n /\ Len(steps') = n + 1 /\ steps' \in Seq(Range(steps'))
    BY <1>1, <1>2 DEF Adds
<1>4. \A j \in DOMAIN steps' : j \in 1..n \/ j = n + 1
    BY <1>3
<1>5. Keeps
    BY <1>3, <1>4 DEF Keeps, SameCheckpoint
<1>6. \A j \in DOMAIN steps' : StepOK(steps'[j])
    BY <1>3, <1>4 DEF Types
<1>7. \A t : StepsOf(t)' = IF t = s.type THEN StepsOf(t) \cup {n + 1} ELSE StepsOf(t)
    BY <1>3, <1>4 DEF StepsOf
<1>8. (s.type # "MODEL" => SameModels) /\ (s.type # "TOOL" => SameTools)
    BY <1>3, <1>7 DEF SameModels, SameTools, StepsOf
<1> QED
    BY <1>2, <1>3, <1>5, <1>6, <1>7, <1>8 DEF Creates

\* Step i is rewritten as s.
Rewrites(i, s) ==
    /\ Keeps /\ (\A j \in DOMAIN steps' : StepOK(steps'[j])) /\ steps' \in Seq(Range(steps'))
    /\ Len(steps') = Len(steps) /\ DOMAIN steps' = DOMAIN steps
    /\ steps'[i] = s
    /\ \A j \in DOMAIN steps : j # i => steps'[j] = steps[j]
    /\ \A t : StepsOf(t)' = StepsOf(t)
    /\ s.type # "MODEL" => SameModels
    /\ s.type # "TOOL" => SameTools

LEMMA Rewrote ==
    ASSUME Types, NEW i \in DOMAIN steps, NEW s, StepOK(s), SameCheckpoint(steps[i], s),
           snapshot' = snapshot, steps' = [steps EXCEPT ![i] = s]
    PROVE  Rewrites(i, s)
<1>1. Puts(i, s)
    BY PutStep
<1>2. Keeps
    BY <1>1 DEF Puts, Keeps, SameCheckpoint
<1>3. \A j \in DOMAIN steps' : StepOK(steps'[j])
    BY <1>1 DEF Puts, Types
<1>4. \A t : StepsOf(t)' = StepsOf(t)
    BY <1>1 DEF Puts, StepsOf, SameCheckpoint
<1>5. steps[i].type = s.type
    BY DEF SameCheckpoint
<1>6. (s.type # "MODEL" => SameModels) /\ (s.type # "TOOL" => SameTools)
    BY <1>1, <1>4, <1>5 DEF Puts, SameModels, SameTools, StepsOf
<1> QED
    BY <1>1, <1>2, <1>3, <1>4, <1>6 DEF Puts, Rewrites

KeyOK(t, k) ==
    /\ t \in {"CONTEXT", "MODEL", "TOOL"}
    /\ t = "CONTEXT" => k = <<k[1], k[2], k[3]>> /\ k[2] \in Scopes /\ k[3] \in Nat
    /\ t = "MODEL" => k = <<k[1]>> /\ k[1] \in Purposes
    /\ t = "TOOL" => k = <<k[1]>> /\ k[1] \in Nat \ {0}

\* A new Step with its first attempt, and one that fails before it had any.
Opened(t, k) == [NewStep(t, k) EXCEPT !.atts = <<"RUNNING">>]
Refused(t, k) == [NewStep(t, k) EXCEPT !.status = "FAILED"]

LEMMA OpenedOK ==
    ASSUME NEW t, NEW k, KeyOK(t, k)
    PROVE  /\ StepOK(Opened(t, k)) /\ Opened(t, k).type = t /\ Opened(t, k).key = k
           /\ ~Opened(t, k).done /\ Opened(t, k).atts = <<"RUNNING">>
           /\ Opened(t, k).status = "RUNNING"
<1>1. PICK n : n = NewStep(t, k)
    OBVIOUS
<1>2. /\ DOMAIN n = {"type", "key", "status", "atts", "done", "items", "reply", "outcome"}
      /\ n.type = t /\ n.key = k /\ n.status = "RUNNING" /\ n.done = FALSE /\ n.outcome = NoOutcome
    BY <1>1 DEF NewStep
<1>3. PICK s : s = [n EXCEPT !.atts = <<"RUNNING">>]
    OBVIOUS
<1>4. /\ DOMAIN s = {"type", "key", "status", "atts", "done", "items", "reply", "outcome"}
      /\ s.type = t /\ s.key = k /\ s.status = "RUNNING" /\ s.done = FALSE /\ s.outcome = NoOutcome
      /\ s.atts = <<"RUNNING">>
    BY <1>2, <1>3
<1>5. <<"RUNNING">> \in Seq(AttemptStates) /\ Last(<<"RUNNING">>) = "RUNNING" /\ NoOutcome \in Int
    BY DEF AttemptStates, Last, NoOutcome
<1>6. StepOK(s)
    BY <1>4, <1>5 DEF StepOK, KeyOK, Statuses
<1>7. s = Opened(t, k)
    BY <1>1, <1>3 DEF Opened
<1> QED
    BY <1>4, <1>6, <1>7

LEMMA RefusedOK ==
    ASSUME NEW t, NEW k, KeyOK(t, k)
    PROVE  /\ StepOK(Refused(t, k)) /\ Refused(t, k).type = t /\ Refused(t, k).key = k
           /\ ~Refused(t, k).done /\ Refused(t, k).atts = <<>>
           /\ Refused(t, k).status = "FAILED"
<1>1. PICK n : n = NewStep(t, k)
    OBVIOUS
<1>2. /\ DOMAIN n = {"type", "key", "status", "atts", "done", "items", "reply", "outcome"}
      /\ n.type = t /\ n.key = k /\ n.atts = <<>> /\ n.done = FALSE /\ n.outcome = NoOutcome
    BY <1>1 DEF NewStep
<1>3. PICK s : s = [n EXCEPT !.status = "FAILED"]
    OBVIOUS
<1>4. /\ DOMAIN s = {"type", "key", "status", "atts", "done", "items", "reply", "outcome"}
      /\ s.type = t /\ s.key = k /\ s.status = "FAILED" /\ s.done = FALSE /\ s.outcome = NoOutcome
      /\ s.atts = <<>>
    BY <1>2, <1>3
<1>5. <<>> \in Seq(AttemptStates) /\ NoOutcome \in Int
    BY DEF NoOutcome
<1>6. StepOK(s)
    BY <1>4, <1>5 DEF StepOK, KeyOK, Statuses
<1>7. s = Refused(t, k)
    BY <1>1, <1>3 DEF Refused
<1> QED
    BY <1>4, <1>6, <1>7

\* A Step gets another status and other attempts.
Restated(s, st, a) == [s EXCEPT !.status = st, !.atts = a]

LEMMA RestatedOK ==
    ASSUME NEW s, StepOK(s), NEW st \in Statuses, NEW a \in Seq(AttemptStates),
           s.done => st # "RUNNING" /\ a # <<>> /\ s.type = "MODEL",
           s.type = "TOOL" /\ a # <<>> /\ Last(a) = "PENDING" => st = "RUNNING"
    PROVE  /\ StepOK(Restated(s, st, a)) /\ SameCheckpoint(s, Restated(s, st, a))
           /\ Restated(s, st, a).status = st /\ Restated(s, st, a).atts = a
           /\ Restated(s, st, a).outcome = s.outcome /\ Restated(s, st, a).type = s.type
<1>1. PICK r : r = [s EXCEPT !.status = st]
    OBVIOUS
<1>2. /\ DOMAIN r = DOMAIN s /\ r.type = s.type /\ r.key = s.key /\ r.status = st /\ r.done = s.done
      /\ r.outcome = s.outcome /\ r.items = s.items /\ r.reply = s.reply
    BY <1>1 DEF StepOK
<1>3. PICK u : u = [r EXCEPT !.atts = a]
    OBVIOUS
<1>4. /\ DOMAIN u = DOMAIN s /\ u.type = s.type /\ u.key = s.key /\ u.status = st /\ u.done = s.done
      /\ u.outcome = s.outcome /\ u.items = s.items /\ u.reply = s.reply /\ u.atts = a
    BY <1>2, <1>3 DEF StepOK
<1>5. StepOK(u)
    BY <1>4 DEF StepOK
<1>6. u = Restated(s, st, a)
    BY <1>1, <1>3 DEF Restated
<1> QED
    BY <1>4, <1>5, <1>6 DEF SameCheckpoint

\* Rewritten, as a write.
LEMMA RewrittenOK ==
    ASSUME Types, NEW i \in DOMAIN steps, ~steps[i].done, NEW st \in Statuses,
           NEW a \in Seq(AttemptStates), st # "RUNNING" => a = <<>> \/ Last(a) # "PENDING",
           snapshot' = snapshot, steps' = Rewritten(i, st, a), NEW s, s = Restated(steps[i], st, a)
    PROVE  /\ Rewrites(i, s) /\ StepOK(s) /\ SameCheckpoint(steps[i], s) /\ s.type = steps[i].type
           /\ s.status = st /\ s.atts = a /\ s.outcome = steps[i].outcome
<1>1. StepOK(steps[i])
    BY DEF Types
<1>2. steps[i].type = "TOOL" /\ a # <<>> /\ Last(a) = "PENDING" => st = "RUNNING"
    OBVIOUS
<1>3. /\ StepOK(s) /\ SameCheckpoint(steps[i], s) /\ s.type = steps[i].type
      /\ s.status = st /\ s.atts = a /\ s.outcome = steps[i].outcome
    <2>1. PICK r : r = steps[i]
        OBVIOUS
    <2>2. StepOK(r) /\ (r.done => st # "RUNNING" /\ a # <<>> /\ r.type = "MODEL") /\ s = Restated(r, st, a)
        BY <1>1, <2>1
    <2>3. r.type = "TOOL" /\ a # <<>> /\ Last(a) = "PENDING" => st = "RUNNING"
        BY <1>2, <2>1
    <2> QED
        BY <2>1, <2>2, <2>3, RestatedOK
<1>4. steps' = [steps EXCEPT ![i] = s]
    BY DEF Rewritten, Restated
<1>5. Rewrites(i, s)
    BY <1>3, <1>4, Rewrote
<1> QED
    BY <1>3, <1>5

LEMMA JournalKept ==
    ASSUME Journal, SameView, SameModels, SameTools
    PROVE  Journal'
<1>1. /\ Compressions' = Compressions /\ Repairs' = Repairs /\ Unsure' = Unsure /\ InFlight' = InFlight
      /\ StepsOf("MODEL")' = StepsOf("MODEL") /\ StepsOf("TOOL")' = StepsOf("TOOL")
    BY ModelsKept, ToolsKept DEF SameModels, SameTools
<1>2. \A i \in Repairs : steps'[i] = steps[i]
    BY DEF SameModels, Repairs, ModelSteps
<1>3. \A i \in BusinessDone : steps'[i] = steps[i]
    BY DEF SameModels, BusinessDone, Done
<1>4. \A i \in StepsOf("TOOL") : steps'[i] = steps[i]
    BY DEF SameTools
<1>5. InFlight \in SUBSET StepsOf("TOOL")
    BY DEF InFlight
<1>6. (\A i \in Repairs : steps[i].atts # <<>> \/ Refusal(i))'
    BY RefusalsKept DEF Journal, SameView
<1> QED
    BY <1>1, <1>2, <1>3, <1>4, <1>5, <1>6 DEF Journal, SameView

\* The journal stays well-formed.
JournalTyped ==
    /\ \A i \in DOMAIN steps : StepOK(steps[i])
    /\ steps \in Seq(Range(steps))

LEMMA WriteTypes ==
    ASSUME Types, UNCHANGED <<snapshot, run, effects, grants, torn>>, JournalTyped',
           Len(steps') >= Len(steps), Rounds' \in 0..MaxRounds
    PROVE  Types' /\ Len(steps') \in Nat
<1>1. Len(steps) \in Nat /\ Len(steps') \in Nat
    BY JournalDomain DEF JournalTyped
<1>2. RunOK'
    BY <1>1 DEF Types, RunOK
<1> QED
    BY <1>1, <1>2 DEF Types, JournalTyped

LEMMA WriteInv ==
    ASSUME IInv, run.status = "RUNNING", run' = run, Types', Journal', Cardinality(Repairs)' <= RepairMax,
           NEW c, call' = c, c.pc # "idle", CallOK(c)', AtPlace(c)'
    PROVE  IInv'
<1>1. CallOK(call)' /\ AtPlace(call)'
    OBVIOUS
<1>2. run'.reason = NoReason /\ run'.status = "RUNNING"
    BY DEF IInv, Types, RunOK
<1>3. Waiting'
    BY <1>2, NotWaiting
<1>4. Driving'
    BY <1>2, DrivesOn
<1> QED
    BY <1>1, <1>3, <1>4 DEF IInv

LEMMA EndPlace ==
    ASSUME NEW c, c.pc = "endRun", c.end # "none"
    PROVE  AtPlace(c) /\ AtPlace(c)'
BY DEF AtPlace, StagePlaces, ModelPlaces, ToolPlaces

LEMMA EndRunFields ==
    ASSUME Types, NEW e \in {"FAILED", "REJECTED"}
    PROVE  CallOK(EndRun(e)) /\ EndRun(e).pc = "endRun" /\ EndRun(e).end = e /\ EndRun(e).outcome = NoOutcome
<1>1. CallOK(EndRun(e))
    BY EndRunGood DEF Good
<1> QED
    BY <1>1 DEF EndRun, Idle

------------------------------------------------------------------------------
(* Context Stages. *)

LEMMA ContextWriteInv ==
    ASSUME IInv, run.status = "RUNNING", UNCHANGED <<snapshot, run, effects, grants, torn>>,
           Keeps, SameModels, SameTools, JournalTyped', Len(steps') >= Len(steps),
           NEW c, call' = c, c.pc # "idle", CallOK(c)', AtPlace(c)'
    PROVE  IInv'
<1>1. Types /\ Journal /\ SameView
    BY ViewKept DEF IInv
<1>2. Rounds' \in 0..MaxRounds
    BY <1>1 DEF SameView, Types
<1>3. Types'
    BY <1>1, <1>2, WriteTypes
<1>4. Journal'
    BY <1>1, JournalKept
<1>5. Cardinality(Repairs)' <= RepairMax
    BY ModelsKept DEF IInv
<1> QED
    BY <1>3, <1>4, <1>5, WriteInv

LEMMA StageWritten ==
    ASSUME SameView, SameModels, SameTools, NEW b, AtStage(b), NEW c, c.stage = b.stage, c.path = b.path,
           c.model = b.model, c.step # 0, c.step \in (StepsOf("CONTEXT") \ Done("CONTEXT"))',
           steps'[c.step].key = StageKey(b.stage)
    PROVE  AtStage(c)'
<1>1. /\ Unsure' = Unsure /\ Compressions' = Compressions /\ ModelSteps("PRIMARY")' = ModelSteps("PRIMARY")
      /\ StepsOf("MODEL")' = StepsOf("MODEL") /\ StepsOf("TOOL")' = StepsOf("TOOL")
    BY ModelsKept DEF SameModels, SameTools
<1>2. StageKey(c.stage)' = StageKey(b.stage)
    BY KeyKept
<1>3. LoopReady(c.model)' = LoopReady(b.model) /\ Unasked' = Unasked
    BY <1>1, SentKept DEF LoopReady, Resumable, Unasked, SameView
<1> QED
    BY <1>2, <1>3 DEF AtStage, SameView

LEMMA StageKeyOK ==
    ASSUME Types, NEW b, AtStage(b)
    PROVE  KeyOK("CONTEXT", StageKey(b.stage)) /\ StageKey(b.stage)[2] = b.stage.scope
<1>1. b.stage.scope \in Scopes
    BY DEF AtStage
<1>2. Boundary(b.stage) \in Nat
    BY <1>1, BoundaryNat
<1> QED
    BY <1>1, <1>2 DEF KeyOK, StageKey

LEMMA UnsupportedStageInv ==
    ASSUME IInv, UnsupportedStage
    PROVE  IInv' /\ Keeps /\ SameTools
<1>0. Types /\ Journal /\ Waiting /\ Driving /\ AtStage(call) /\ CallOK(call) /\ run.status = "RUNNING"
    BY DEF IInv, UnsupportedStage, AtPlace, StagePlaces, Driving
<1>1. UNCHANGED <<snapshot, run, effects, grants, torn>>
    BY DEF UnsupportedStage, history, counters
<1>2. PICK c : c = EndRun("FAILED")
    OBVIOUS
<1>3. call' = c /\ CallOK(c) /\ c.pc = "endRun" /\ c.end = "FAILED" /\ AtPlace(c) /\ AtPlace(c)'
    BY <1>0, <1>2, EndRunFields, EndPlace DEF UnsupportedStage
<1>4. CASE steps' = steps
    <2>1. RunOK' /\ Waiting'
        BY <1>0, <1>1, <1>4, WaitingKept DEF Types, RunOK
    <2>2. Driving'
        BY <1>0, <1>1, <1>3, DrivesOn
    <2>3. IInv'
        BY <1>0, <1>1, <1>3, <1>4, <2>1, <2>2, StillInv DEF Types
    <2> QED
        BY <1>1, <1>4, <2>3 DEF Keeps, SameCheckpoint, SameTools, StepsOf
<1>5. CASE steps' = Append(steps, Refused("CONTEXT", StageKey(call.stage)))
    <2>1. PICK s : s = Refused("CONTEXT", StageKey(call.stage))
        OBVIOUS
    <2>2. PICK b : b = call
        OBVIOUS
    <2>3. KeyOK("CONTEXT", StageKey(b.stage))
        BY <1>0, <2>2, StageKeyOK
    <2>4. StepOK(s) /\ s.type = "CONTEXT" /\ ~s.done
        BY <2>1, <2>2, <2>3, RefusedOK
    <2>5. Creates(s)
        BY <1>0, <1>1, <1>5, <2>1, <2>4, Created
    <2>6. Keeps /\ SameModels /\ SameTools /\ JournalTyped' /\ Len(steps') >= Len(steps) /\ Len(steps') \in Nat
        BY <1>0, <2>4, <2>5, JournalDomain DEF Creates, JournalTyped
    <2>7. CallOK(c)'
        BY <1>0, <1>3, <2>6, CallKept
    <2> QED
        BY <1>0, <1>1, <1>3, <2>6, <2>7, ContextWriteInv
<1> QED
    BY <1>4, <1>5 DEF UnsupportedStage, Refused

\* The call at another place with another Step.
MovedTo(q, j) == [call EXCEPT !.pc = q, !.step = j]

LEMMA MovedToFields ==
    ASSUME NEW q \in Places, NEW j \in Nat, CallOK(call), j <= Len(steps'), Len(steps') \in Nat,
           Len(steps') >= Len(steps), Len(steps) \in Nat, NEW c, c = MovedTo(q, j)
    PROVE  /\ CallOK(c)' /\ c.pc = q /\ c.step = j /\ c.stage = call.stage /\ c.path = call.path
           /\ c.model = call.model /\ c.purpose = call.purpose /\ c.left = call.left
           /\ c.outcome = call.outcome /\ c.end = call.end
<1>1. PICK d : d = [call EXCEPT !.pc = q]
    OBVIOUS
<1>2. /\ DOMAIN d = DOMAIN call /\ d.pc = q /\ d.stage = call.stage /\ d.path = call.path
      /\ d.model = call.model /\ d.purpose = call.purpose /\ d.left = call.left
      /\ d.outcome = call.outcome /\ d.end = call.end /\ d.replay = call.replay
    BY <1>1 DEF CallOK
<1>3. c = [d EXCEPT !.step = j]
    BY <1>1 DEF MovedTo
<1>4. /\ DOMAIN c = DOMAIN call /\ c.pc = q /\ c.step = j /\ c.stage = call.stage /\ c.path = call.path
      /\ c.model = call.model /\ c.purpose = call.purpose /\ c.left = call.left
      /\ c.outcome = call.outcome /\ c.end = call.end /\ c.replay = call.replay
    BY <1>2, <1>3 DEF CallOK
<1>5. CallOK(c)'
    BY <1>4 DEF CallOK
<1> QED
    BY <1>4, <1>5

LEMMA RecordContextInv ==
    ASSUME IInv, RecordContext
    PROVE  IInv' /\ Keeps /\ SameTools
<1>0. Types /\ Journal /\ AtStage(call) /\ CallOK(call) /\ run.status = "RUNNING"
    BY DEF IInv, RecordContext, AtPlace, StagePlaces, Driving
<1>1. UNCHANGED <<snapshot, run, effects, grants, torn>>
    BY DEF RecordContext, history, counters
<1>2. PICK b : b = call
    OBVIOUS
<1>3. AtStage(b) /\ Len(steps) \in Nat /\ b.step \in 0..Len(steps) /\ DOMAIN steps = 1..Len(steps)
    BY <1>0, <1>2, JournalDomain DEF CallOK
<1>4. PICK j : j = IF call.step = 0 THEN Len(steps) + 1 ELSE call.step
    OBVIOUS
<1>5. /\ Keeps /\ SameModels /\ SameTools /\ JournalTyped' /\ Len(steps') >= Len(steps) /\ Len(steps') \in Nat
      /\ j \in Nat \ {0} /\ j <= Len(steps') /\ j \in (StepsOf("CONTEXT") \ Done("CONTEXT"))'
      /\ steps'[j].key = StageKey(b.stage)
    <2>1. CASE call.step = 0
        <3>1. PICK s : s = Opened("CONTEXT", StageKey(b.stage))
            OBVIOUS
        <3>2. KeyOK("CONTEXT", StageKey(b.stage))
            BY <1>0, <1>3, StageKeyOK
        <3>3. StepOK(s) /\ s.type = "CONTEXT" /\ ~s.done /\ s.key = StageKey(b.stage)
            BY <3>1, <3>2, OpenedOK
        <3>4. steps' = Append(steps, s)
            BY <1>2, <2>1, <3>1 DEF RecordContext, Opened
        <3>5. Creates(s)
            BY <1>0, <1>1, <3>3, <3>4, Created
        <3>6. j = Len(steps) + 1
            BY <1>4, <2>1
        <3>7. j \in (StepsOf("CONTEXT") \ Done("CONTEXT"))'
            BY <1>3, <3>3, <3>5, <3>6 DEF Creates, Done, StepsOf
        <3> QED
            BY <1>3, <3>3, <3>5, <3>6, <3>7 DEF Creates, JournalTyped
    <2>2. CASE call.step # 0
        <3>1. b.step \in StepsOf("CONTEXT") \ Done("CONTEXT") /\ steps[b.step].key = StageKey(b.stage) /\ j = b.step
            BY <1>2, <1>3, <1>4, <2>2 DEF AtStage
        <3>2. b.step \in DOMAIN steps /\ ~steps[b.step].done /\ StepOK(steps[b.step])
              /\ steps[b.step].type = "CONTEXT" /\ steps[b.step].atts \in Seq(AttemptStates)
            BY <1>0, <3>1 DEF StepsOf, Done, Types, StepOK
        <3>3. PICK a : a = Append(steps[b.step].atts, "RUNNING")
            OBVIOUS
        <3>4. a \in Seq(AttemptStates) /\ "RUNNING" \in Statuses
            BY <3>2, <3>3 DEF AttemptStates, Statuses
        <3>5. PICK s : s = Restated(steps[b.step], "RUNNING", a)
            OBVIOUS
        <3>6. steps' = Rewritten(b.step, "RUNNING", a)
            BY <1>2, <2>2, <3>3 DEF RecordContext
        <3>7. s.type = "CONTEXT" /\ SameCheckpoint(steps[b.step], s) /\ Rewrites(b.step, s)
            <4>1. "RUNNING" # "RUNNING" => a = <<>> \/ Last(a) # "PENDING"
                OBVIOUS
            <4> QED
                BY <1>0, <1>1, <3>2, <3>4, <3>5, <3>6, <4>1, RewrittenOK
        <3>8. j \in (StepsOf("CONTEXT") \ Done("CONTEXT"))' /\ steps'[j].key = StageKey(b.stage)
            BY <3>1, <3>2, <3>7 DEF Rewrites, SameCheckpoint, Done, StepsOf
        <3> QED
            BY <1>2, <1>3, <2>2, <3>1, <3>2, <3>7, <3>8 DEF Rewrites, JournalTyped
    <2> QED
        BY <2>1, <2>2
<1>6. PICK c : c = MovedTo("contextFinal", j)
    OBVIOUS
<1>7. CallOK(c)' /\ c.pc = "contextFinal" /\ c.step = j /\ c.stage = b.stage /\ c.path = b.path /\ c.model = b.model
    <2>1. "contextFinal" \in Places
        BY PlaceNames
    <2> QED
        BY <1>0, <1>2, <1>3, <1>5, <1>6, <2>1, MovedToFields
<1>8. AtStage(c)'
    <2>1. SameView
        BY <1>0, <1>5, ViewKept
    <2> QED
        BY <1>3, <1>5, <1>7, <2>1, StageWritten
<1>9. AtPlace(c)'
    BY <1>7, <1>8 DEF AtPlace, ModelPlaces, ToolPlaces
<1>10. call' = c
    BY <1>4, <1>6 DEF RecordContext, MovedTo
<1>11. IInv'
    BY <1>0, <1>1, <1>5, <1>7, <1>9, <1>10, ContextWriteInv
<1> QED
    BY <1>11, <1>5

LEMMA ProviderFailsInv ==
    ASSUME IInv, ProviderFails
    PROVE  IInv' /\ Keeps /\ SameTools
<1>0. Types /\ Journal /\ AtStage(call) /\ CallOK(call) /\ run.status = "RUNNING"
    BY DEF IInv, ProviderFails, AtPlace, StagePlaces, Driving
<1>1. UNCHANGED <<snapshot, run, effects, grants, torn>>
    BY DEF ProviderFails, history
<1>2. PICK i : i = call.step
    OBVIOUS
<1>3. i \in StepsOf("CONTEXT") \ Done("CONTEXT")
    BY <1>0, <1>2 DEF AtStage, ProviderFails
<1>4. /\ i \in DOMAIN steps /\ ~steps[i].done /\ steps[i].type = "CONTEXT"
      /\ steps[i].atts \in Seq(AttemptStates)
    BY <1>0, <1>3 DEF StepsOf, Done, Types, StepOK
<1>5. PICK a : a = SetAttempt(steps[i].atts, "PERMANENT")
    OBVIOUS
<1>6. a \in Seq(AttemptStates) /\ (a = <<>> \/ Last(a) # "PENDING")
    <2>1. "PERMANENT" \in AttemptStates
        BY DEF AttemptStates, FailedAttempts
    <2> QED
        BY <1>4, <1>5, <2>1, AttemptSet
<1>7. PICK s : s = Restated(steps[i], "FAILED", a)
    OBVIOUS
<1>8. Rewrites(i, s) /\ s.type = "CONTEXT"
    <2>1. steps' = Rewritten(i, "FAILED", a) /\ "FAILED" \in Statuses
        BY <1>2, <1>5 DEF ProviderFails, Statuses
    <2> QED
        BY <1>0, <1>1, <1>4, <1>6, <1>7, <2>1, RewrittenOK
<1>9. Keeps /\ SameModels /\ SameTools /\ JournalTyped' /\ Len(steps') >= Len(steps) /\ Len(steps') \in Nat
    BY <1>0, <1>8, JournalDomain DEF Rewrites, JournalTyped
<1>10. PICK c : c = EndRun("FAILED")
    OBVIOUS
<1>11. call' = c /\ CallOK(c) /\ c.pc = "endRun" /\ AtPlace(c)'
    BY <1>0, <1>10, EndRunFields, EndPlace DEF ProviderFails
<1>12. CallOK(c)'
    BY <1>0, <1>9, <1>11, CallKept
<1>13. IInv'
    BY <1>0, <1>1, <1>9, <1>11, <1>12, ContextWriteInv
<1> QED
    BY <1>13, <1>9

------------------------------------------------------------------------------
(* Writes that complete a Step. *)

Completes(i, it, re, o) ==
    /\ JournalTyped' /\ Len(steps') = Len(steps) /\ DOMAIN steps' = DOMAIN steps
    /\ steps'[i].type = steps[i].type /\ steps'[i].key = steps[i].key /\ steps'[i].status = "SUCCEEDED"
    /\ steps'[i].done /\ steps'[i].items = it /\ steps'[i].reply = re /\ steps'[i].outcome = o
    /\ steps'[i].atts # <<>> /\ Last(steps'[i].atts) = "SUCCEEDED"
    /\ \A j \in DOMAIN steps : j # i => steps'[j] = steps[j]
    /\ \A t : StepsOf(t)' = StepsOf(t)
    /\ \A t : Done(t)' = IF t = steps[i].type THEN Done(t) \cup {i} ELSE Done(t)
    /\ steps[i].type # "MODEL" => SameModels
    /\ steps[i].type # "TOOL" => SameTools

LEMMA CompletedOK ==
    ASSUME Types, NEW i \in DOMAIN steps, NEW it, NEW re, NEW o \in Int,
           steps' = Completed(i, it, re, o)
    PROVE  Completes(i, it, re, o)
<1>1. StepOK(steps[i]) /\ steps[i].atts \in Seq(AttemptStates)
    BY DEF Types, StepOK
<1>2. PICK a : a = SetAttempt(steps[i].atts, "SUCCEEDED")
    OBVIOUS
<1>3. a \in Seq(AttemptStates) /\ a # <<>> /\ Last(a) = "SUCCEEDED"
    <2>1. "SUCCEEDED" \in AttemptStates
        BY DEF AttemptStates
    <2> QED
        BY <1>1, <1>2, <2>1, AttemptSet
<1>4. PICK s : s = [type |-> steps[i].type, key |-> steps[i].key, status |-> "SUCCEEDED",
                    atts |-> a, done |-> TRUE, items |-> it, reply |-> re, outcome |-> o]
    OBVIOUS
<1>5. /\ s.type = steps[i].type /\ s.key = steps[i].key /\ s.status = "SUCCEEDED" /\ s.atts = a
      /\ s.done /\ s.done \in BOOLEAN /\ s.items = it /\ s.reply = re /\ s.outcome = o
      /\ DOMAIN s = {"type", "key", "status", "atts", "done", "items", "reply", "outcome"}
    BY <1>4
<1>6. StepOK(s)
    BY <1>1, <1>3, <1>5 DEF StepOK, Statuses
<1>7. steps' = [steps EXCEPT ![i] = s]
    BY <1>2, <1>4 DEF Completed
<1>8. Puts(i, s)
    BY <1>7, PutStep
<1>9. JournalTyped'
    BY <1>6, <1>8 DEF Puts, Types, JournalTyped
<1>10. \A t : StepsOf(t)' = StepsOf(t)
    BY <1>5, <1>8 DEF Puts, StepsOf
<1>11. \A t : Done(t)' = IF t = steps[i].type THEN Done(t) \cup {i} ELSE Done(t)
    BY <1>5, <1>8 DEF Puts, StepsOf, Done
<1>12. (steps[i].type # "MODEL" => SameModels) /\ (steps[i].type # "TOOL" => SameTools)
    BY <1>8, <1>10 DEF Puts, SameModels, SameTools, StepsOf
<1> QED
    BY <1>3, <1>5, <1>8, <1>9, <1>10, <1>11, <1>12 DEF Completes, Puts

LEMMA RoundsSame ==
    ASSUME SameModels
    PROVE  Rounds' = Rounds
<1>1. BusinessDone' = BusinessDone
    BY ModelsKept
<1>2. \A i \in BusinessDone : steps'[i] = steps[i]
    BY DEF SameModels, BusinessDone, Done
<1>3. {i \in BusinessDone : steps[i].reply = "tool"}' = {i \in BusinessDone : steps[i].reply = "tool"}
    BY <1>1, <1>2
<1> QED
    BY <1>3 DEF Rounds

LEMMA LoopPointKept ==
    ASSUME SameModels, SameTools, snapshot' = snapshot
    PROVE  /\ Rounds' = Rounds /\ Answered' = Answered /\ Closed' = Closed /\ Plan' = Plan
           /\ ToolBoundary' = ToolBoundary /\ ModelBoundary' = ModelBoundary
<1>1. /\ Rounds' = Rounds /\ Done("TOOL")' = Done("TOOL") /\ Done("MODEL")' = Done("MODEL")
    BY RoundsSame, ModelsKept, ToolsKept
<1>2. \A i \in Done("TOOL") : steps'[i] = steps[i]
    BY DEF SameTools, Done
<1>3. Answered' = Answered
    BY <1>1, <1>2 DEF Answered
<1>4. Closed' = Closed
    BY <1>1, <1>3 DEF Closed
<1> QED
    BY <1>1, <1>3, <1>4 DEF ToolBoundary, ModelBoundary, Plan

\* Checkpoints of Stages stay, so what is not due stays so while the loop is at the
\* same point; RUN_INPUT is never due again.
ContextsStay ==
    /\ snapshot' = snapshot
    /\ \A j \in Done("CONTEXT") : j \in Done("CONTEXT")' /\ steps'[j].key = steps[j].key

LEMMA DueShrinks ==
    ASSUME ContextsStay, NEW s, Plan' = Plan,
           s = "RUN_INPUT" \/ (ToolBoundary' = ToolBoundary /\ ModelBoundary' = ModelBoundary)
    PROVE  Due(s)' \subseteq Due(s)
<1>1. ASSUME NEW n \in StagesForScope(Plan, s) PROVE StageKey(Plan[n])' = StageKey(Plan[n])
    <2>1. Plan[n].scope = s
        BY DEF StagesForScope
    <2>2. CASE s = "RUN_INPUT"
        BY <2>1, <2>2 DEF StageKey, Boundary
    <2>3. CASE ToolBoundary' = ToolBoundary /\ ModelBoundary' = ModelBoundary
        BY <2>3 DEF StageKey, Boundary
    <2> QED
        BY <2>2, <2>3
<1> QED
    BY <1>1 DEF Due, ContextsStay, StagesForScope

LEMMA ProvideInv ==
    ASSUME IInv, Provide
    PROVE  IInv' /\ Quiet(call') /\ SameModels /\ SameTools /\ Completes(call.step, Provided, "none", NoOutcome)
           /\ call.step \in StepsOf("CONTEXT") \ Done("CONTEXT")
<1>0. Types /\ Journal /\ AtStage(call) /\ CallOK(call) /\ run.status = "RUNNING"
    BY DEF IInv, Provide, AtPlace, StagePlaces, Driving
<1>1. UNCHANGED <<snapshot, run, effects, grants, torn>>
    BY DEF Provide, history, counters
<1>2. PICK b : b = call
    OBVIOUS
<1>3. PICK i : i = b.step
    OBVIOUS
<1>4. AtStage(b) /\ i \in StepsOf("CONTEXT") \ Done("CONTEXT") /\ steps[i].key = StageKey(b.stage)
    BY <1>0, <1>2, <1>3 DEF AtStage, Provide
<1>5. i \in DOMAIN steps /\ steps[i].type = "CONTEXT" /\ NoOutcome \in Int
    BY <1>4 DEF StepsOf, NoOutcome
<1>6. PICK it : it = Provided
    OBVIOUS
<1>7. Completes(i, it, "none", NoOutcome)
    <2>1. steps' = Completed(i, it, "none", NoOutcome)
        BY <1>2, <1>3, <1>6 DEF Provide
    <2> QED
        BY <1>0, <1>5, <2>1, CompletedOK
<1>8. SameModels /\ SameTools /\ JournalTyped' /\ Len(steps') = Len(steps) /\ Len(steps) \in Nat
    BY <1>0, <1>5, <1>7, JournalDomain DEF Completes
<1>9. /\ Rounds' = Rounds /\ Closed' = Closed /\ Plan' = Plan /\ ToolBoundary' = ToolBoundary
      /\ ModelBoundary' = ModelBoundary
    BY <1>1, <1>8, LoopPointKept
<1>10. /\ Compressions' = Compressions /\ Repairs' = Repairs /\ Unsure' = Unsure /\ InFlight' = InFlight
       /\ BusinessDone' = BusinessDone /\ HeldSteps' = HeldSteps /\ Done("MODEL")' = Done("MODEL")
       /\ ModelSteps("PRIMARY")' = ModelSteps("PRIMARY")
       /\ StepsOf("MODEL")' = StepsOf("MODEL") /\ StepsOf("TOOL")' = StepsOf("TOOL")
    BY <1>8, ModelsKept, ToolsKept DEF SameModels, SameTools
<1>11. InputDone => InputDone'
    <2>1. ContextsStay
        <3>1. \A j \in Done("CONTEXT") : j \in DOMAIN steps /\ j # i
            BY <1>4 DEF Done, StepsOf
        <3> QED
            BY <1>1, <1>5, <1>7, <3>1 DEF Completes, ContextsStay
    <2> QED
        BY <1>9, <2>1, DueShrinks DEF InputDone
<1>12. HasDone'
    BY <1>5, <1>7 DEF Completes, HasDone
<1>13. Unsure \cap Compressions = {}
    <2>1. CASE b.path = "loop"
        <3>1. Resumable(b.model)
            BY <1>4, <2>1 DEF AtStage, LoopReady
        <3>2. \A j \in ModelSteps("PRIMARY") : j \notin Compressions
            BY DEF ModelSteps, Compressions
        <3>3. 0 \notin Unsure
            BY <1>0, <1>8, StepSets
        <3> QED
            BY <3>1, <3>2, <3>3 DEF Resumable
    <2>2. CASE b.path # "loop"
        BY <1>0, <1>4, <2>2, StageNotOpen DEF Unasked
    <2> QED
        BY <2>1, <2>2
<1>14. Journal'
    <2>1. \A j \in Repairs : steps'[j] = steps[j]
        BY <1>8 DEF SameModels, Repairs, ModelSteps
    <2>2. \A j \in BusinessDone : steps'[j] = steps[j]
        BY <1>8 DEF SameModels, BusinessDone, Done
    <2>3. \A j \in StepsOf("TOOL") : steps'[j] = steps[j]
        BY <1>8 DEF SameTools
    <2>4. InFlight \in SUBSET StepsOf("TOOL")
        BY DEF InFlight
    <2>5. (\A j \in Repairs : steps[j].atts # <<>> \/ Refusal(j))'
        BY <1>0, <1>8, <1>9, RefusalsKept DEF Journal
    <2> QED
        BY <1>0, <1>9, <1>10, <1>11, <1>12, <1>13, <2>1, <2>2, <2>3, <2>4, <2>5 DEF Journal
<1>15. Types'
    BY <1>0, <1>1, <1>8, <1>9, WriteTypes DEF Types
<1>16. PICK c : c = call'
    OBVIOUS
<1>17. CallOK(c)' /\ AtPlace(c)' /\ c.pc # "idle" /\ Quiet(c)
    <2>1. PICK m, p, r : m = call.model /\ p = call.path /\ r = call.replay
        OBVIOUS
    <2>2. c = (IF p = "loop" THEN LoopEntry(m, r) ELSE InputEntry(p))'
        BY <1>16, <2>1 DEF Provide
    <2>3. CASE p = "loop"
        <3>1. LoopReady(m)
            BY <1>2, <1>4, <2>1, <2>3 DEF AtStage
        <3>2. LoopReady(m)'
            BY <1>8, <1>9, <1>10, <1>11, <3>1, SentKept DEF LoopReady, Resumable
        <3>3. m \in 0..Len(steps') /\ r \in BOOLEAN
            BY <1>0, <1>8, <2>1 DEF CallOK
        <3>4. Good(LoopEntry(m, r))'
            BY <1>14, <1>15, <3>2, <3>3, LoopEntryNext
        <3>5. c = LoopEntry(m, r)'
            BY <2>2, <2>3
        <3> QED
            BY <3>4, <3>5 DEF Good, Plain, Quiet
    <2>4. CASE p # "loop"
        <3>1. p \in {"execute", "resume"} /\ (p = "execute" => OnlyInput) /\ b.stage.scope = "RUN_INPUT"
            BY <1>2, <1>4, <2>1, <2>4 DEF AtStage
        <3>2. StepsOf("MODEL") = {} /\ HeldSteps = {} /\ Compressions = {}
            BY <1>0, <1>2, <1>4, <2>1, <2>4, StageNotOpen DEF Compressions, ModelSteps
        <3>3. p = "execute" => OnlyInput'
            <4>1. steps'[i].key[2] = "RUN_INPUT"
                BY <1>0, <1>4, <1>7, <3>1, StageKeyOK DEF Completes
            <4>2. Done("CONTEXT")' = Done("CONTEXT") \cup {i}
                BY <1>5, <1>7 DEF Completes
            <4>3. \A j \in Done("CONTEXT") : steps'[j] = steps[j]
                BY <1>4, <1>7 DEF Completes, Done, StepsOf
            <4> QED
                BY <3>1, <4>1, <4>2, <4>3 DEF OnlyInput
        <3>4. Unspent'
            BY <1>0, <1>4, <1>8, SentKept, StageNotOpen
        <3>6. Good(InputEntry(p))'
            BY <1>10, <1>14, <1>15, <3>1, <3>2, <3>3, <3>4, InputEntryNext
        <3>5. c = InputEntry(p)'
            BY <2>2, <2>4
        <3> QED
            BY <3>5, <3>6 DEF Good, Plain, Quiet
    <2> QED
        BY <2>3, <2>4
<1>18. Cardinality(Repairs)' <= RepairMax
    BY <1>10 DEF IInv
<1>19. IInv'
    BY <1>0, <1>1, <1>14, <1>15, <1>16, <1>17, <1>18, WriteInv
<1> QED
    BY <1>2, <1>3, <1>4, <1>6, <1>7, <1>8, <1>16, <1>17, <1>19

------------------------------------------------------------------------------
(* Model Steps. *)

\* Model Step i, for purpose p, is created or written, and not completed.
Asks(i, p) ==
    /\ Keeps /\ SameTools
    /\ StepsOf("MODEL")' = StepsOf("MODEL") \cup {i}
    /\ \A j \in StepsOf("MODEL") : j # i => steps'[j] = steps[j]
    /\ steps'[i].key[1] = p /\ (i \in StepsOf("MODEL") => steps[i].key[1] = p)

LEMMA ModelsAsked ==
    ASSUME Types, NEW i, NEW p, Asks(i, p)
    PROVE  /\ \A q : ModelSteps(q)' = IF q = p THEN ModelSteps(q) \cup {i} ELSE ModelSteps(q)
           /\ \A j : j # i => (j \in Unsure' <=> j \in Unsure)
           /\ i \in StepsOf("MODEL") => /\ StepsOf("MODEL")' = StepsOf("MODEL")
                                        /\ \A q : ModelSteps(q)' = ModelSteps(q)
<1>1. \A q : ModelSteps(q)' = IF q = p THEN ModelSteps(q) \cup {i} ELSE ModelSteps(q)
    BY DEF Asks, ModelSteps, Purpose
<1>2. Done("MODEL")' = Done("MODEL")
    BY DoneKept DEF Asks
<1>3. \A j \in StepsOf("MODEL") : j # i => \A A : HasAttempt(j, A)' = HasAttempt(j, A)
    BY DEF Asks, HasAttempt, Range
<1>4. \A j : j # i => (j \in Unsure' <=> j \in Unsure)
    BY <1>2, <1>3 DEF Unsure, Asks
<1>5. i \in StepsOf("MODEL") => \A q : ModelSteps(q)' = ModelSteps(q)
    BY <1>1 DEF Asks, ModelSteps, Purpose
<1> QED
    BY <1>1, <1>4, <1>5 DEF Asks

\* What makes Model Step i, in doubt from now on, the only one and the last.
MayDoubt(i, p) ==
    /\ Closed /\ Unsure \subseteq {i} /\ \A j \in BusinessDone : j < i
    /\ p = "CONTEXT_COMPRESSION" => OnlyInput /\ StepsOf("MODEL") \subseteq {i} /\ Compressible # <<>>

\* What makes it the Model Step to create.
MayCreate(p) ==
    /\ Unsure = {}
    /\ HasDone \/ (p = "CONTEXT_COMPRESSION" /\ StepsOf("MODEL") = {})
               \/ StagesForScope(Plan, "MODEL_STEP") = {}

LEMMA SentAsked ==
    ASSUME Types, Unspent, NEW i, NEW p, Asks(i, p), p = "OUTPUT_REPAIR" => steps'[i].atts # <<>>
    PROVE  Unspent'
<1>1. \A j \in Repairs' : j # i => j \in Repairs /\ j \in StepsOf("MODEL")
    BY ModelsAsked DEF Repairs, ModelSteps
<1>2. i \in Repairs' => p = "OUTPUT_REPAIR"
    BY DEF Asks, Repairs, ModelSteps, Purpose
<1> QED
    BY <1>1, <1>2 DEF Unspent, Asks

LEMMA ModelJournal ==
    ASSUME Types, Journal, Unspent, NEW i, NEW p \in Purposes, Asks(i, p), InputDone,
           p = "CONTEXT_COMPRESSION" => Compressions \subseteq {i},
           p = "OUTPUT_REPAIR" => BusinessDone # {} /\ (steps'[i].atts # <<>> \/ Refusal(i)'),
           i \in Unsure' => MayDoubt(i, p),
           i \notin StepsOf("MODEL") => MayCreate(p)
    PROVE  Journal'
<1>1. /\ \A q : ModelSteps(q)' = IF q = p THEN ModelSteps(q) \cup {i} ELSE ModelSteps(q)
      /\ \A j : j # i => (j \in Unsure' <=> j \in Unsure)
      /\ i \in StepsOf("MODEL") => /\ StepsOf("MODEL")' = StepsOf("MODEL")
                                   /\ \A q : ModelSteps(q)' = ModelSteps(q)
    BY ModelsAsked
<1>2. SameView /\ SameTools
    BY ViewKept DEF Asks
<1>3. /\ InFlight' = InFlight /\ StepsOf("TOOL")' = StepsOf("TOOL") /\ InFlight \in SUBSET StepsOf("TOOL")
      /\ \A j \in StepsOf("TOOL") : steps'[j] = steps[j]
    BY <1>2, ToolsKept DEF SameTools, InFlight
<1>4. \A j \in BusinessDone : steps'[j].reply = steps[j].reply
    BY DEF Asks, Keeps, SameCheckpoint, BusinessDone, Done, StepsOf
<1>5. Compressions' = (IF p = "CONTEXT_COMPRESSION" THEN Compressions \cup {i} ELSE Compressions)
      /\ Repairs' = (IF p = "OUTPUT_REPAIR" THEN Repairs \cup {i} ELSE Repairs)
      /\ StepsOf("MODEL")' = StepsOf("MODEL") \cup {i}
    BY <1>1 DEF Compressions, Repairs, Asks
<1>6. (StepsOf("MODEL") \cup StepsOf("TOOL") # {} => InputDone)'
    BY <1>2 DEF SameView
<1>7. (\A j \in StepsOf("TOOL") : steps[j].key[1] <= Rounds)'
    BY <1>2, <1>3 DEF Journal, SameView
<1>8. (\A k, j \in Compressions : k = j)'
    BY <1>5 DEF Journal
<1>9. (Repairs # {} => BusinessDone # {})'
    BY <1>2, <1>5 DEF Journal, SameView
<1>10. (\A j \in Repairs : steps[j].atts # <<>> \/ Refusal(j))'
    <2>1. \A j \in Repairs : j \in StepsOf("MODEL")
        BY DEF Repairs, ModelSteps
    <2>2. i \in Repairs' => p = "OUTPUT_REPAIR"
        BY <1>1 DEF Asks, Repairs, ModelSteps, Purpose
    <2> QED
        BY <1>5, <2>1, <2>2 DEF Unspent, Asks
<1>11. (\A k, j \in Unsure : k = j)'
    BY <1>1 DEF Journal, MayDoubt
<1>12. (\A k \in Unsure : Closed /\ \A j \in BusinessDone : j < k)'
    BY <1>1, <1>2 DEF Journal, MayDoubt, SameView
<1>13. (Unsure \cap Compressions # {} =>
            OnlyInput /\ StepsOf("MODEL") = Compressions /\ Compressible # <<>>)'
    <2> SUFFICES ASSUME NEW u \in (Unsure \cap Compressions)'
                 PROVE  (OnlyInput /\ StepsOf("MODEL") = Compressions /\ Compressible # <<>>)'
        OBVIOUS
    <2>1. CASE u = i
        <3>1. p = "CONTEXT_COMPRESSION"
            BY <2>1 DEF Asks, Compressions, ModelSteps, Purpose
        <3>2. OnlyInput /\ StepsOf("MODEL") \subseteq {i} /\ Compressible # <<>>
            BY <2>1, <3>1 DEF MayDoubt
        <3>3. StepsOf("MODEL")' = {i} /\ Compressions' = {i}
            BY <1>5, <3>1, <3>2
        <3> QED
            BY <1>2, <3>2, <3>3 DEF SameView
    <2>2. CASE u # i
        <3>1. u \in Unsure \cap Compressions
            BY <1>1, <1>5, <2>2
        <3>2. i \in StepsOf("MODEL")
            BY <3>1 DEF MayCreate
        <3>3. Compressions' = Compressions /\ StepsOf("MODEL")' = StepsOf("MODEL")
            BY <1>1, <3>2 DEF Compressions
        <3> QED
            BY <1>2, <3>1, <3>3 DEF Journal, SameView
    <2> QED
        BY <2>1, <2>2
<1>14. (HasDone \/ (StepsOf("MODEL") = Compressions /\ StepsOf("TOOL") = {})
                \/ StagesForScope(Plan, "MODEL_STEP") = {})'
    <2>1. HasDone' = HasDone /\ StagesForScope(Plan, "MODEL_STEP")' = StagesForScope(Plan, "MODEL_STEP")
        BY <1>2 DEF SameView, StagesForScope
    <2>2. CASE i \in StepsOf("MODEL")
        <3>1. Compressions' = Compressions /\ StepsOf("MODEL")' = StepsOf("MODEL")
            BY <1>1, <2>2 DEF Compressions
        <3> QED
            BY <1>3, <2>1, <3>1 DEF Journal
    <2>3. CASE i \notin StepsOf("MODEL") /\ ~HasDone /\ StagesForScope(Plan, "MODEL_STEP") # {}
        <3>1. p = "CONTEXT_COMPRESSION" /\ StepsOf("MODEL") = {}
            BY <2>3 DEF MayCreate
        <3>2. StepsOf("MODEL")' = {i} /\ Compressions' = {i}
            BY <1>5, <3>1 DEF Compressions, ModelSteps
        <3>3. StepsOf("TOOL") = {}
            BY <2>3, ToolMeansDone
        <3> QED
            BY <1>3, <3>2, <3>3
    <2> QED
        BY <2>1, <2>2, <2>3
<1>15. (\A k \in BusinessDone : (\A j \in BusinessDone : j <= k) /\ steps[k].reply # "tool" => Closed)'
    BY <1>2, <1>4 DEF Journal, SameView
<1>16. (\A k \in InFlight : steps[k].key = <<Rounds>> /\ ~Closed /\ Unsure = {})'
    <2> SUFFICES ASSUME NEW k \in InFlight
                 PROVE  steps'[k].key = <<Rounds'>> /\ ~Closed' /\ Unsure' = {}
        BY <1>3
    <2>1. steps[k].key = <<Rounds>> /\ ~Closed /\ Unsure = {}
        BY DEF Journal
    <2>2. Unsure' = {}
        BY <1>1, <2>1 DEF MayDoubt
    <2> QED
        BY <1>2, <1>3, <2>1, <2>2 DEF SameView
<1>17. (\A k, j \in InFlight : k = j)'
    BY <1>3 DEF Journal
<1> QED
    BY <1>6, <1>7, <1>8, <1>9, <1>10, <1>11, <1>12, <1>13, <1>14, <1>15, <1>16, <1>17 DEF Journal

LEMMA ModelWriteInv ==
    ASSUME IInv, run.status = "RUNNING", UNCHANGED <<snapshot, run, effects, grants, torn>>,
           Keeps, JournalTyped', Len(steps') >= Len(steps), Journal', Cardinality(Repairs)' <= RepairMax,
           NEW c, call' = c, c.pc # "idle", CallOK(c)', AtPlace(c)'
    PROVE  IInv'
<1>1. Types /\ SameView
    BY ViewKept DEF IInv
<1>2. Rounds' \in 0..MaxRounds
    BY <1>1 DEF SameView, Types
<1>3. Types'
    BY <1>1, <1>2, WriteTypes
<1> QED
    BY <1>3, WriteInv

\* A Model Step that is created.
LEMMA ModelCreated ==
    ASSUME Types, NEW p \in Purposes, NEW s, StepOK(s), ~s.done, s.type = "MODEL", s.key = <<p>>,
           snapshot' = snapshot, steps' = Append(steps, s)
    PROVE  LET i == Len(steps) + 1 IN
           /\ Asks(i, p) /\ JournalTyped' /\ Len(steps') = i /\ steps'[i] = s
           /\ i \notin StepsOf("MODEL") /\ i \in StepsOf("MODEL")' /\ i \notin Done("MODEL")'
           /\ i \in Nat \ {0} /\ \A j \in BusinessDone : j < i
<1>1. Creates(s)
    BY Created
<1>2. PICK i : i = Len(steps) + 1
    OBVIOUS
<1>3. Len(steps) \in Nat /\ DOMAIN steps = 1..Len(steps)
    BY JournalDomain
<1>4. i \notin DOMAIN steps /\ i \in Nat \ {0}
    BY <1>2, <1>3
<1>5. i \notin StepsOf("MODEL") /\ StepsOf("MODEL")' = StepsOf("MODEL") \cup {i}
    BY <1>1, <1>2, <1>4 DEF Creates, StepsOf
<1>6. Asks(i, p)
    <2>1. s.key[1] = p
        OBVIOUS
    <2> QED
        BY <1>1, <1>2, <1>5, <2>1 DEF Creates, Asks, StepsOf
<1>7. i \notin Done("MODEL")'
    BY <1>1, <1>2 DEF Creates, Done
<1>8. \A j \in BusinessDone : j < i
    BY <1>2, <1>3, StepSets
<1> QED
    BY <1>1, <1>2, <1>4, <1>5, <1>6, <1>7, <1>8 DEF Creates, JournalTyped

\* A Model Step that is written again.
LEMMA ModelRewritten ==
    ASSUME Types, NEW i \in StepsOf("MODEL"), NEW st \in Statuses, NEW a \in Seq(AttemptStates),
           steps[i].done => st # "RUNNING" /\ a # <<>>, snapshot' = snapshot,
           steps' = Rewritten(i, st, a)
    PROVE  /\ Asks(i, steps[i].key[1]) /\ JournalTyped' /\ Len(steps') = Len(steps)
           /\ Done("MODEL")' = Done("MODEL") /\ i \in StepsOf("MODEL")' /\ steps'[i].atts = a
           /\ steps[i].key[1] \in Purposes
<1>1. i \in DOMAIN steps /\ steps[i].type = "MODEL" /\ StepOK(steps[i])
    BY DEF StepsOf, Types
<1>2. PICK r : r = steps[i]
    OBVIOUS
<1>3. PICK s : s = Restated(r, st, a)
    OBVIOUS
<1>4. /\ StepOK(s) /\ SameCheckpoint(steps[i], s) /\ s.type = "MODEL" /\ s.atts = a
    <2>1. StepOK(r) /\ (r.done => st # "RUNNING" /\ a # <<>> /\ r.type = "MODEL") /\ r.type = "MODEL"
        BY <1>1, <1>2
    <2>2. r.type = "TOOL" /\ a # <<>> /\ Last(a) = "PENDING" => st = "RUNNING"
        BY <2>1
    <2> QED
        BY <1>2, <1>3, <2>1, <2>2, RestatedOK
<1>5. steps' = [steps EXCEPT ![i] = s]
    BY <1>2, <1>3 DEF Rewritten, Restated
<1>6. Rewrites(i, s)
    BY <1>1, <1>4, <1>5, Rewrote
<1>7. Asks(i, steps[i].key[1])
    BY <1>1, <1>4, <1>6 DEF Rewrites, Asks, StepsOf, SameCheckpoint
<1>8. Done("MODEL")' = Done("MODEL")
    BY <1>7, DoneKept DEF Asks
<1> QED
    BY <1>1, <1>4, <1>6, <1>7, <1>8 DEF Rewrites, JournalTyped, StepOK

LEMMA FrontReplaced ==
    ASSUME NEW a \in Seq(AttemptStates), a # <<>>, NEW s \in AttemptStates
    PROVE  /\ Append(Front(a), s) \in Seq(AttemptStates) /\ Append(Front(a), s) # <<>>
           /\ Range(Append(Front(a), s)) \subseteq Range(a) \cup {s}
<1>1. PICK n : n = Len(a)
    OBVIOUS
<1>2. n \in Nat \ {0} /\ DOMAIN a = 1..n
    BY <1>1
<1>3. PICK f : f = Front(a)
    OBVIOUS
<1>4. f \in Seq(AttemptStates) /\ Len(f) = n - 1 /\ \A j \in 1..(n - 1) : f[j] = a[j]
    BY <1>1, <1>2, <1>3 DEF Front
<1>5. Range(f) \subseteq Range(a)
    BY <1>2, <1>4 DEF Range
<1> QED
    BY <1>3, <1>4, <1>5, AttemptAdded

\* AtModel, once Model Step i has been written.
LEMMA ModelAgain ==
    ASSUME Types, NEW b, AtModel(b), NEW i \in Nat \ {0}, NEW p \in Purposes, p = b.purpose, Asks(i, p),
           i \in StepsOf("MODEL")', i \notin Done("MODEL")', \A j \in BusinessDone : j < i,
           b.step = 0 \/ b.step = i, b.step = 0 => i \notin StepsOf("MODEL"), b.left \in -1..RepairMax,
           steps'[i].atts # <<>>, NEW c, c.step = i, c.purpose = p, c.left = b.left
    PROVE  AtModel(c)' /\ (p = "OUTPUT_REPAIR" => Cardinality(Repairs)' <= RepairMax
                                                  \/ Cardinality(Repairs)' = Cardinality(Repairs))
           /\ (p # "OUTPUT_REPAIR" => Cardinality(Repairs)' = Cardinality(Repairs))
<1>1. SameView
    BY ViewKept DEF Asks
<1>2. /\ \A q : ModelSteps(q)' = IF q = p THEN ModelSteps(q) \cup {i} ELSE ModelSteps(q)
      /\ \A j : j # i => (j \in Unsure' <=> j \in Unsure)
      /\ i \in StepsOf("MODEL") => \A q : ModelSteps(q)' = ModelSteps(q)
    BY ModelsAsked
<1>3. 0 \notin StepsOf("MODEL") /\ 0 \notin Unsure
    BY JournalDomain, StepSets
<1>4. Unsure' \subseteq {i}
    BY <1>2, <1>3 DEF AtModel
<1>5. StepsOf("MODEL") \subseteq {b.step} => StepsOf("MODEL")' \subseteq {i}
    BY <1>3 DEF Asks
<1>9. Unspent'
    BY SentAsked DEF AtModel
<1>6. Repairs \in SUBSET (1..Len(steps)) /\ IsFiniteSet(Repairs) /\ Cardinality(Repairs) \in Nat
    BY StepSets, FiniteSteps
<1>7. CASE b.step = 0 /\ p = "OUTPUT_REPAIR"
    <2>1. Repairs' = Repairs \cup {i} /\ i \notin Repairs
        BY <1>2, <1>7 DEF Repairs, ModelSteps
    <2>2. Cardinality(Repairs') = Cardinality(Repairs) + 1
        BY <1>6, <2>1, FS_AddElement
    <2>3. b.left >= 0 /\ Cardinality(Repairs) + 1 + b.left <= RepairMax
        BY <1>7 DEF AtModel
    <2>4. Cardinality(Repairs)' + c.left <= RepairMax /\ Cardinality(Repairs)' <= RepairMax
        BY <1>6, <2>2, <2>3, Bounds
    <2>5. i \in ModelSteps(p)'
        BY <1>2
    <2> QED
        BY <1>1, <1>4, <1>5, <1>7, <1>9, <2>4, <2>5 DEF AtModel, SameView
<1>8. CASE ~(b.step = 0 /\ p = "OUTPUT_REPAIR")
    <2>1. Repairs' = Repairs
        <3>1. CASE p # "OUTPUT_REPAIR"
            BY <1>2, <3>1 DEF Repairs
        <3>2. CASE b.step = i
            <4>1. i \in StepsOf("MODEL")
                BY <3>2 DEF AtModel, ModelSteps
            <4> QED
                BY <1>2, <4>1 DEF Repairs
        <3> QED
            BY <1>8, <3>1, <3>2
    <2>2. i \in ModelSteps(p)'
        BY <1>2
    <2> QED
        BY <1>1, <1>4, <1>5, <1>8, <1>9, <2>1, <2>2 DEF AtModel, SameView
<1> QED
    BY <1>7, <1>8

\* The same about the journal.
LEMMA ModelAsked ==
    ASSUME Types, Journal, NEW b, AtModel(b), NEW i \in Nat \ {0}, NEW p \in Purposes, p = b.purpose, Asks(i, p),
           i \in StepsOf("MODEL")', i \notin Done("MODEL")', \A j \in BusinessDone : j < i,
           b.step = 0 \/ b.step = i, b.step = 0 => i \notin StepsOf("MODEL"), steps'[i].atts # <<>>
    PROVE  Journal'
<1>1. 0 \notin StepsOf("MODEL") /\ 0 \notin Unsure
    BY JournalDomain, StepSets
<1>2. b.step = i => i \in StepsOf("MODEL")
    BY DEF AtModel, ModelSteps
<1>3. InputDone /\ Unspent
    BY DEF AtModel
<1>4. MayDoubt(i, p)
    BY <1>1 DEF AtModel, MayDoubt
<1>5. p = "CONTEXT_COMPRESSION" => Compressions \subseteq {i}
    BY <1>4 DEF MayDoubt, Compressions, ModelSteps
<1>6. p = "OUTPUT_REPAIR" => BusinessDone # {} /\ steps'[i].atts # <<>>
    BY DEF AtModel
<1>7. i \notin StepsOf("MODEL") => MayCreate(p)
    <2> SUFFICES ASSUME i \notin StepsOf("MODEL") PROVE MayCreate(p)
        OBVIOUS
    <2>1. b.step = 0 /\ Unsure = {}
        BY <1>1, <1>2 DEF AtModel
    <2>2. CASE p = "PRIMARY" /\ ~HasDone
        <3>1. Due("MODEL_STEP") = {}
            BY <2>2 DEF AtModel, Settled
        <3>2. Done("CONTEXT") = {}
            BY <2>2 DEF HasDone, Done, StepsOf
        <3>3. StagesForScope(Plan, "MODEL_STEP") = {}
            BY <3>1, <3>2 DEF Due
        <3> QED
            BY <2>1, <3>3 DEF MayCreate
    <2>3. CASE p = "CONTEXT_COMPRESSION"
        BY <1>1, <2>1, <2>3 DEF AtModel, MayCreate
    <2>4. CASE p = "OUTPUT_REPAIR"
        <3>1. HasDone
            BY <2>4 DEF AtModel, HasDone, BusinessDone, Done, StepsOf
        <3> QED
            BY <2>1, <3>1 DEF MayCreate
    <2>5. CASE HasDone
        BY <2>1, <2>5 DEF MayCreate
    <2> QED
        BY <2>2, <2>3, <2>4, <2>5 DEF Purposes
<1> QED
    BY <1>3, <1>4, <1>5, <1>6, <1>7, ModelJournal

LEMMA ReserveInv ==
    ASSUME IInv, Reserve
    PROVE  IInv' /\ Keeps /\ SameTools
<1>0. Types /\ Journal /\ AtModel(call) /\ CallOK(call) /\ run.status = "RUNNING"
    BY DEF IInv, Reserve, AtPlace, ModelPlaces, Driving
<1>1. UNCHANGED <<snapshot, run, effects, grants, torn>>
    BY DEF Reserve, counters
<1>2. PICK b, p : b = call /\ p = b.purpose
    OBVIOUS
<1>3. /\ AtModel(b) /\ p \in Purposes /\ b.step \in 0..Len(steps) /\ b.left \in -1..RepairMax
      /\ Len(steps) \in Nat
    BY <1>0, <1>2, JournalDomain DEF CallOK
<1>4. PICK i : i = IF b.step = 0 THEN Len(steps) + 1 ELSE b.step
    OBVIOUS
<1>5. /\ Asks(i, p) /\ JournalTyped' /\ Len(steps') >= Len(steps) /\ i <= Len(steps') /\ Len(steps') \in Nat
      /\ i \in StepsOf("MODEL")' /\ i \notin Done("MODEL")' /\ i \in Nat \ {0}
      /\ (\A j \in BusinessDone : j < i) /\ (b.step = 0 \/ b.step = i)
      /\ (b.step = 0 => i \notin StepsOf("MODEL")) /\ steps'[i].atts # <<>>
    <2>1. CASE b.step = 0
        <3>1. PICK s : s = Opened("MODEL", <<p>>)
            OBVIOUS
        <3>2. KeyOK("MODEL", <<p>>)
            BY <1>3 DEF KeyOK
        <3>3. StepOK(s) /\ s.type = "MODEL" /\ ~s.done /\ s.key = <<p>> /\ s.atts = <<"RUNNING">>
            BY <3>1, <3>2, OpenedOK
        <3>4. steps' = Append(steps, s)
            BY <1>2, <2>1, <3>1 DEF Reserve, Opened
        <3>5. i = Len(steps) + 1
            BY <1>4, <2>1
        <3>6. /\ Asks(i, p) /\ JournalTyped' /\ Len(steps') = i /\ steps'[i] = s
              /\ i \notin StepsOf("MODEL") /\ i \in StepsOf("MODEL")' /\ i \notin Done("MODEL")'
              /\ i \in Nat \ {0} /\ \A j \in BusinessDone : j < i
            BY <1>0, <1>1, <1>3, <3>3, <3>4, <3>5, ModelCreated
        <3> QED
            BY <1>3, <2>1, <3>3, <3>5, <3>6
    <2>2. CASE b.step # 0
        <3>1. i = b.step /\ i \in ModelSteps(p) \ Done("MODEL") /\ \A j \in BusinessDone : j < i
            BY <1>2, <1>3, <1>4, <2>2 DEF AtModel
        <3>2. i \in StepsOf("MODEL") /\ ~steps[i].done /\ steps[i].key[1] = p /\ steps[i].atts \in Seq(AttemptStates)
            BY <1>0, <3>1 DEF ModelSteps, Purpose, StepsOf, Done, Types, StepOK
        <3>3. PICK a : a = Append(steps[i].atts, "RUNNING")
            OBVIOUS
        <3>4. a \in Seq(AttemptStates) /\ "RUNNING" \in Statuses /\ a # <<>>
            <4>1. "RUNNING" \in AttemptStates
                BY DEF AttemptStates
            <4> QED
                BY <3>2, <3>3, <4>1, AttemptAdded DEF Statuses
        <3>5. steps' = Rewritten(i, "RUNNING", a)
            BY <1>2, <2>2, <3>1, <3>3 DEF Reserve
        <3>6. steps[i].done => "RUNNING" # "RUNNING" /\ a # <<>>
            BY <3>2
        <3>7. /\ Asks(i, steps[i].key[1]) /\ JournalTyped' /\ Len(steps') = Len(steps)
              /\ Done("MODEL")' = Done("MODEL") /\ i \in StepsOf("MODEL")' /\ steps'[i].atts = a
            BY <1>0, <1>1, <3>2, <3>4, <3>5, <3>6, ModelRewritten
        <3> QED
            BY <1>3, <2>2, <3>1, <3>2, <3>4, <3>7
    <2> QED
        BY <2>1, <2>2
<1>6. Journal'
    BY <1>0, <1>2, <1>3, <1>5, ModelAsked
<1>7. PICK c : c = MovedTo("model", i)
    OBVIOUS
<1>8. CallOK(c)' /\ c.pc = "model" /\ c.step = i /\ c.purpose = p /\ c.left = b.left
    <2>1. "model" \in Places
        BY PlaceNames
    <2> QED
        BY <1>0, <1>2, <1>3, <1>5, <1>7, <2>1, MovedToFields
<1>9. AtModel(c)' /\ Cardinality(Repairs)' <= RepairMax
    <2>1. Cardinality(Repairs) <= RepairMax
        BY DEF IInv
    <2> QED
        BY <1>0, <1>2, <1>3, <1>5, <1>8, <2>1, ModelAgain
<1>10. AtPlace(c)'
    BY <1>8, <1>9 DEF AtPlace, StagePlaces, ToolPlaces
<1>11. call' = c
    BY <1>2, <1>4, <1>7 DEF Reserve, MovedTo
<1>12. IInv'
    BY <1>0, <1>1, <1>5, <1>6, <1>8, <1>9, <1>10, <1>11, ModelWriteInv DEF Asks
<1> QED
    BY <1>12, <1>5 DEF Asks

LEMMA FailModelStepFields ==
    ASSUME Types, NEW i \in 0..Len(steps), NEW p \in Purposes, NEW c, c = FailModelStep(i, p)
    PROVE  CallOK(c) /\ c.pc = "failModelStep" /\ c.step = i /\ c.purpose = p /\ c.end = "FAILED"
           /\ c.outcome = NoOutcome
<1>1. CallOK(c)
    BY FailModelStepOK
<1> QED
    BY <1>1 DEF FailModelStep, At, Idle

LEMMA ReserveRefusedInv ==
    ASSUME IInv, ReserveRefused
    PROVE  IInv' /\ Keeps /\ SameTools /\ call'.pc = "failModelStep" /\ call'.outcome = NoOutcome
<1>0. Types /\ Journal /\ Waiting /\ AtModel(call) /\ CallOK(call) /\ run.status = "RUNNING"
    BY DEF IInv, ReserveRefused, AtPlace, ModelPlaces, Driving
<1>1. UNCHANGED <<snapshot, steps, run, effects, grants, torn>>
    BY DEF ReserveRefused, storeVars, history, counters
<1>2. PICK i, p : i = call.step /\ p = call.purpose
    OBVIOUS
<1>3. i \in 0..Len(steps) /\ p \in Purposes /\ Len(steps) \in Nat
    BY <1>0, <1>2, JournalDomain DEF CallOK
<1>4. PICK c : c = FailModelStep(i, p)
    OBVIOUS
<1>5. CallOK(c) /\ c.pc = "failModelStep" /\ c.step = i /\ c.purpose = p /\ c.end = "FAILED"
      /\ c.outcome = NoOutcome
    BY <1>0, <1>3, <1>4, FailModelStepFields
<1>6. AtFailure(c)
    <2>1. CASE i = 0
        <3>1. Unsure = {} /\ StepsOf("MODEL") \subseteq {i} => StepsOf("MODEL") = {}
            BY <1>0, <1>3, <2>1, StepSets
        <3>2. Unsure = {} /\ 0 \notin StepsOf("MODEL")
            BY <1>0, <1>2, <1>3, <2>1, StepSets DEF AtModel
        <3>3. p = "OUTPUT_REPAIR" => BusinessDone # {} /\ Cardinality(Repairs) < RepairMax
            <4>1. Cardinality(Repairs) \in Nat
                BY <1>0, StepSets, FiniteSteps
            <4> QED
                BY <1>0, <1>2, <2>1, <4>1, Bounds DEF AtModel, CallOK
        <3> QED
            BY <1>0, <1>2, <1>5, <2>1, <3>1, <3>2, <3>3 DEF AtModel, AtFailure
    <2>2. CASE i # 0
        BY <1>0, <1>2, <1>5, <2>2 DEF AtModel, AtFailure, ModelSteps
    <2> QED
        BY <2>1, <2>2
<1>7. AtPlace(c)
    BY <1>5, <1>6 DEF AtPlace, StagePlaces, ModelPlaces, ToolPlaces
<1>8. call' = c
    BY <1>2, <1>4 DEF ReserveRefused
<1>9. Waiting' /\ RunOK'
    BY <1>0, <1>1, WaitingKept DEF Types, RunOK
<1>10. Driving'
    BY <1>0, <1>1, <1>5, <1>8, DrivesOn
<1>11. IInv'
    BY <1>0, <1>1, <1>5, <1>7, <1>8, <1>9, <1>10, StillInv DEF Types
<1>12. Keeps /\ SameTools
    BY <1>0, <1>1, StillView DEF Keeps, SameCheckpoint
<1> QED
    BY <1>5, <1>8, <1>11, <1>12

LEMMA ModelFailsInv ==
    ASSUME IInv, NEW f \in {"TRANSIENT", "PERMANENT"}, ModelFails(f)
    PROVE  IInv' /\ Keeps /\ SameTools
<1>0. Types /\ Journal /\ AtModel(call) /\ CallOK(call) /\ run.status = "RUNNING" /\ call.pc = "model"
    BY DEF IInv, ModelFails, AtPlace, ModelPlaces, Driving
<1>1. UNCHANGED <<snapshot, run, effects, grants, torn>>
    BY DEF ModelFails, history
<1>2. PICK b, p, i : b = call /\ p = b.purpose /\ i = b.step
    OBVIOUS
<1>3. /\ AtModel(b) /\ p \in Purposes /\ i \in 0..Len(steps) /\ b.left \in -1..RepairMax
      /\ Len(steps) \in Nat /\ i \in ModelSteps(p) \ Done("MODEL") /\ i # 0 /\ \A j \in BusinessDone : j < i
    BY <1>0, <1>2, JournalDomain DEF CallOK, AtModel
<1>4. i \in StepsOf("MODEL") /\ ~steps[i].done /\ steps[i].key[1] = p /\ steps[i].atts \in Seq(AttemptStates)
      /\ steps[i].status \in Statuses
    BY <1>0, <1>3 DEF ModelSteps, Purpose, StepsOf, Done, Types, StepOK
<1>5. PICK a, st : a = SetAttempt(steps[i].atts, f) /\ st = steps[i].status
    OBVIOUS
<1>6. a \in Seq(AttemptStates) /\ a # <<>>
    <2>1. f \in AttemptStates
        BY DEF AttemptStates, FailedAttempts
    <2> QED
        BY <1>4, <1>5, <2>1, AttemptSet
<1>7. /\ Asks(i, p) /\ JournalTyped' /\ Len(steps') = Len(steps)
      /\ Done("MODEL")' = Done("MODEL") /\ i \in StepsOf("MODEL")' /\ steps'[i].atts = a
    <2>1. steps' = Rewritten(i, st, a)
        BY <1>2, <1>5 DEF ModelFails
    <2>2. steps[i].done => st # "RUNNING" /\ a # <<>>
        BY <1>4
    <2> QED
        BY <1>0, <1>1, <1>4, <1>5, <1>6, <2>1, <2>2, ModelRewritten
<1>8. i \notin Done("MODEL")' /\ i \in Nat \ {0} /\ Len(steps') >= Len(steps) /\ Len(steps') \in Nat
      /\ (b.step = 0 => i \notin StepsOf("MODEL"))
    BY <1>2, <1>3, <1>7
<1>9. Journal'
    BY <1>0, <1>2, <1>3, <1>6, <1>7, <1>8, ModelAsked
<1>10. PICK c : c = call'
    OBVIOUS
<1>11. Cardinality(Repairs)' <= RepairMax
    <2>1. \A q : ModelSteps(q)' = ModelSteps(q)
        BY <1>0, <1>4, <1>7, ModelsAsked
    <2> QED
        BY <2>1 DEF IInv, Repairs
<1>12. CallOK(c)' /\ AtPlace(c)' /\ c.pc # "idle"
    <2>1. CASE c = MovedTo("reserve", i)
        <3>1. CallOK(c)' /\ c.pc = "reserve" /\ c.step = i /\ c.purpose = p /\ c.left = b.left
            <4>1. "reserve" \in Places /\ i <= Len(steps')
                BY <1>3, <1>7, PlaceNames
            <4> QED
                BY <1>0, <1>2, <1>3, <1>8, <2>1, <4>1, MovedToFields
        <3>2. AtModel(c)'
            BY <1>0, <1>2, <1>3, <1>6, <1>7, <1>8, <3>1, ModelAgain
        <3> QED
            BY <3>1, <3>2 DEF AtPlace, StagePlaces, ToolPlaces
    <2>2. CASE c = FailModelStep(i, p)
        <3>1. CallOK(c) /\ c.pc = "failModelStep" /\ c.step = i /\ c.end = "FAILED"
            BY <1>0, <1>3, <2>2, FailModelStepFields
        <3>2. CallOK(c)'
            BY <1>0, <1>8, <3>1, CallKept
        <3>3. AtFailure(c)'
            <4>1. Unspent'
                BY <1>0, <1>6, <1>7, SentAsked DEF AtModel
            <4> QED
                BY <1>3, <1>7, <3>1, <4>1 DEF AtFailure
        <3> QED
            BY <3>1, <3>2, <3>3 DEF AtPlace, StagePlaces, ModelPlaces, ToolPlaces
    <2>3. c = [call EXCEPT !.pc = "reserve"] \/ c = FailModelStep(i, p)
        BY <1>2, <1>10 DEF ModelFails
    <2>4. [call EXCEPT !.pc = "reserve"] = MovedTo("reserve", i)
        <3>1. PICK d : d = [call EXCEPT !.pc = "reserve"]
            OBVIOUS
        <3>2. d.step = i /\ d = [d EXCEPT !.step = i]
            BY <1>0, <1>2, <3>1 DEF CallOK
        <3> QED
            BY <3>1, <3>2 DEF MovedTo
    <2> QED
        BY <2>1, <2>2, <2>3, <2>4
<1>13. IInv'
    BY <1>0, <1>1, <1>7, <1>8, <1>9, <1>10, <1>11, <1>12, ModelWriteInv DEF Asks
<1> QED
    BY <1>13, <1>7 DEF Asks

LEMMA DoubtStays ==
    ASSUME Types, Journal, NEW i \in Unsure
    PROVE  MayDoubt(i, steps[i].key[1])
<1>1. Closed /\ Unsure \subseteq {i} /\ \A j \in BusinessDone : j < i
    BY DEF Journal
<1>2. steps[i].key[1] = "CONTEXT_COMPRESSION" => i \in Compressions
    BY DEF Unsure, Compressions, ModelSteps, Purpose
<1> QED
    BY <1>1, <1>2 DEF Journal, MayDoubt

\* A Model Step is written again, and is not in doubt unless it was.
LEMMA ModelRewrittenJournal ==
    ASSUME Types, Journal, Unspent, NEW i \in StepsOf("MODEL"), NEW p, p = steps[i].key[1], Asks(i, p),
           i \in Unsure' => i \in Unsure, steps[i].atts # <<>> => steps'[i].atts # <<>>
    PROVE  Journal' /\ Repairs' = Repairs
<1>1. InputDone /\ p \in Purposes
    BY DEF Journal, StepsOf, Types, StepOK
<1>2. p = "CONTEXT_COMPRESSION" => Compressions \subseteq {i}
    BY DEF Journal, Compressions, ModelSteps, Purpose
<1>3. p = "OUTPUT_REPAIR" => BusinessDone # {} /\ steps'[i].atts # <<>>
    BY DEF Journal, Unspent, Repairs, ModelSteps, Purpose
<1>4. i \in Unsure' => MayDoubt(i, p)
    BY DoubtStays
<1>5. Journal'
    BY <1>1, <1>2, <1>3, <1>4, ModelJournal
<1>6. Repairs' = Repairs
    BY ModelsAsked DEF Repairs
<1> QED
    BY <1>5, <1>6

LEMMA UnconfirmModelInv ==
    ASSUME IInv, UnconfirmModel
    PROVE  IInv' /\ Quiet(call') /\ Keeps /\ SameTools
<1>0. Types /\ Journal /\ CallOK(call) /\ run.status = "RUNNING" /\ call.step \in Unsure
    BY DEF IInv, UnconfirmModel, AtPlace, Driving
<1>1. UNCHANGED <<snapshot, run, effects, grants, torn>>
    BY DEF UnconfirmModel, history, counters
<1>2. PICK i : i = call.step
    OBVIOUS
<1>3. i \in StepsOf("MODEL") /\ i \in Unsure /\ Len(steps) \in Nat
    BY <1>0, <1>2, JournalDomain DEF Unsure
<1>4. steps[i].atts \in Seq(AttemptStates) /\ steps[i].status \in Statuses /\ ~steps[i].done
    BY <1>0, <1>3 DEF StepsOf, Unsure, Done, Types, StepOK
<1>5. PICK a, st : a = SetAttempt(steps[i].atts, "UNCONFIRMED") /\ st = steps[i].status
    OBVIOUS
<1>6. a \in Seq(AttemptStates) /\ a # <<>>
    <2>1. "UNCONFIRMED" \in AttemptStates
        BY DEF AttemptStates, FailedAttempts
    <2> QED
        BY <1>4, <1>5, <2>1, AttemptSet
<1>7. /\ Asks(i, steps[i].key[1]) /\ JournalTyped' /\ Len(steps') = Len(steps) /\ steps'[i].atts = a
    <2>1. steps' = Rewritten(i, st, a)
        BY <1>2, <1>5 DEF UnconfirmModel
    <2>2. steps[i].done => st # "RUNNING" /\ a # <<>>
        BY <1>4
    <2> QED
        BY <1>0, <1>1, <1>3, <1>4, <1>5, <1>6, <2>1, <2>2, ModelRewritten
<1>8. Journal' /\ Repairs' = Repairs
    BY <1>0, <1>3, <1>6, <1>7, ModelRewrittenJournal, SentRepairs
<1>9. Rounds' \in 0..MaxRounds
    BY <1>0, <1>7, ViewKept DEF SameView, Types, Asks
<1>10. Types' /\ Len(steps') >= Len(steps)
    BY <1>0, <1>1, <1>3, <1>7, <1>9, WriteTypes
<1>11. HeldSteps' = {}
    <2>1. InFlight = {}
        BY <1>0, <1>3 DEF Journal
    <2> QED
        BY <1>0, <1>7, <2>1, ToolsKept, StepSets DEF Asks
<1>12. Good(ResumeModel)'
    BY <1>8, <1>10, <1>11, ResumeModelNext
<1>13. PICK c : c = call'
    OBVIOUS
<1>14. c = ResumeModel'
    BY <1>13 DEF UnconfirmModel
<1>15. CallOK(c)' /\ AtPlace(c)' /\ c.pc # "idle" /\ Quiet(c)
    BY <1>12, <1>14 DEF Good, Plain, Quiet
<1>16. Cardinality(Repairs)' <= RepairMax
    BY <1>8 DEF IInv
<1>17. IInv'
    BY <1>0, <1>1, <1>8, <1>10, <1>13, <1>15, <1>16, WriteInv
<1> QED
    BY <1>7, <1>13, <1>15, <1>17 DEF Asks

LEMMA FailModelStepRecordedInv ==
    ASSUME IInv, FailModelStepRecorded
    PROVE  IInv' /\ Keeps /\ SameTools
<1>0. Types /\ Journal /\ AtFailure(call) /\ CallOK(call) /\ run.status = "RUNNING"
    BY DEF IInv, FailModelStepRecorded, AtPlace, Driving
<1>1. UNCHANGED <<snapshot, run, effects, grants, torn>>
    BY DEF FailModelStepRecorded, history, counters
<1>2. PICK b, p : b = call /\ p = b.purpose
    OBVIOUS
<1>3. AtFailure(b) /\ p \in Purposes /\ Len(steps) \in Nat
    BY <1>0, <1>2, JournalDomain DEF CallOK
<1>4. /\ Keeps /\ SameTools /\ JournalTyped' /\ Len(steps') >= Len(steps) /\ Len(steps') \in Nat
      /\ Journal' /\ Cardinality(Repairs)' <= RepairMax
    <2>1. CASE b.step = 0
        <3>1. PICK s, i : s = Refused("MODEL", <<p>>) /\ i = Len(steps) + 1
            OBVIOUS
        <3>2. KeyOK("MODEL", <<p>>)
            BY <1>3 DEF KeyOK
        <3>3. StepOK(s) /\ s.type = "MODEL" /\ ~s.done /\ s.key = <<p>> /\ s.atts = <<>> /\ s.status = "FAILED"
            BY <3>1, <3>2, RefusedOK
        <3>4. steps' = Append(steps, s)
            BY <1>2, <2>1, <3>1 DEF FailModelStepRecorded, Refused
        <3>5. /\ Asks(i, p) /\ JournalTyped' /\ Len(steps') = i /\ steps'[i] = s
              /\ i \notin StepsOf("MODEL") /\ i \in StepsOf("MODEL")'
            BY <1>0, <1>1, <1>3, <3>1, <3>3, <3>4, ModelCreated
        <3>6. i \notin Unsure'
            <4>1. Range(steps'[i].atts) = {}
                BY <3>3, <3>5 DEF Range
            <4> QED
                BY <4>1 DEF Unsure, HasAttempt
        <3>7. /\ InputDone /\ Unsure = {} /\ Closed /\ Unspent
              /\ (p = "OUTPUT_REPAIR" => BusinessDone # {} /\ Cardinality(Repairs) < RepairMax)
              /\ (p = "PRIMARY" => Settled) /\ (p = "CONTEXT_COMPRESSION" => StepsOf("MODEL") = {})
            BY <1>2, <1>3, <2>1 DEF AtFailure
        <3>8. MayCreate(p)
            <4>1. CASE p = "PRIMARY" /\ ~HasDone
                <5>1. Due("MODEL_STEP") = {} /\ Done("CONTEXT") = {}
                    BY <3>7, <4>1 DEF Settled, HasDone, Done, StepsOf
                <5>2. StagesForScope(Plan, "MODEL_STEP") = {}
                    BY <5>1 DEF Due
                <5> QED
                    BY <3>7, <5>2 DEF MayCreate
            <4>2. CASE p = "OUTPUT_REPAIR"
                BY <3>7, <4>2 DEF MayCreate, HasDone, BusinessDone, Done, StepsOf
            <4> QED
                BY <1>3, <3>7, <4>1, <4>2 DEF MayCreate, Purposes
        <3>9. p = "CONTEXT_COMPRESSION" => Compressions \subseteq {i}
            BY <3>7 DEF Compressions, ModelSteps
        <3>12. Refusal(i)'
            <4>1. Closed'
                BY <1>0, <3>5, <3>7, ViewKept DEF Asks, SameView
            <4>2. Unsure' = {}
                BY <1>0, <3>5, <3>6, <3>7, ModelsAsked
            <4>3. \A j \in StepsOf("MODEL")' : j <= i
                BY <1>0, <1>3, <3>1, <3>5, StepSets DEF Asks
            <4> QED
                BY <3>3, <3>5, <4>1, <4>2, <4>3 DEF Refusal
        <3>10. Journal'
            BY <1>0, <1>3, <3>5, <3>6, <3>7, <3>8, <3>9, <3>12, ModelJournal
        <3>11. Cardinality(Repairs)' <= RepairMax
            <4>1. Repairs' = IF p = "OUTPUT_REPAIR" THEN Repairs \cup {i} ELSE Repairs
                BY <1>0, <3>5, ModelsAsked DEF Repairs
            <4>2. IsFiniteSet(Repairs) /\ Cardinality(Repairs) \in Nat /\ i \notin Repairs
                BY <1>0, <3>5, StepSets, FiniteSteps DEF Repairs, ModelSteps
            <4>3. Cardinality(Repairs \cup {i}) = Cardinality(Repairs) + 1
                BY <4>2, FS_AddElement
            <4> QED
                BY <3>7, <4>1, <4>2, <4>3, Bounds DEF IInv
        <3> QED
            BY <1>3, <3>1, <3>5, <3>10, <3>11 DEF Asks
    <2>2. CASE b.step # 0
        <3>1. PICK i : i = b.step
            OBVIOUS
        <3>2. i \in StepsOf("MODEL")
            BY <1>3, <2>2, <3>1 DEF AtFailure
        <3>3. steps[i].atts \in Seq(AttemptStates) /\ (steps[i].done => steps[i].atts # <<>>)
            BY <1>0, <3>2 DEF StepsOf, Types, StepOK
        <3>4. PICK a : a = IF EndsIn(i, {"SUCCEEDED"}) THEN Append(Front(steps[i].atts), "PERMANENT")
                           ELSE steps[i].atts
            OBVIOUS
        <3>5. /\ a \in Seq(AttemptStates) /\ (steps[i].atts # <<>> => a # <<>>)
              /\ Range(a) \subseteq Range(steps[i].atts) \cup {"PERMANENT"}
            <4>1. "PERMANENT" \in AttemptStates
                BY DEF AttemptStates, FailedAttempts
            <4>2. CASE EndsIn(i, {"SUCCEEDED"})
                <5>1. steps[i].atts # <<>> /\ a = Append(Front(steps[i].atts), "PERMANENT")
                    BY <3>4, <4>2 DEF EndsIn
                <5> QED
                    BY <3>3, <4>1, <5>1, FrontReplaced
            <4>3. CASE ~EndsIn(i, {"SUCCEEDED"})
                BY <3>3, <3>4, <4>3
            <4> QED
                BY <4>2, <4>3
        <3>6. steps' = Rewritten(i, "FAILED", a) /\ "FAILED" \in Statuses
            BY <1>2, <2>2, <3>1, <3>4 DEF FailModelStepRecorded, Statuses
        <3>7. steps[i].done => "FAILED" # "RUNNING" /\ a # <<>>
            BY <3>3, <3>5
        <3>8. /\ Asks(i, steps[i].key[1]) /\ JournalTyped' /\ Len(steps') = Len(steps)
              /\ Done("MODEL")' = Done("MODEL") /\ steps'[i].atts = a
            BY <1>0, <1>1, <3>2, <3>5, <3>6, <3>7, ModelRewritten
        <3>9. i \in Unsure' => i \in Unsure
            BY <3>2, <3>5, <3>8 DEF Unsure, HasAttempt
        <3>10. Journal' /\ Repairs' = Repairs
            BY <1>0, <3>2, <3>5, <3>8, <3>9, ModelRewrittenJournal DEF AtFailure
        <3> QED
            BY <1>3, <3>8, <3>10 DEF Asks, IInv
    <2> QED
        BY <2>1, <2>2
<1>5. PICK c : c = EndRun("FAILED")
    OBVIOUS
<1>6. call' = c /\ CallOK(c) /\ c.pc = "endRun" /\ AtPlace(c)'
    BY <1>0, <1>5, EndRunFields, EndPlace DEF FailModelStepRecorded
<1>7. CallOK(c)'
    BY <1>0, <1>4, <1>6, CallKept
<1>8. Cardinality(Repairs)' <= RepairMax
    BY <1>4
<1>9. IInv'
    BY <1>0, <1>1, <1>4, <1>6, <1>7, <1>8, ModelWriteInv
<1> QED
    BY <1>9, <1>4

\* What a response that is checkpointed leaves.
LEMMA ModelCompleted ==
    ASSUME Types, Journal, NEW b, AtModel(b), NEW i, i = b.step, NEW p \in Purposes, p = b.purpose,
           i \in ModelSteps(p) \ Done("MODEL"), \A j \in BusinessDone : j < i,
           NEW it, NEW re, Completes(i, it, re, NoOutcome), snapshot' = snapshot
    PROVE  /\ SameTools /\ StepsOf("MODEL")' = StepsOf("MODEL") /\ Done("MODEL")' = Done("MODEL") \cup {i}
           /\ (\A q : ModelSteps(q)' = ModelSteps(q)) /\ Unsure' = {} /\ InputDone' /\ HasDone'
           /\ BusinessDone' = (IF p = "CONTEXT_COMPRESSION" THEN BusinessDone ELSE BusinessDone \cup {i})
           /\ InFlight = {} /\ InFlight' = {} /\ HeldSteps' = {} /\ Plan' = Plan
           /\ Rounds' = (IF p # "CONTEXT_COMPRESSION" /\ re = "tool" THEN Rounds + 1 ELSE Rounds)
<1>1. i \in DOMAIN steps /\ steps[i].type = "MODEL" /\ steps[i].key[1] = p /\ ~steps[i].done
    BY DEF ModelSteps, StepsOf, Done, Purpose
<1>2. SameTools /\ StepsOf("MODEL")' = StepsOf("MODEL") /\ Done("MODEL")' = Done("MODEL") \cup {i}
    BY <1>1 DEF Completes
<1>3. \A q : ModelSteps(q)' = ModelSteps(q)
    BY <1>1 DEF Completes, ModelSteps, Purpose, StepsOf
<1>4. Unsure' = {}
    <2>1. Unsure \subseteq {i}
        BY DEF AtModel
    <2>2. \A j \in StepsOf("MODEL") : j # i => \A A : HasAttempt(j, A)' = HasAttempt(j, A)
        BY DEF Completes, HasAttempt, Range, StepsOf
    <2> QED
        BY <1>2, <2>1, <2>2 DEF Unsure
<1>5. Plan' = Plan
    BY DEF Plan
<1>6. InputDone'
    <2>1. ContextsStay
        BY <1>1 DEF Completes, ContextsStay, Done, StepsOf
    <2>2. InputDone
        BY DEF AtModel
    <2> QED
        BY <1>5, <2>1, <2>2, DueShrinks DEF InputDone
<1>7. HasDone'
    BY <1>1 DEF Completes, HasDone
<1>8. BusinessDone' = (IF p = "CONTEXT_COMPRESSION" THEN BusinessDone ELSE BusinessDone \cup {i})
    <2>1. i \in ModelSteps("CONTEXT_COMPRESSION") <=> p = "CONTEXT_COMPRESSION"
        BY <1>1 DEF ModelSteps, Purpose, StepsOf
    <2> QED
        BY <1>2, <1>3, <2>1 DEF BusinessDone
<1>9. InFlight = {} /\ InFlight' = {} /\ HeldSteps' = {}
    <2>1. InFlight = {}
        BY DEF AtModel, Journal
    <2> QED
        BY <1>2, <2>1, ToolsKept, StepSets
<1>10. Rounds' = (IF p # "CONTEXT_COMPRESSION" /\ re = "tool" THEN Rounds + 1 ELSE Rounds)
    <2>1. PICK S, T : S = {j \in BusinessDone : steps[j].reply = "tool"}
                      /\ T = {j \in BusinessDone : steps[j].reply = "tool"}'
        OBVIOUS
    <2>2. Rounds = Cardinality(S) /\ Rounds' = Cardinality(T)
        BY <2>1 DEF Rounds
    <2>3. i \notin BusinessDone /\ \A j \in BusinessDone : steps'[j] = steps[j]
        BY DEF Completes, BusinessDone, Done, StepsOf
    <2>4. T = (IF p # "CONTEXT_COMPRESSION" /\ re = "tool" THEN S \cup {i} ELSE S) /\ i \notin S
        <3>1. steps'[i].reply = re
            BY DEF Completes
        <3> QED
            BY <1>8, <2>1, <2>3, <3>1
    <2>5. IsFiniteSet(S)
        <3>1. S \in SUBSET (1..Len(steps))
            BY <2>1, StepSets
        <3> QED
            BY <3>1, FiniteSteps
    <2> QED
        BY <2>2, <2>4, <2>5, FS_AddElement
<1> QED
    BY <1>2, <1>3, <1>4, <1>5, <1>6, <1>7, <1>8, <1>9, <1>10

LEMMA RespondInv ==
    ASSUME IInv, NEW re \in {"good", "bad", "tool", "derived"}, Respond(re)
    PROVE  IInv' /\ Quiet(call') /\ SameTools /\ (Closed' <=> re # "tool")
           /\ Rounds' = (IF re = "tool" THEN Rounds + 1 ELSE Rounds)
           /\ Completes(call.step, IF re = "derived" THEN Compressible ELSE <<>>, re, NoOutcome)
<1>0. Types /\ Journal /\ AtModel(call) /\ CallOK(call) /\ run.status = "RUNNING" /\ call.pc = "model"
    BY DEF IInv, Respond, AtPlace, ModelPlaces, Driving
<1>1. UNCHANGED <<snapshot, run, effects, grants, torn>>
    BY DEF Respond, history, counters
<1>2. PICK b, p, i : b = call /\ p = b.purpose /\ i = b.step
    OBVIOUS
<1>3. /\ AtModel(b) /\ p \in Purposes /\ i \in 0..Len(steps) /\ b.left \in -1..RepairMax
      /\ Len(steps) \in Nat /\ i \in ModelSteps(p) \ Done("MODEL") /\ i # 0 /\ (\A j \in BusinessDone : j < i)
    BY <1>0, <1>2, JournalDomain DEF CallOK, AtModel
<1>4. i \in DOMAIN steps /\ steps[i].type = "MODEL" /\ NoOutcome \in Int
    BY <1>3 DEF ModelSteps, StepsOf, NoOutcome
<1>5. /\ re = "derived" <=> p = "CONTEXT_COMPRESSION"
      /\ re = "tool" => Rounds < MaxRounds
    BY <1>2, <1>3 DEF Respond, Purposes
<1>6. PICK it : it = IF re = "derived" THEN Compressible ELSE <<>>
    OBVIOUS
<1>7. Completes(i, it, re, NoOutcome)
    <2>1. steps' = Completed(i, it, re, NoOutcome)
        BY <1>2, <1>6 DEF Respond
    <2> QED
        BY <1>0, <1>4, <2>1, CompletedOK
<1>8. /\ SameTools /\ StepsOf("MODEL")' = StepsOf("MODEL") /\ Done("MODEL")' = Done("MODEL") \cup {i}
      /\ (\A q : ModelSteps(q)' = ModelSteps(q)) /\ Unsure' = {} /\ InputDone' /\ HasDone'
      /\ BusinessDone' = (IF p = "CONTEXT_COMPRESSION" THEN BusinessDone ELSE BusinessDone \cup {i})
      /\ InFlight = {} /\ InFlight' = {} /\ HeldSteps' = {} /\ Plan' = Plan
      /\ Rounds' = (IF p # "CONTEXT_COMPRESSION" /\ re = "tool" THEN Rounds + 1 ELSE Rounds)
    BY <1>0, <1>1, <1>2, <1>3, <1>7, ModelCompleted
<1>9. /\ Compressions' = Compressions /\ Repairs' = Repairs /\ StepsOf("TOOL")' = StepsOf("TOOL")
      /\ \A j \in StepsOf("TOOL") : steps'[j] = steps[j]
    BY <1>8 DEF Compressions, Repairs, SameTools
<1>10. Closed
    BY <1>3 DEF AtModel
<1>11. Closed' <=> re # "tool"
    <2>1. Done("TOOL")' = Done("TOOL") /\ \A j \in Done("TOOL") : steps'[j] = steps[j] /\ j \in StepsOf("TOOL")
        BY <1>8, ToolsKept DEF SameTools, Done
    <2>2. CASE re = "tool"
        <3>1. Rounds \in Nat /\ Rounds' = Rounds + 1
            BY <1>0, <1>5, <1>8, <2>2 DEF Types
        <3>2. \A j \in Done("TOOL") : steps[j].key # <<Rounds + 1>>
            <4> SUFFICES ASSUME NEW j \in Done("TOOL"), steps[j].key = <<Rounds + 1>> PROVE FALSE
                OBVIOUS
            <4>1. steps[j].key[1] <= Rounds
                BY <1>0, <2>1 DEF Journal
            <4> QED
                BY <3>1, <4>1
        <3>3. ~Answered'
            BY <2>1, <3>1, <3>2 DEF Answered
        <3> QED
            BY <2>2, <3>1, <3>3 DEF Closed
    <2>3. CASE re # "tool"
        <3>1. Rounds' = Rounds
            BY <1>8, <2>3
        <3>2. Answered' = Answered
            BY <2>1, <3>1 DEF Answered
        <3> QED
            BY <1>10, <2>3, <3>1, <3>2 DEF Closed
    <2> QED
        BY <2>2, <2>3
<1>12. Rounds' \in 0..MaxRounds /\ Rounds \in Nat /\ Rounds <= Rounds'
    BY <1>0, <1>5, <1>8, Bounds DEF Types
<1>13. Types' /\ Len(steps') = Len(steps) /\ Len(steps') >= Len(steps)
    BY <1>0, <1>1, <1>3, <1>7, <1>12, WriteTypes DEF Completes
<1>20. Unspent'
    BY <1>3, <1>7, <1>9 DEF AtModel, Unspent, Completes, Repairs, ModelSteps, StepsOf
<1>14. Journal'
    <2>1. (\A j \in StepsOf("TOOL") : steps[j].key[1] <= Rounds)'
        <3> SUFFICES ASSUME NEW j \in StepsOf("TOOL") PROVE steps[j].key[1] <= Rounds'
            BY <1>9
        <3>1. steps[j].key[1] <= Rounds /\ steps[j].key[1] \in Nat
            BY <1>0 DEF Journal, Types, StepOK, StepsOf
        <3> QED
            BY <1>12, <3>1
    <2>2. (\A j \in Repairs : steps[j].atts # <<>> \/ Refusal(j))'
        BY <1>20 DEF Unspent
    <2>3. (Repairs # {} => BusinessDone # {})'
        BY <1>0, <1>8, <1>9 DEF Journal
    <2>4. (\A k \in BusinessDone : (\A j \in BusinessDone : j <= k) /\ steps[k].reply # "tool" => Closed)'
        <3>1. CASE re # "tool"
            BY <1>11, <3>1
        <3>2. CASE re = "tool"
            <4>1. BusinessDone' = BusinessDone \cup {i} /\ steps'[i].reply = "tool"
                BY <1>5, <1>7, <1>8, <3>2 DEF Completes
            <4>2. ASSUME NEW k \in BusinessDone', \A j \in BusinessDone' : j <= k PROVE k = i
                <5>1. i <= k /\ (k \in BusinessDone => k < i) /\ i \in Nat /\ k \in Nat
                    <6>1. BusinessDone \in SUBSET (1..Len(steps))
                        BY <1>0, StepSets
                    <6> QED
                        BY <1>3, <4>1, <4>2, <6>1
                <5> QED
                    BY <4>1, <5>1
            <4> QED
                BY <4>1, <4>2
        <3> QED
            BY <3>1, <3>2
    <2>5. (\A k, j \in Compressions : k = j)'
        BY <1>0, <1>9 DEF Journal
    <2> QED
        BY <1>8, <1>9, <2>1, <2>2, <2>3, <2>4, <2>5 DEF Journal
<1>15. PICK c : c = call'
    OBVIOUS
<1>16. CallOK(c)' /\ AtPlace(c)' /\ c.pc # "idle" /\ Quiet(c)
    <2>1. CASE re = "derived"
        <3>1. LoopReady(0)'
            BY <1>8, <1>11, <1>20, <2>1 DEF LoopReady, Resumable
        <3>2. 0 \in 0..Len(steps') /\ FALSE \in BOOLEAN
            BY <1>3, <1>13
        <3>3. Good(LoopEntry(0, FALSE))'
            BY <1>13, <1>14, <3>1, <3>2, LoopEntryNext
        <3>4. c = LoopEntry(0, FALSE)'
            BY <1>15, <2>1 DEF Respond
        <3> QED
            BY <3>3, <3>4 DEF Good, Plain, Quiet
    <2>2. CASE re = "tool"
        <3>1. c = At("toolGate", 0)
            BY <1>15, <2>2 DEF Respond
        <3>2. CallOK(c) /\ c.pc = "toolGate" /\ c.step = 0
            <4>1. 0 \in 0..Len(steps)
                BY <1>3
            <4> QED
                BY <1>0, <3>1, <4>1, AtOK, AtFields, PlaceNames
        <3>3. CallOK(c)'
            BY <1>0, <1>3, <1>13, <3>2, CallKept
        <3>4. AtTool(c)'
            BY <1>8, <1>11, <2>2, <3>2 DEF AtTool
        <3> QED
            BY <3>2, <3>3, <3>4 DEF AtPlace, StagePlaces, ModelPlaces, Quiet
    <2>3. CASE re \in {"good", "bad"}
        <3>1. PICK d : d = At("outputGate", i)
            OBVIOUS
        <3>2. CallOK(d) /\ d.pc = "outputGate" /\ d.step = i
            BY <1>0, <1>3, <3>1, AtOK, AtFields, PlaceNames
        <3>3. c = [d EXCEPT !.left = b.left]
            BY <1>2, <1>15, <2>3, <3>1 DEF Respond
        <3>4. CallOK(c) /\ c.pc = "outputGate" /\ c.step = i /\ c.left = b.left
            BY <1>3, <3>2, <3>3 DEF CallOK
        <3>5. CallOK(c)'
            BY <1>0, <1>3, <1>13, <3>4, CallKept
        <3>6. AtOutput(c)'
            <4>1. BusinessDone' = BusinessDone \cup {i} /\ steps'[i].reply = re
                BY <1>5, <1>7, <1>8, <2>3 DEF Completes
            <4>2. \A j \in BusinessDone' : j <= i
                <5>1. BusinessDone \in SUBSET (1..Len(steps))
                    BY <1>0, StepSets
                <5> QED
                    BY <1>3, <4>1, <5>1
            <4>3. b.left >= 0 => Cardinality(Repairs)' + b.left <= RepairMax
                BY <1>3, <1>9 DEF AtModel
            <4> QED
                BY <1>8, <1>20, <2>3, <3>4, <4>1, <4>2, <4>3 DEF AtOutput
        <3> QED
            BY <3>4, <3>5, <3>6 DEF AtPlace, StagePlaces, ModelPlaces, ToolPlaces, Quiet
    <2> QED
        BY <2>1, <2>2, <2>3
<1>17. Cardinality(Repairs)' <= RepairMax
    BY <1>9 DEF IInv
<1>18. IInv'
    BY <1>0, <1>1, <1>13, <1>14, <1>15, <1>16, <1>17, WriteInv
<1> QED
    BY <1>2, <1>5, <1>6, <1>7, <1>8, <1>11, <1>15, <1>16, <1>18

------------------------------------------------------------------------------
(* Tool Steps. *)

\* Tool Step i is created or written, and not completed.
Works(i) ==
    /\ Keeps /\ SameModels
    /\ StepsOf("TOOL")' = StepsOf("TOOL") \cup {i}
    /\ \A j \in StepsOf("TOOL") : j # i => steps'[j] = steps[j]
    /\ steps'[i].key = <<Rounds>>

LEMMA ToolsWorked ==
    ASSUME Types, NEW i, Works(i)
    PROVE  /\ \A j : j # i => /\ j \in InFlight' <=> j \in InFlight
                              /\ j \in HeldSteps' <=> j \in HeldSteps
           /\ SameView /\ Unsure' = Unsure /\ Compressions' = Compressions /\ Repairs' = Repairs
           /\ StepsOf("MODEL")' = StepsOf("MODEL")
<1>1. \A j \in StepsOf("TOOL") : j # i => \A A : EndsIn(j, A)' = EndsIn(j, A)
    BY DEF Works, EndsIn
<1>2. \A j : j # i => /\ j \in InFlight' <=> j \in InFlight
                      /\ j \in HeldSteps' <=> j \in HeldSteps
    BY <1>1 DEF Works, InFlight, HeldSteps
<1> QED
    BY <1>2, ViewKept, ModelsKept DEF Works, SameModels

LEMMA ToolJournal ==
    ASSUME Types, Journal, NEW i, Works(i), ~Closed, Unsure = {}, InFlight \subseteq {i}
    PROVE  Journal' /\ Repairs' = Repairs /\ Unspent'
<1>1. /\ \A j : j # i => (j \in InFlight' <=> j \in InFlight)
      /\ SameView /\ Unsure' = {} /\ Compressions' = Compressions /\ Repairs' = Repairs
      /\ StepsOf("MODEL")' = StepsOf("MODEL")
    BY ToolsWorked
<1>2. HasDone
    BY ToolMeansDone
<1>3. InputDone
    <2>1. StepsOf("MODEL") # {}
        <3>1. BusinessDone # {}
            BY RoundsFacts DEF Closed
        <3> QED
            BY <3>1, StepSets DEF Done
    <2> QED
        BY <2>1 DEF Journal
<1>4. InFlight' \subseteq {i} /\ steps'[i].key = <<Rounds>>
    BY <1>1 DEF Works
<1>5. (\A j \in StepsOf("TOOL") : steps[j].key[1] <= Rounds)'
    <2> SUFFICES ASSUME NEW j \in StepsOf("TOOL")' PROVE steps'[j].key[1] <= Rounds
        BY <1>1 DEF SameView
    <2>1. CASE j = i
        <3>1. Rounds \in Nat
            BY Bounds DEF Types
        <3> QED
            BY <1>4, <2>1, <3>1
    <2>2. CASE j # i
        BY <2>2 DEF Works, Journal
    <2> QED
        BY <2>1, <2>2
<1>6. Unspent' /\ (\A j \in Repairs : steps[j].atts # <<>> \/ Refusal(j))'
    <2>1. Unspent'
        BY SentRepairs, SentKept DEF Works
    <2> QED
        BY <2>1 DEF Unspent
<1>7. (\A k \in BusinessDone : (\A j \in BusinessDone : j <= k) /\ steps[k].reply # "tool" => Closed)'
    <2>1. \A j \in BusinessDone : steps'[j] = steps[j]
        BY DEF Works, SameModels, BusinessDone, Done
    <2> QED
        BY <1>1, <2>1 DEF Journal, SameView
<1> QED
    BY <1>1, <1>2, <1>3, <1>4, <1>5, <1>6, <1>7 DEF Journal, SameView

LEMMA ToolWriteInv ==
    ASSUME IInv, run.status = "RUNNING", UNCHANGED <<snapshot, run, grants, torn>>,
           effects' \in [1..MaxRounds -> Nat],
           NEW i, Works(i), ~Closed, Unsure = {}, InFlight \subseteq {i},
           JournalTyped', Len(steps') >= Len(steps),
           NEW c, call' = c, c.pc # "idle", CallOK(c)', AtPlace(c)'
    PROVE  IInv'
<1>1. Types /\ Journal /\ SameView
    BY ViewKept DEF IInv, Works
<1>2. Len(steps) \in Nat /\ Len(steps') \in Nat
    BY <1>1, JournalDomain DEF JournalTyped
<1>3. RunOK'
    BY <1>1, <1>2 DEF Types, RunOK
<1>4. Types'
    BY <1>1, <1>2, <1>3 DEF Types, JournalTyped, SameView
<1>5. Journal' /\ Repairs' = Repairs
    BY <1>1, ToolJournal
<1>6. Cardinality(Repairs)' <= RepairMax
    BY <1>5 DEF IInv
<1> QED
    BY <1>4, <1>5, <1>6, WriteInv

\* AtTool, once Tool Step i has been written.
LEMMA ToolAgain ==
    ASSUME Types, NEW b, AtTool(b), NEW i \in Nat \ {0}, Works(i), i \notin Done("TOOL")',
           b.step = 0 \/ b.step = i, HeldSteps \subseteq {i},
           NEW c, c.step = i, i \notin HeldSteps',
           c.pc \in {"toolFinal", "invoke", "outcomeGate", "recordPending"} => i \in InFlight',
           c.pc = "enterUncertain" => snapshot'.effect = "NON_IDEMPOTENT", c.pc # "unconfirmTool"
    PROVE  AtTool(c)' /\ InFlight' \subseteq {i} /\ HeldSteps' = {}
<1>1. /\ \A j : j # i => /\ j \in InFlight' <=> j \in InFlight
                         /\ j \in HeldSteps' <=> j \in HeldSteps
      /\ SameView /\ Unsure' = Unsure
    BY ToolsWorked
<1>2. 0 \notin InFlight
    BY JournalDomain, StepSets
<1>3. InFlight' \subseteq {i}
    BY <1>1, <1>2 DEF AtTool
<1>4. HeldSteps' = {}
    BY <1>1
<1>5. i \in StepsOf("TOOL")' /\ steps'[i].key = <<Rounds>> /\ Rounds' = Rounds /\ Closed' = Closed
    BY <1>1 DEF Works, SameView
<1> QED
    BY <1>1, <1>3, <1>4, <1>5 DEF AtTool

\* A Tool Step that is written again.
LEMMA ToolRewritten ==
    ASSUME Types, NEW i \in StepsOf("TOOL") \ Done("TOOL"), steps[i].key = <<Rounds>>,
           NEW st \in Statuses, NEW a \in Seq(AttemptStates), a = <<>> \/ Last(a) # "PENDING",
           snapshot' = snapshot, steps' = Rewritten(i, st, a)
    PROVE  /\ Works(i) /\ JournalTyped' /\ Len(steps') = Len(steps) /\ i \notin Done("TOOL")'
           /\ i \notin HeldSteps' /\ steps'[i].atts = a /\ steps'[i].outcome = steps[i].outcome
           /\ i \in StepsOf("TOOL")' /\ (i \in InFlight' <=> st = "RUNNING")
<1>1. i \in DOMAIN steps /\ steps[i].type = "TOOL" /\ ~steps[i].done
    BY DEF StepsOf, Done
<1>2. PICK s : s = Restated(steps[i], st, a)
    OBVIOUS
<1>3. st # "RUNNING" => a = <<>> \/ Last(a) # "PENDING"
    OBVIOUS
<1>4. Rewrites(i, s) /\ SameCheckpoint(steps[i], s) /\ s.type = "TOOL" /\ s.atts = a /\ s.status = st
      /\ s.outcome = steps[i].outcome
    BY <1>1, <1>2, <1>3, RewrittenOK
<1>5. StepsOf("TOOL")' = StepsOf("TOOL") /\ steps'[i] = s
    BY <1>4 DEF Rewrites
<1>6. Works(i)
    BY <1>1, <1>4, <1>5 DEF Rewrites, Works, StepsOf, SameCheckpoint
<1>7. i \notin Done("TOOL")'
    BY <1>1, <1>4 DEF Rewrites, Done, SameCheckpoint
<1>8. i \notin HeldSteps' /\ (i \in InFlight' <=> st = "RUNNING")
    BY <1>4, <1>5 DEF HeldSteps, EndsIn, InFlight
<1> QED
    BY <1>4, <1>5, <1>6, <1>7, <1>8 DEF Rewrites, JournalTyped

LEMMA RecordToolInv ==
    ASSUME IInv, RecordTool
    PROVE  IInv' /\ Keeps /\ InFlight' # {}
<1>0. Types /\ Journal /\ AtTool(call) /\ CallOK(call) /\ run.status = "RUNNING" /\ call.pc = "recordTool"
    BY DEF IInv, RecordTool, AtPlace, ToolPlaces, Driving
<1>1. UNCHANGED <<snapshot, run, effects, grants, torn>>
    BY DEF RecordTool, history, counters
<1>2. PICK b : b = call
    OBVIOUS
<1>3. /\ AtTool(b) /\ b.step \in 0..Len(steps) /\ Len(steps) \in Nat /\ ~Closed /\ Unsure = {} /\ HeldSteps = {}
      /\ InFlight \subseteq {b.step} /\ Rounds \in Nat \ {0}
    BY <1>0, <1>2, JournalDomain, OpenRound DEF CallOK, AtTool
<1>4. PICK i : i = IF b.step = 0 THEN Len(steps) + 1 ELSE b.step
    OBVIOUS
<1>5. /\ Works(i) /\ JournalTyped' /\ Len(steps') >= Len(steps) /\ i <= Len(steps') /\ Len(steps') \in Nat
      /\ i \notin Done("TOOL")' /\ i \in Nat \ {0} /\ (b.step = 0 \/ b.step = i)
      /\ i \notin HeldSteps' /\ i \in InFlight'
    <2>1. CASE b.step = 0
        <3>1. PICK s : s = Opened("TOOL", <<Rounds>>)
            OBVIOUS
        <3>2. KeyOK("TOOL", <<Rounds>>)
            BY <1>3 DEF KeyOK
        <3>3. /\ StepOK(s) /\ s.type = "TOOL" /\ ~s.done /\ s.key = <<Rounds>> /\ s.atts = <<"RUNNING">>
              /\ s.status = "RUNNING"
            BY <3>1, <3>2, OpenedOK
        <3>4. steps' = Append(steps, s)
            BY <1>2, <2>1, <3>1 DEF RecordTool, Opened
        <3>5. Creates(s)
            BY <1>0, <1>1, <3>3, <3>4, Created
        <3>6. i = Len(steps) + 1 /\ DOMAIN steps = 1..Len(steps)
            BY <1>0, <1>4, <2>1, JournalDomain
        <3>7. /\ StepsOf("TOOL")' = StepsOf("TOOL") \cup {i} /\ steps'[i] = s
            BY <3>3, <3>5, <3>6 DEF Creates
        <3>8. Works(i)
            BY <1>3, <3>3, <3>5, <3>6, <3>7 DEF Creates, Works, StepsOf
        <3>9. i \notin Done("TOOL")' /\ i \notin HeldSteps' /\ i \in InFlight'
            <4>1. Last(<<"RUNNING">>) = "RUNNING"
                BY DEF Last
            <4> QED
                BY <3>3, <3>7, <4>1 DEF Done, HeldSteps, EndsIn, InFlight
        <3> QED
            BY <1>3, <2>1, <3>5, <3>6, <3>8, <3>9 DEF Creates, JournalTyped
    <2>2. CASE b.step # 0
        <3>1. i = b.step /\ i \in StepsOf("TOOL") \ Done("TOOL") /\ steps[i].key = <<Rounds>>
            BY <1>3, <1>4, <2>2 DEF AtTool
        <3>2. steps[i].atts \in Seq(AttemptStates)
            BY <1>0, <3>1 DEF StepsOf, Types, StepOK
        <3>3. PICK a : a = Append(steps[i].atts, "RUNNING")
            OBVIOUS
        <3>4. a \in Seq(AttemptStates) /\ "RUNNING" \in Statuses /\ (a = <<>> \/ Last(a) # "PENDING")
            <4>1. "RUNNING" \in AttemptStates
                BY DEF AttemptStates
            <4> QED
                BY <3>2, <3>3, <4>1, AttemptAdded DEF Statuses
        <3>5. steps' = Rewritten(i, "RUNNING", a)
            BY <1>2, <2>2, <3>1, <3>3 DEF RecordTool
        <3>6. /\ Works(i) /\ JournalTyped' /\ Len(steps') = Len(steps) /\ i \notin Done("TOOL")'
              /\ i \notin HeldSteps' /\ i \in InFlight'
            BY <1>0, <1>1, <3>1, <3>4, <3>5, ToolRewritten
        <3> QED
            BY <1>3, <2>2, <3>1, <3>6
    <2> QED
        BY <2>1, <2>2
<1>6. PICK c : c = MovedTo("toolFinal", i)
    OBVIOUS
<1>7. CallOK(c)' /\ c.pc = "toolFinal" /\ c.step = i
    <2>1. "toolFinal" \in Places
        BY PlaceNames
    <2> QED
        BY <1>0, <1>3, <1>5, <1>6, <2>1, MovedToFields
<1>8. AtTool(c)'
    BY <1>0, <1>3, <1>5, <1>7, ToolAgain
<1>9. AtPlace(c)'
    BY <1>7, <1>8 DEF AtPlace, StagePlaces, ModelPlaces
<1>10. call' = c
    BY <1>2, <1>4, <1>6 DEF RecordTool, MovedTo
<1>11. InFlight \subseteq {i}
    BY <1>0, <1>3, <1>5, StepSets, JournalDomain
<1>12. IInv'
    BY <1>0, <1>1, <1>3, <1>5, <1>7, <1>9, <1>10, <1>11, ToolWriteInv DEF Types
<1> QED
    BY <1>12, <1>5 DEF Works

\* A Tool Step that gets another attempt record, or another outcome, and is not completed.
LEMMA ToolFailed ==
    ASSUME Types, NEW i \in StepsOf("TOOL") \ Done("TOOL"), NEW f \in AttemptStates
    PROVE  /\ SetAttempt(steps[i].atts, f) \in Seq(AttemptStates)
           /\ SetAttempt(steps[i].atts, f) # <<>> /\ Last(SetAttempt(steps[i].atts, f)) = f
           /\ steps[i].status \in Statuses /\ steps[i].atts \in Seq(AttemptStates)
<1>1. steps[i].atts \in Seq(AttemptStates) /\ steps[i].status \in Statuses
    BY DEF StepsOf, Types, StepOK
<1> QED
    BY <1>1, AttemptSet

\* The call goes on with a Tool Step that is not completed; or ends with it.
LEMMA BlamePlace ==
    ASSUME NEW c, c.pc = "blameStep", c.end # "none", AtBlame(c)'
    PROVE  AtPlace(c)'
BY DEF AtPlace, StagePlaces, ModelPlaces, ToolPlaces

LEMMA ToolPlace ==
    ASSUME NEW c, c.pc \in ToolPlaces, AtTool(c)'
    PROVE  AtPlace(c)'
BY DEF AtPlace, StagePlaces, ModelPlaces, ToolPlaces

\* The call that ends with Step i failed, after the outcome o (or none).
Blamed(i, o) == [At("blameStep", i) EXCEPT !.end = "FAILED", !.outcome = o]

LEMMA Blaming ==
    ASSUME Types, NEW i \in 0..Len(steps), NEW o \in Int, NEW c, c = Blamed(i, o)
    PROVE  CallOK(c) /\ c.pc = "blameStep" /\ c.step = i /\ c.end = "FAILED" /\ c.outcome = o
<1>1. PICK d : d = At("blameStep", i)
    OBVIOUS
<1>2. CallOK(d) /\ d.pc = "blameStep" /\ d.step = i /\ d.outcome = NoOutcome
    BY <1>1, AtOK, AtFields, PlaceNames
<1>3. c = [d EXCEPT !.end = "FAILED", !.outcome = o]
    BY <1>1 DEF Blamed
<1> QED
    BY <1>2, <1>3 DEF CallOK, Ends

LEMMA ToolFailsInv ==
    ASSUME IInv, NEW f \in {"TRANSIENT", "PERMANENT", "UNCERTAIN"}, NEW h \in BOOLEAN, ToolFails(f, h)
    PROVE  IInv' /\ Keeps /\ InFlight' # {}
<1>0. Types /\ Journal /\ AtTool(call) /\ CallOK(call) /\ run.status = "RUNNING" /\ call.pc = "invoke"
    BY DEF IInv, ToolFails, AtPlace, ToolPlaces, Driving
<1>1. UNCHANGED <<snapshot, run, grants, torn>>
    BY DEF ToolFails
<1>2. PICK b : b = call
    OBVIOUS
<1>3. PICK i : i = b.step
    OBVIOUS
<1>4. /\ AtTool(b) /\ i \in 1..Len(steps) /\ Len(steps) \in Nat /\ ~Closed /\ Unsure = {} /\ HeldSteps = {}
      /\ InFlight \subseteq {i} /\ i \in StepsOf("TOOL") \ Done("TOOL") /\ steps[i].key = <<Rounds>>
      /\ Rounds \in 1..MaxRounds /\ i \in InFlight
    <2>1. b.pc = "invoke" /\ AtTool(b)
        BY <1>0, <1>2
    <2>2. i # 0 /\ ~Closed
        BY <1>3, <2>1 DEF AtTool
    <2> QED
        BY <1>0, <1>2, <1>3, <2>1, <2>2, JournalDomain, OpenRound DEF AtTool, CallOK
<1>5. PICK a : a = SetAttempt(steps[i].atts, f)
    OBVIOUS
<1>6. PICK st : st = steps[i].status
    OBVIOUS
<1>7. a \in Seq(AttemptStates) /\ st \in Statuses /\ (a = <<>> \/ Last(a) # "PENDING")
    <2>1. f \in AttemptStates /\ f # "PENDING"
        BY DEF AttemptStates, FailedAttempts
    <2> QED
        BY <1>0, <1>4, <1>5, <1>6, <2>1, ToolFailed
<1>8. steps' = Rewritten(i, st, a)
    BY <1>2, <1>3, <1>5, <1>6 DEF ToolFails
<1>9. /\ Works(i) /\ JournalTyped' /\ Len(steps') = Len(steps) /\ i \notin Done("TOOL")'
      /\ i \notin HeldSteps' /\ i \in StepsOf("TOOL")' /\ i \in InFlight'
    <2>1. st = "RUNNING"
        BY <1>4, <1>6 DEF InFlight
    <2> QED
        BY <1>0, <1>1, <1>4, <1>7, <1>8, <2>1, ToolRewritten
<1>10. effects' \in [1..MaxRounds -> Nat]
    <2>1. effects \in [1..MaxRounds -> Nat]
        BY <1>0 DEF Types
    <2>2. PICK d : d = effects[Rounds] + (IF h THEN 1 ELSE 0)
        OBVIOUS
    <2>3. d \in Nat
        BY <1>4, <2>1, <2>2
    <2>4. effects' = [effects EXCEPT ![Rounds] = d]
        BY <2>2 DEF ToolFails
    <2> QED
        BY <1>4, <2>1, <2>3, <2>4
<1>11. PICK c : c = call'
    OBVIOUS
<1>12. i \in 0..Len(steps) /\ i \in Nat \ {0}
    BY <1>4
<1>19. PICK o : o = IF h THEN effects[Rounds] + 1 ELSE NoOutcome
    OBVIOUS
<1>20. o \in Int
    BY <1>0, <1>4, <1>19 DEF Types, NoOutcome
<1>13. \/ c = At("enterUncertain", i) /\ snapshot.effect = "NON_IDEMPOTENT"
       \/ c = At("toolGate", i)
       \/ c = Blamed(i, o)
    BY <1>2, <1>3, <1>11, <1>19 DEF ToolFails, Blamed
<1>14. CallOK(c) /\ c.step = i /\ c.pc \in {"enterUncertain", "toolGate", "blameStep"}
       /\ (c.pc = "enterUncertain" => snapshot.effect = "NON_IDEMPOTENT")
       /\ (c.pc = "blameStep" => c.end # "none")
    <2>1. CASE c = Blamed(i, o)
        <3>1. CallOK(c) /\ c.pc = "blameStep" /\ c.step = i /\ c.end = "FAILED"
            BY <1>0, <1>12, <1>20, <2>1, Blaming
        <3> QED
            BY <3>1
    <2>2. CASE \/ c = At("enterUncertain", i) /\ snapshot.effect = "NON_IDEMPOTENT"
               \/ c = At("toolGate", i)
        BY <1>0, <1>12, <2>2, AtOK, AtFields, PlaceNames
    <2> QED
        BY <1>13, <2>1, <2>2
<1>15. AtTool(c)' /\ InFlight' \subseteq {i} /\ HeldSteps' = {}
    <2>1. b.step = 0 \/ b.step = i
        BY <1>3
    <2>2. c.pc \in {"toolFinal", "invoke", "outcomeGate", "recordPending"} => i \in InFlight'
        BY <1>14
    <2>3. c.pc = "enterUncertain" => snapshot'.effect = "NON_IDEMPOTENT"
        BY <1>1, <1>14
    <2>4. c.pc # "unconfirmTool"
        BY <1>14
    <2>5. HeldSteps \subseteq {i}
        BY <1>4
    <2> QED
        BY <1>0, <1>4, <1>9, <1>12, <1>14, <2>1, <2>2, <2>3, <2>4, <2>5, ToolAgain
<1>16. AtPlace(c)'
    <2>1. CASE c.pc = "blameStep"
        <3>1. AtBlame(c)'
            BY <1>0, <1>4, <1>9, <1>14, <1>15, ToolJournal DEF AtBlame, Done
        <3> QED
            BY <1>14, <2>1, <3>1, BlamePlace
    <2>2. CASE c.pc \in ToolPlaces
        BY <1>15, <2>2, ToolPlace
    <2> QED
        BY <1>14, <2>1, <2>2 DEF ToolPlaces
<1>17. CallOK(c)' /\ c.pc # "idle"
    BY <1>0, <1>4, <1>9, <1>14, CallKept
<1>18. IInv'
    BY <1>0, <1>1, <1>4, <1>9, <1>10, <1>11, <1>16, <1>17, ToolWriteInv
<1> QED
    BY <1>9, <1>18 DEF Works

LEMMA RecordPendingInv ==
    ASSUME IInv, RecordPending
    PROVE  IInv' /\ Keeps /\ InFlight' # {}
<1>0. Types /\ Journal /\ AtTool(call) /\ CallOK(call) /\ run.status = "RUNNING" /\ call.pc = "recordPending"
    BY DEF IInv, RecordPending, AtPlace, ToolPlaces, Driving
<1>1. UNCHANGED <<snapshot, run, effects, grants, torn>>
    BY DEF RecordPending, history, counters
<1>2. PICK i : i = call.step
    OBVIOUS
<1>3. /\ i \in 1..Len(steps) /\ Len(steps) \in Nat /\ ~Closed /\ Unsure = {} /\ call.outcome \in Int
      /\ InFlight \subseteq {i} /\ i \in StepsOf("TOOL") \ Done("TOOL") /\ steps[i].key = <<Rounds>>
      /\ i \in InFlight
    <2>1. i # 0
        BY <1>0, <1>2 DEF AtTool
    <2> QED
        BY <1>0, <1>2, <2>1, JournalDomain DEF AtTool, CallOK
<1>4. PICK a : a = SetAttempt(steps[i].atts, "PENDING")
    OBVIOUS
<1>5. a \in Seq(AttemptStates)
    <2>1. "PENDING" \in AttemptStates
        BY DEF AttemptStates, FailedAttempts
    <2> QED
        BY <1>0, <1>3, <1>4, <2>1, ToolFailed
<1>6. PICK t : t = steps[i]
    OBVIOUS
<1>7. PICK s : s = [t EXCEPT !.atts = a, !.outcome = call.outcome]
    OBVIOUS
<1>8. i \in DOMAIN steps /\ StepOK(t) /\ t.type = "TOOL" /\ ~t.done /\ t.status = "RUNNING"
    BY <1>0, <1>3, <1>6 DEF StepsOf, Done, InFlight, Types
<1>9. StepOK(s) /\ SameCheckpoint(t, s)
    <2>1. /\ DOMAIN s = DOMAIN t /\ s.type = t.type /\ s.key = t.key /\ s.status = t.status /\ s.done = t.done
          /\ s.items = t.items /\ s.reply = t.reply /\ s.atts = a /\ s.outcome = call.outcome
        BY <1>7, <1>8 DEF StepOK
    <2>2. SameCheckpoint(t, s)
        BY <1>8, <2>1 DEF SameCheckpoint
    <2> QED
        BY <1>3, <1>5, <1>8, <2>1, <2>2 DEF StepOK
<1>10. steps' = [steps EXCEPT ![i] = s]
    BY <1>2, <1>4, <1>6, <1>7 DEF RecordPending
<1>11. Rewrites(i, s)
    BY <1>0, <1>1, <1>6, <1>8, <1>9, <1>10, Rewrote
<1>12. Works(i) /\ JournalTyped' /\ Len(steps') = Len(steps) /\ InFlight' # {}
    <2>1. StepsOf("TOOL")' = StepsOf("TOOL") /\ steps'[i] = s /\ s.type = "TOOL" /\ s.key = <<Rounds>>
        BY <1>3, <1>6, <1>8, <1>9, <1>11 DEF Rewrites, SameCheckpoint
    <2>2. s.status = "RUNNING"
        BY <1>7, <1>8 DEF StepOK
    <2>3. i \in InFlight'
        BY <1>3, <2>1, <2>2 DEF InFlight
    <2> QED
        BY <1>3, <1>11, <2>1, <2>3 DEF Rewrites, Works, StepsOf, JournalTyped
<1>13. PICK c : c = At("enterWaiting", i)
    OBVIOUS
<1>14. CallOK(c) /\ c.pc = "enterWaiting"
    <2>1. i \in 0..Len(steps)
        BY <1>3
    <2> QED
        BY <1>0, <1>13, <2>1, AtOK, AtFields, PlaceNames
<1>15. AtPlace(c)'
    <2>1. HasDone'
        BY <1>0, <1>3, <1>12, ToolMeansDone, ToolsWorked DEF SameView
    <2> QED
        BY <1>14, <2>1 DEF AtPlace, StagePlaces, ModelPlaces, ToolPlaces
<1>16. CallOK(c)' /\ c.pc # "idle"
    BY <1>0, <1>3, <1>12, <1>14, CallKept
<1>17. call' = c
    BY <1>2, <1>13 DEF RecordPending
<1>18. IInv'
    BY <1>0, <1>1, <1>3, <1>12, <1>15, <1>16, <1>17, ToolWriteInv DEF Types
<1> QED
    BY <1>12, <1>18 DEF Works

LEMMA UnconfirmToolInv ==
    ASSUME IInv, UnconfirmTool
    PROVE  IInv' /\ Quiet(call') /\ Keeps
<1>0. Types /\ Journal /\ AtTool(call) /\ CallOK(call) /\ run.status = "RUNNING" /\ call.pc = "unconfirmTool"
    BY DEF IInv, UnconfirmTool, AtPlace, ToolPlaces, Driving
<1>1. UNCHANGED <<snapshot, run, effects, grants, torn>>
    BY DEF UnconfirmTool, history, counters
<1>2. PICK b : b = call
    OBVIOUS
<1>3. PICK i : i = b.step
    OBVIOUS
<1>4. /\ i \in 1..Len(steps) /\ Len(steps) \in Nat /\ ~Closed /\ Unsure = {} /\ HeldSteps = {}
      /\ InFlight \subseteq {i} /\ i \in StepsOf("TOOL") \ Done("TOOL") /\ steps[i].key = <<Rounds>>
      /\ snapshot.effect # "NON_IDEMPOTENT"
    <2>1. i # 0
        BY <1>0, <1>2, <1>3 DEF AtTool
    <2> QED
        BY <1>0, <1>2, <1>3, <2>1, JournalDomain DEF AtTool, CallOK
<1>5. PICK a : a = SetAttempt(steps[i].atts, "UNCERTAIN")
    OBVIOUS
<1>6. a \in Seq(AttemptStates) /\ "FAILED" \in Statuses /\ (a = <<>> \/ Last(a) # "PENDING")
    <2>1. "UNCERTAIN" \in AttemptStates
        BY DEF AttemptStates, FailedAttempts
    <2> QED
        BY <1>0, <1>4, <1>5, <2>1, ToolFailed DEF Statuses
<1>7. steps' = Rewritten(i, "FAILED", a)
    BY <1>2, <1>3, <1>5 DEF UnconfirmTool
<1>8. /\ Works(i) /\ JournalTyped' /\ Len(steps') = Len(steps) /\ i \notin Done("TOOL")'
      /\ i \notin HeldSteps' /\ i \in StepsOf("TOOL")' /\ i \notin InFlight'
    BY <1>0, <1>1, <1>4, <1>6, <1>7, ToolRewritten
<1>9. /\ Journal' /\ SameView /\ Unsure' = {} /\ InFlight' = {} /\ HeldSteps' = {} /\ ~Closed'
      /\ steps'[i].key = <<Rounds'>>
    <2>1. SameView /\ Unsure' = {} /\ InFlight' = {} /\ HeldSteps' = {}
        BY <1>0, <1>4, <1>8, ToolsWorked
    <2> QED
        BY <1>0, <1>4, <1>8, <2>1, ToolJournal DEF SameView, Works
<1>10. Types'
    BY <1>0, <1>1, <1>4, <1>8, <1>9, WriteTypes DEF SameView, Types
<1>11. PICK c : c = call'
    OBVIOUS
<1>12. c = ToolEntry(i, TRUE)'
    BY <1>2, <1>3, <1>11 DEF UnconfirmTool
<1>13. Good(ToolEntry(i, TRUE))'
    <2>1. i \in 0..Len(steps') /\ TRUE \in BOOLEAN /\ i \in (StepsOf("TOOL") \ Done("TOOL"))'
        BY <1>4, <1>8
    <2>2. snapshot'.effect = "NON_IDEMPOTENT" => i = 0
        BY <1>1, <1>4
    <2>3. InFlight' \subseteq {i}
        BY <1>9
    <2> QED
        BY <1>9, <1>10, <2>1, <2>2, <2>3, ToolEntryNext
<1>14. Good(c)'
    BY <1>12, <1>13
<1>15. CallOK(c)' /\ AtPlace(c)' /\ c.pc # "idle" /\ Quiet(c)
    BY <1>14 DEF Good, Plain, Quiet
<1>16. IInv'
    BY <1>0, <1>1, <1>4, <1>8, <1>11, <1>15, ToolWriteInv DEF Types
<1> QED
    BY <1>8, <1>11, <1>15, <1>16 DEF Works

LEMMA EnterUncertainInv ==
    ASSUME IInv, EnterUncertain
    PROVE  IInv' /\ Keeps
<1>0. /\ Types /\ Journal /\ AtTool(call) /\ CallOK(call) /\ run.status = "RUNNING" /\ call.pc = "enterUncertain"
      /\ Cardinality(Repairs) <= RepairMax
    BY DEF IInv, EnterUncertain, AtPlace, ToolPlaces, Driving
<1>1. UNCHANGED <<snapshot, effects, grants, torn>>
    BY DEF EnterUncertain, history, counters
<1>2. PICK b : b = call
    OBVIOUS
<1>3. PICK i : i = b.step
    OBVIOUS
<1>4. /\ i \in 1..Len(steps) /\ Len(steps) \in Nat /\ ~Closed /\ Unsure = {} /\ HeldSteps = {}
      /\ InFlight \subseteq {i} /\ i \in StepsOf("TOOL") \ Done("TOOL") /\ steps[i].key = <<Rounds>>
    <2>1. i # 0
        BY <1>0, <1>2, <1>3 DEF AtTool
    <2> QED
        BY <1>0, <1>2, <1>3, <2>1, JournalDomain DEF AtTool, CallOK
<1>5. PICK a : a = IF EndsIn(i, {"RUNNING"}) \/ ~HasAttempt(i, FailedAttempts)
                   THEN SetAttempt(steps[i].atts, "UNCERTAIN") ELSE steps[i].atts
    OBVIOUS
<1>6. a \in Seq(AttemptStates) /\ "FAILED" \in Statuses /\ (a = <<>> \/ Last(a) # "PENDING")
    <2>1. "UNCERTAIN" \in AttemptStates
        BY DEF AttemptStates, FailedAttempts
    <2>2. CASE a = SetAttempt(steps[i].atts, "UNCERTAIN")
        BY <1>0, <1>4, <2>1, <2>2, ToolFailed DEF Statuses
    <2>3. CASE a = steps[i].atts
        <3>1. steps[i].atts = <<>> \/ Last(steps[i].atts) # "PENDING"
            BY <1>4 DEF HeldSteps, EndsIn
        <3> QED
            BY <1>0, <1>4, <2>1, <2>3, <3>1, ToolFailed DEF Statuses
    <2> QED
        BY <1>5, <2>2, <2>3
<1>7. steps' = Rewritten(i, "FAILED", a)
    BY <1>2, <1>3, <1>5 DEF EnterUncertain
<1>8. /\ Works(i) /\ JournalTyped' /\ Len(steps') = Len(steps) /\ i \notin Done("TOOL")'
      /\ i \notin HeldSteps' /\ i \in StepsOf("TOOL")' /\ i \notin InFlight'
    BY <1>0, <1>1, <1>4, <1>6, <1>7, ToolRewritten
<1>9. /\ Journal' /\ SameView /\ Unsure' = {} /\ InFlight' = {} /\ ~Closed'
      /\ steps'[i].key = <<Rounds'>> /\ Repairs' = Repairs
    <2>1. SameView /\ Unsure' = {} /\ InFlight' = {}
        BY <1>0, <1>4, <1>8, ToolsWorked
    <2> QED
        BY <1>0, <1>4, <1>8, <2>1, ToolJournal DEF SameView, Works
<1>10. /\ RunOK' /\ run'.status = "WAITING" /\ run'.reason = "UNCERTAIN_NON_IDEMPOTENT" /\ run'.wstep = i
    <2>1. /\ "WAITING" \in RunStatuses /\ "UNCERTAIN_NON_IDEMPOTENT" \in WaitingReasons \cup {NoReason}
          /\ i \in 0..Len(steps) /\ 0 \in 0..Len(steps) /\ NoReason # "UNCERTAIN_NON_IDEMPOTENT"
        BY <1>4 DEF RunStatuses, WaitingReasons, NoReason
    <2>2. Transition("WAITING", "UNCERTAIN_NON_IDEMPOTENT", i, 0)
        BY <1>2, <1>3 DEF EnterUncertain
    <2> QED
        BY <1>8, <2>1, <2>2, Transitioned
<1>11. Types'
    BY <1>0, <1>1, <1>8, <1>9, <1>10 DEF Types, JournalTyped, SameView
<1>12. Waiting'
    BY <1>8, <1>9, <1>10 DEF Waiting
<1>13. CallOK(Idle)' /\ AtPlace(Idle)'
    <2>1. (Types => CallOK(Idle) /\ AtPlace(Idle))'
        BY IdleGood, PTL
    <2> QED
        BY <1>11, <2>1
<1>14. call' = Idle
    BY DEF EnterUncertain
<1>15. Driving'
    BY <1>14 DEF Driving, Idle
<1>16. IInv'
    BY <1>0, <1>9, <1>11, <1>12, <1>13, <1>14, <1>15 DEF IInv
<1> QED
    BY <1>16, <1>8 DEF Works

\* A Tool Step is no longer under way, and nothing else has changed.
LEMMA BlameJournal ==
    ASSUME Types, Journal, Keeps, SameModels, StepsOf("TOOL")' = StepsOf("TOOL"), InFlight' = {}
    PROVE  Journal' /\ Repairs' = Repairs
<1>1. SameView /\ Unsure' = Unsure /\ Compressions' = Compressions /\ Repairs' = Repairs
      /\ StepsOf("MODEL")' = StepsOf("MODEL")
    BY ViewKept, ModelsKept DEF SameModels
<1>2. (\A j \in StepsOf("TOOL") : steps[j].key[1] <= Rounds)'
    <2>1. \A j \in StepsOf("TOOL") : steps'[j].key = steps[j].key
        BY DEF Keeps, SameCheckpoint, StepsOf
    <2> QED
        BY <1>1, <2>1 DEF Journal, SameView
<1>3. (\A j \in Repairs : steps[j].atts # <<>> \/ Refusal(j))'
    BY <1>1, RefusalsKept DEF Journal, SameView
<1>4. (\A k \in BusinessDone : (\A j \in BusinessDone : j <= k) /\ steps[k].reply # "tool" => Closed)'
    <2>1. \A j \in BusinessDone : steps'[j] = steps[j]
        BY DEF SameModels, BusinessDone, Done
    <2> QED
        BY <1>1, <2>1 DEF Journal, SameView
<1> QED
    BY <1>1, <1>2, <1>3, <1>4 DEF Journal, SameView

LEMMA BlameStepInv ==
    ASSUME IInv, BlameStep
    PROVE  IInv' /\ Keeps
<1>0. /\ Types /\ Journal /\ AtBlame(call) /\ CallOK(call) /\ run.status = "RUNNING" /\ call.end # "none"
      /\ call.pc = "blameStep" /\ Cardinality(Repairs) <= RepairMax
    BY DEF IInv, BlameStep, AtPlace, Driving
<1>1. UNCHANGED <<snapshot, run, effects, grants, torn>>
    BY DEF BlameStep, history, counters
<1>2. PICK i : i = call.step
    OBVIOUS
<1>3. /\ i \in DOMAIN steps /\ ~steps[i].done /\ steps[i].type \in {"CONTEXT", "TOOL"}
      /\ steps[i].atts \in Seq(AttemptStates) /\ InFlight \subseteq {i} /\ i \notin HeldSteps
    BY <1>0, <1>2 DEF AtBlame, StepsOf, Types, StepOK
<1>4. PICK a : a = IF EndsIn(i, {"RUNNING"}) THEN SetAttempt(steps[i].atts, "PERMANENT") ELSE steps[i].atts
    OBVIOUS
<1>5. a \in Seq(AttemptStates) /\ "FAILED" \in Statuses
    <2>1. "PERMANENT" \in AttemptStates
        BY DEF AttemptStates, FailedAttempts
    <2> QED
        BY <1>3, <1>4, <2>1, AttemptSet DEF Statuses
<1>6. steps[i].type = "TOOL" => a = <<>> \/ Last(a) # "PENDING"
    <2>1. "PERMANENT" \in AttemptStates
        BY DEF AttemptStates, FailedAttempts
    <2>2. CASE a = SetAttempt(steps[i].atts, "PERMANENT")
        BY <1>3, <2>1, <2>2, AttemptSet
    <2>3. CASE a = steps[i].atts
        BY <1>3, <2>3 DEF HeldSteps, EndsIn, StepsOf
    <2> QED
        BY <1>4, <2>2, <2>3
<1>7. PICK s : s = Restated(steps[i], "FAILED", a)
    OBVIOUS
<1>8. Rewrites(i, s) /\ s.type = steps[i].type /\ s.status = "FAILED"
    <2>1. steps[i].done => "FAILED" # "RUNNING" /\ a # <<>> /\ steps[i].type = "MODEL"
        BY <1>3
    <2>2. steps[i].type = "TOOL" /\ a # <<>> /\ Last(a) = "PENDING" => "FAILED" = "RUNNING"
        BY <1>6
    <2>3. StepOK(steps[i])
        BY <1>0, <1>3 DEF Types
    <2>4. /\ StepOK(s) /\ SameCheckpoint(steps[i], s) /\ s.status = "FAILED" /\ s.type = steps[i].type
        BY <1>5, <1>7, <2>1, <2>2, <2>3, RestatedOK
    <2>5. steps' = [steps EXCEPT ![i] = s]
        BY <1>2, <1>4, <1>7 DEF BlameStep, Rewritten, Restated
    <2> QED
        BY <1>0, <1>1, <1>3, <2>4, <2>5, Rewrote
<1>9. Keeps /\ SameModels /\ JournalTyped' /\ Len(steps') = Len(steps) /\ Len(steps) \in Nat
    BY <1>0, <1>3, <1>8, JournalDomain DEF Rewrites, JournalTyped
<1>10. PICK c : c = Moved("endRun")
    OBVIOUS
<1>11. CallOK(c) /\ c.pc = "endRun" /\ c.end # "none" /\ AtPlace(c)'
    <2>1. "endRun" \in Places
        BY PlaceNames
    <2>2. CallOK(c) /\ c.pc = "endRun" /\ c.end # "none"
        BY <1>0, <1>10, <2>1, MovedFields
    <2> QED
        BY <2>2, EndPlace
<1>12. CallOK(c)' /\ c.pc # "idle"
    BY <1>0, <1>9, <1>11, CallKept
<1>13. call' = c
    BY <1>10 DEF BlameStep, Moved
<1>14. CASE steps[i].type = "CONTEXT"
    <2>1. SameTools
        BY <1>8, <1>14 DEF Rewrites
    <2> QED
        BY <1>0, <1>1, <1>9, <1>11, <1>12, <1>13, <2>1, ContextWriteInv
<1>15. CASE steps[i].type = "TOOL"
    <2>1. StepsOf("TOOL")' = StepsOf("TOOL") /\ steps'[i] = s
          /\ \A j \in StepsOf("TOOL") : j # i => steps'[j] = steps[j]
        BY <1>8 DEF Rewrites, StepsOf
    <2>2. InFlight' = {}
        BY <1>3, <1>8, <2>1 DEF InFlight
    <2>3. Journal' /\ Repairs' = Repairs
        BY <1>0, <1>9, <2>1, <2>2, BlameJournal
    <2>4. Rounds' \in 0..MaxRounds
        BY <1>0, <1>9, RoundsKept DEF Types
    <2>5. Types'
        BY <1>0, <1>1, <1>9, <2>4, WriteTypes
    <2> QED
        BY <1>0, <1>1, <1>9, <1>11, <1>12, <1>13, <2>3, <2>5, WriteInv
<1>16. IInv'
    BY <1>3, <1>14, <1>15
<1> QED
    BY <1>16, <1>9

\* The open call gets its outcome.
LEMMA ToolCompleted ==
    ASSUME Types, Journal, ~Closed, Unsure = {}, NEW i \in StepsOf("TOOL") \ Done("TOOL"),
           steps[i].key = <<Rounds>>, InFlight \subseteq {i}, snapshot' = snapshot,
           NEW o, Completes(i, <<>>, "none", o)
    PROVE  /\ SameModels /\ Rounds' = Rounds /\ Closed' /\ InputDone' /\ HasDone' /\ Journal'
           /\ Unsure' = {} /\ InFlight' = {} /\ HeldSteps' = {} /\ Repairs' = Repairs /\ Unspent'
           /\ Done("TOOL")' = Done("TOOL") \cup {i}
<1>1. i \in DOMAIN steps /\ steps[i].type = "TOOL"
    BY DEF StepsOf
<1>2. /\ SameModels /\ StepsOf("TOOL")' = StepsOf("TOOL") /\ Done("TOOL")' = Done("TOOL") \cup {i}
      /\ Done("CONTEXT")' = Done("CONTEXT") /\ steps'[i].key = steps[i].key /\ steps'[i].status = "SUCCEEDED"
      /\ steps'[i].atts # <<>> /\ Last(steps'[i].atts) = "SUCCEEDED" /\ steps'[i].done
      /\ (\A j \in DOMAIN steps : j # i => steps'[j] = steps[j]) /\ DOMAIN steps' = DOMAIN steps
    BY <1>1 DEF Completes
<1>3. Rounds' = Rounds /\ Unsure' = {} /\ Compressions' = Compressions /\ Repairs' = Repairs
      /\ BusinessDone' = BusinessDone /\ StepsOf("MODEL")' = StepsOf("MODEL")
    BY <1>2, RoundsSame, ModelsKept DEF SameModels
<1>4. Closed'
    <2>1. steps'[i].key = <<Rounds'>> /\ i \in Done("TOOL")'
        BY <1>2, <1>3
    <2> QED
        BY <2>1 DEF Closed, Answered
<1>5. InFlight' = {} /\ HeldSteps' = {}
    <2>1. \A j \in StepsOf("TOOL") : j # i => steps'[j] = steps[j]
        BY <1>2 DEF StepsOf
    <2>2. InFlight' = {}
        BY <1>2, <2>1 DEF InFlight
    <2>3. \A j \in StepsOf("TOOL") : j # i => j \notin HeldSteps
        BY StepSets
    <2> QED
        BY <1>2, <2>1, <2>2, <2>3 DEF HeldSteps, EndsIn
<1>6. InputDone'
    <2>1. StepsOf("MODEL") # {}
        <3>1. BusinessDone # {}
            BY RoundsFacts DEF Closed
        <3> QED
            BY <3>1, StepSets DEF Done
    <2>2. InputDone
        BY <2>1 DEF Journal
    <2>3. Plan' = Plan
        BY DEF Plan
    <2>4. ContextsStay
        <3>1. \A j \in Done("CONTEXT") : j \in DOMAIN steps /\ j # i
            BY <1>1 DEF Done, StepsOf
        <3> QED
            BY <1>2, <3>1 DEF ContextsStay
    <2> QED
        BY <2>2, <2>3, <2>4, DueShrinks DEF InputDone
<1>7. HasDone'
    BY <1>1, <1>2 DEF HasDone
<1>8. (\A j \in StepsOf("TOOL") : steps[j].key[1] <= Rounds)'
    <2>1. \A j \in StepsOf("TOOL") : steps'[j].key = steps[j].key
        BY <1>2 DEF StepsOf
    <2> QED
        BY <1>2, <1>3, <2>1 DEF Journal
<1>9. Unspent' /\ (\A j \in Repairs : steps[j].atts # <<>> \/ Refusal(j))'
    <2>1. Unspent'
        BY <1>2, SentRepairs, SentKept
    <2> QED
        BY <2>1 DEF Unspent
<1>10. Journal'
    BY <1>3, <1>4, <1>5, <1>6, <1>7, <1>8, <1>9 DEF Journal
<1> QED
    BY <1>2, <1>3, <1>4, <1>5, <1>6, <1>7, <1>9, <1>10

LEMMA CheckpointToolInv ==
    ASSUME IInv, CheckpointTool
    PROVE  IInv' /\ Quiet(call') /\ SameModels /\ Rounds' = Rounds /\ Closed'
           /\ Completes(call.step, <<>>, "none", call.outcome)
           /\ call.step \in StepsOf("TOOL") \ Done("TOOL") /\ steps[call.step].key = <<Rounds>>
<1>0. /\ Types /\ Journal /\ AtTool(call) /\ CallOK(call) /\ run.status = "RUNNING" /\ call.pc = "checkpointTool"
      /\ Cardinality(Repairs) <= RepairMax
    BY DEF IInv, CheckpointTool, AtPlace, ToolPlaces, Driving
<1>1. UNCHANGED <<snapshot, run, effects, grants, torn>>
    BY DEF CheckpointTool, history, counters
<1>2. PICK b : b = call
    OBVIOUS
<1>3. PICK i : i = b.step
    OBVIOUS
<1>4. /\ i \in 1..Len(steps) /\ Len(steps) \in Nat /\ ~Closed /\ Unsure = {} /\ b.outcome \in Int
      /\ InFlight \subseteq {i} /\ i \in StepsOf("TOOL") \ Done("TOOL") /\ steps[i].key = <<Rounds>>
    <2>1. i # 0
        BY <1>0, <1>2, <1>3 DEF AtTool
    <2> QED
        BY <1>0, <1>2, <1>3, <2>1, JournalDomain DEF AtTool, CallOK
<1>5. Completes(i, <<>>, "none", b.outcome)
    <2>1. steps' = Completed(i, <<>>, "none", b.outcome) /\ i \in DOMAIN steps
        BY <1>2, <1>3, <1>4 DEF CheckpointTool, StepsOf
    <2> QED
        BY <1>0, <1>4, <2>1, CompletedOK
<1>6. /\ SameModels /\ Rounds' = Rounds /\ Closed' /\ InputDone' /\ HasDone' /\ Journal'
      /\ Unsure' = {} /\ InFlight' = {} /\ HeldSteps' = {} /\ Repairs' = Repairs /\ Unspent'
    BY <1>0, <1>1, <1>4, <1>5, ToolCompleted
<1>7. Len(steps') = Len(steps) /\ JournalTyped'
    BY <1>5 DEF Completes
<1>8. Types'
    BY <1>0, <1>1, <1>4, <1>6, <1>7, WriteTypes DEF Types
<1>9. PICK c : c = call'
    OBVIOUS
<1>10. Good(c)'
    <2>1. PICK p : p = call.path
        OBVIOUS
    <2>2. c = (IF p = "continue" THEN ResumeRunning ELSE LoopEntry(0, FALSE))'
        BY <1>9, <2>1 DEF CheckpointTool
    <2>3. CASE p = "continue"
        <3>1. Good(ResumeRunning)'
            BY <1>6, <1>8, ResumeRunningNext
        <3>2. c = ResumeRunning'
            BY <2>2, <2>3
        <3> QED
            BY <3>1, <3>2
    <2>4. CASE p # "continue"
        <3>1. LoopReady(0)'
            BY <1>6 DEF LoopReady, Resumable
        <3>2. 0 \in 0..Len(steps') /\ FALSE \in BOOLEAN
            BY <1>4, <1>7
        <3>3. Good(LoopEntry(0, FALSE))'
            BY <1>6, <1>8, <3>1, <3>2, LoopEntryNext
        <3>4. c = LoopEntry(0, FALSE)'
            BY <2>2, <2>4
        <3> QED
            BY <3>3, <3>4
    <2> QED
        BY <2>3, <2>4
<1>11. CallOK(c)' /\ AtPlace(c)' /\ c.pc # "idle" /\ Quiet(c)
    BY <1>10 DEF Good, Plain, Quiet
<1>12. IInv'
    BY <1>0, <1>1, <1>6, <1>8, <1>9, <1>11, WriteInv
<1> QED
    BY <1>2, <1>3, <1>4, <1>5, <1>6, <1>9, <1>11, <1>12

------------------------------------------------------------------------------
(* The invariant, and what follows from it. *)

LEMMA InitInv == ASSUME Init PROVE IInv
<1>1. /\ snapshot \in Snapshots /\ steps = <<>> /\ call = Idle /\ torn = FALSE
      /\ run = [status |-> "CREATED", reason |-> NoReason, wstep |-> 0, output |-> 0]
      /\ effects = [c \in 1..MaxRounds |-> 0] /\ grants = [c \in 1..MaxRounds |-> 0]
    BY DEF Init
<1>2. DOMAIN steps = {} /\ Len(steps) = 0
    BY <1>1
<1>3. (\A t : StepsOf(t) = {} /\ Done(t) = {}) /\ ~HasDone
    BY <1>2 DEF StepsOf, Done, HasDone
<1>4. /\ (\A p : ModelSteps(p) = {}) /\ BusinessDone = {} /\ Unsure = {} /\ InFlight = {}
      /\ Compressions = {} /\ Repairs = {}
    BY <1>3 DEF ModelSteps, BusinessDone, Unsure, InFlight, Compressions, Repairs
<1>5. Cardinality({}) = 0
    BY FS_EmptySet
<1>6. Rounds = 0
    <2>1. {i \in BusinessDone : steps[i].reply = "tool"} = {}
        BY <1>4
    <2> QED
        BY <1>5, <2>1 DEF Rounds
<1>7. Types
    <2>1. steps \in Seq(Range(steps))
        <3>1. Range(steps) = {}
            BY <1>2 DEF Range
        <3>2. <<>> \in Seq({})
            OBVIOUS
        <3> QED
            BY <1>1, <3>1, <3>2
    <2>2. RunOK
        BY <1>1, <1>2 DEF RunOK, RunStatuses, NoReason
    <2>3. Rounds \in 0..MaxRounds
        BY <1>6, Bounds
    <2> QED
        BY <1>1, <1>2, <2>1, <2>2, <2>3 DEF Types
<1>8. Journal
    <2>1. Closed
        BY <1>6 DEF Closed
    <2>2. StepsOf("MODEL") = Compressions
        BY <1>3, <1>4
    <2> QED
        BY <1>3, <1>4, <2>1, <2>2 DEF Journal
<1>9. Waiting
    BY <1>1 DEF Waiting, NoReason
<1>10. CallOK(call) /\ AtPlace(call)
    BY <1>1, <1>7, IdleGood
<1>11. Driving
    BY <1>1 DEF Driving, Idle
<1>12. Cardinality(Repairs) <= RepairMax
    BY <1>4, <1>5, Bounds
<1> QED
    BY <1>7, <1>8, <1>9, <1>10, <1>11, <1>12 DEF IInv

LEMMA StutterInv == ASSUME IInv, UNCHANGED vars PROVE IInv'
<1>1. UNCHANGED <<snapshot, run, steps, call, effects, grants, torn>>
    BY DEF vars
<1>2. PICK c : c = call
    OBVIOUS
<1>3. Types /\ Waiting /\ Driving /\ CallOK(c) /\ AtPlace(c) /\ call' = c
    BY <1>1, <1>2 DEF IInv
<1>4. Waiting' /\ RunOK' /\ Driving'
    BY <1>1, <1>3, WaitingKept DEF Types, RunOK, Driving
<1> QED
    BY <1>1, <1>3, <1>4, StillInv DEF Types

\* What a step of the Run is.
Steps ==
    \/ StartRun \/ ResumeRun \/ Start \/ EnterWaitingPolicy \/ End \/ Crash
    \/ ContinueRun \/ RetryStep \/ ConfirmStep \/ RecordPending \/ BlameStep
    \/ UnsupportedStage \/ RecordContext \/ Provide \/ ProviderFails
    \/ Reserve \/ ReserveRefused \/ UnconfirmModel \/ FailModelStepRecorded
    \/ RecordTool \/ Invoke \/ EnterUncertain \/ UnconfirmTool \/ CheckpointTool
    \/ \E action \in PolicyActions : Decide(action)
    \/ \E status \in {"FAILED", "CANCELLED"} : EndWaiting(status)
    \/ \E reply \in {"good", "bad", "tool", "derived"} : Respond(reply)
    \/ \E failure \in {"TRANSIENT", "PERMANENT"} : ModelFails(failure)
    \/ \E failure \in {"TRANSIENT", "PERMANENT", "UNCERTAIN"}, happened \in BOOLEAN :
        ToolFails(failure, happened)

LEMMA NextSteps == ASSUME Next PROVE Steps
BY DEF Next, Advance, Drive, Abandon, Steps, PolicyActions

LEMMA StepsInv == ASSUME IInv, Steps PROVE IInv'
<1>1. CASE StartRun \/ ResumeRun \/ Start \/ EnterWaitingPolicy \/ End \/ Crash
    BY <1>1, StartRunInv, ResumeRunInv, StartInv, EnterWaitingPolicyInv, EndInv, CrashInv
<1>2. CASE ContinueRun \/ RetryStep \/ ConfirmStep \/ RecordPending \/ BlameStep
    BY <1>2, ContinueRunInv, RetryStepInv, ConfirmStepInv, RecordPendingInv, BlameStepInv
<1>3. CASE UnsupportedStage \/ RecordContext \/ Provide \/ ProviderFails
    BY <1>3, UnsupportedStageInv, RecordContextInv, ProvideInv, ProviderFailsInv
<1>4. CASE Reserve \/ ReserveRefused \/ UnconfirmModel \/ FailModelStepRecorded
    BY <1>4, ReserveInv, ReserveRefusedInv, UnconfirmModelInv, FailModelStepRecordedInv
<1>5. CASE RecordTool \/ Invoke \/ EnterUncertain \/ UnconfirmTool \/ CheckpointTool
    BY <1>5, RecordToolInv, InvokeInv, EnterUncertainInv, UnconfirmToolInv, CheckpointToolInv
<1>6. ASSUME NEW action \in PolicyActions, Decide(action) PROVE IInv'
    BY <1>6, DecideInv
<1>7. ASSUME NEW status \in {"FAILED", "CANCELLED"}, EndWaiting(status) PROVE IInv'
    BY <1>7, EndWaitingInv
<1>8. ASSUME NEW reply \in {"good", "bad", "tool", "derived"}, Respond(reply) PROVE IInv'
    BY <1>8, RespondInv
<1>9. ASSUME NEW failure \in {"TRANSIENT", "PERMANENT"}, ModelFails(failure) PROVE IInv'
    BY <1>9, ModelFailsInv
<1>10. ASSUME NEW failure \in {"TRANSIENT", "PERMANENT", "UNCERTAIN"}, NEW happened \in BOOLEAN,
              ToolFails(failure, happened)
       PROVE  IInv'
    BY <1>10, ToolFailsInv
<1> QED
    BY <1>1, <1>2, <1>3, <1>4, <1>5, <1>6, <1>7, <1>8, <1>9, <1>10 DEF Steps

\* The journal, the Run that waits and the call that drives it always fit together: what
\* a call relies on at each of its places is there, however earlier calls ended.
THEOREM Invariant == Spec => []IInv
<1>1. Init => IInv
    BY InitInv
<1>2. IInv /\ [Next]_vars => IInv'
    BY NextSteps, StepsInv, StutterInv
<1> QED
    BY <1>1, <1>2, PTL DEF Spec

LEMMA InvTypeOK == ASSUME IInv PROVE TypeOK
<1>0. Types /\ Waiting /\ CallOK(call) /\ AtPlace(call) /\ RunOK
    BY DEF IInv, Types
<1>1. run.reason = "UNCERTAIN_NON_IDEMPOTENT" => run.wstep \in StepsOf("TOOL") \ Done("TOOL")
    BY <1>0 DEF Waiting
<1>2. \A i \in DOMAIN steps :
        /\ steps[i].type \in {"CONTEXT", "MODEL", "TOOL"}
        /\ steps[i].status \in {"RUNNING", "SUCCEEDED", "FAILED"}
        /\ Range(steps[i].atts) \subseteq AttemptStates
        /\ steps[i].done \in BOOLEAN
        /\ steps[i].outcome \in Int
    <2> SUFFICES ASSUME NEW i \in DOMAIN steps
                 PROVE  /\ steps[i].type \in {"CONTEXT", "MODEL", "TOOL"}
                        /\ steps[i].status \in {"RUNNING", "SUCCEEDED", "FAILED"}
                        /\ Range(steps[i].atts) \subseteq AttemptStates
                        /\ steps[i].done \in BOOLEAN
                        /\ steps[i].outcome \in Int
        OBVIOUS
    <2>1. StepOK(steps[i])
        BY <1>0 DEF Types
    <2>2. steps[i].atts \in Seq(AttemptStates)
        BY <2>1 DEF StepOK
    <2>3. Range(steps[i].atts) \subseteq AttemptStates
        BY <2>2 DEF Range
    <2> QED
        BY <2>1, <2>3 DEF StepOK, Statuses
<1>3. call.pc \in BlamingGates \cup {"provide", "model", "invoke"} => call.step # 0
    BY <1>0 DEF BlamingGates, AtPlace, StagePlaces, ModelPlaces, ToolPlaces, AtStage, AtModel, AtTool
<1> QED
    BY <1>0, <1>1, <1>2, <1>3 DEF TypeOK, RunOK, CallOK

\* Every variable keeps its type, for every Snapshot and every bound: the row carries a
\* reason exactly in WAITING, an uncertain one a Tool Step that is open, and a gate that
\* blames a Step has one.
THEOREM TypesCorrect == Spec => []TypeOK
<1>1. IInv => TypeOK
    BY InvTypeOK
<1> QED
    BY <1>1, Invariant, PTL

\* Neither deaths nor holds nor failed attempts buy repairs: there are never more
\* OUTPUT_REPAIR Steps than the frozen contract allows, because a call counts the
\* attempts it finds in the journal (_repair_output) and none of its places promises
\* more repairs than are left.
THEOREM RepairsAreBounded == Spec => []RepairBounded
<1>1. IInv => RepairBounded
    BY DEF IInv, RepairBounded, Repairs
<1> QED
    BY <1>1, Invariant, PTL

------------------------------------------------------------------------------
(* Held outcomes. *)

\* What HeldVerbatim says of one step.
HeldKept ==
    \A i \in HeldSteps : /\ i \in HeldSteps' \/ steps'[i].done
                         /\ steps'[i].outcome = steps[i].outcome

LEMMA NoneHeld == ASSUME HeldSteps = {} PROVE HeldKept
BY DEF HeldKept

LEMMA StillHeld == ASSUME steps' = steps PROVE HeldKept
BY DEF HeldKept, HeldSteps, StepsOf, EndsIn

\* While no call is open, or the call reads a Stage or asks a model, nothing is held.
LEMMA NoneHeldClosed == ASSUME Types, Journal, Closed PROVE HeldSteps = {}
<1>1. InFlight = {}
    BY DEF Journal
<1> QED
    BY <1>1, StepSets

LEMMA FailedModelHeld == ASSUME IInv, FailModelStepRecorded PROVE HeldKept
<1>0. Types /\ Journal /\ AtFailure(call) /\ CallOK(call) /\ call.pc = "failModelStep"
    BY DEF IInv, FailModelStepRecorded, AtPlace
<1>1. CASE call.step = 0
    <2>1. Closed
        BY <1>0, <1>1 DEF AtFailure
    <2> QED
        BY <1>0, <2>1, NoneHeldClosed, NoneHeld
<1>2. CASE call.step # 0
    <2>1. PICK i : i = call.step
        OBVIOUS
    <2>2. i \in StepsOf("MODEL") /\ i \in DOMAIN steps
        BY <1>0, <1>2, <2>1 DEF AtFailure, StepsOf
    <2>3. PICK a : a = IF EndsIn(i, {"SUCCEEDED"}) THEN Append(Front(steps[i].atts), "PERMANENT")
                       ELSE steps[i].atts
        OBVIOUS
    <2>4. steps' = Rewritten(i, "FAILED", a)
        BY <1>2, <2>1, <2>3 DEF FailModelStepRecorded
    <2>5. PICK s : s = [steps[i] EXCEPT !.status = "FAILED", !.atts = a]
        OBVIOUS
    <2>6. steps' = [steps EXCEPT ![i] = s]
        BY <2>4, <2>5 DEF Rewritten
    <2>7. Puts(i, s)
        BY <1>0, <2>2, <2>6, PutStep
    <2>8. ASSUME NEW j \in HeldSteps PROVE steps'[j] = steps[j] /\ j \in HeldSteps'
        <3>1. j \in DOMAIN steps /\ steps[j].type = "TOOL" /\ j # i
            BY <2>2, <2>8 DEF HeldSteps, StepsOf
        <3>2. steps'[j] = steps[j] /\ j \in DOMAIN steps'
            BY <2>7, <3>1 DEF Puts
        <3> QED
            BY <2>8, <3>2 DEF HeldSteps, StepsOf, EndsIn
    <2> QED
        BY <2>8 DEF HeldKept
<1> QED
    BY <1>1, <1>2

LEMMA CheckpointedHeld == ASSUME IInv, CheckpointTool PROVE HeldKept
<1>0. Types /\ Journal /\ AtTool(call) /\ CallOK(call) /\ call.pc = "checkpointTool"
    BY DEF IInv, CheckpointTool, AtPlace, ToolPlaces
<1>1. PICK i, o : i = call.step /\ o = call.outcome
    OBVIOUS
<1>2. /\ o \in Int /\ InFlight \subseteq {i} /\ i \in StepsOf("TOOL")
      /\ (i \in HeldSteps => o = steps[i].outcome)
    BY <1>0, <1>1 DEF AtTool, CallOK
<1>3. i \in DOMAIN steps /\ steps' = Completed(i, <<>>, "none", o)
    BY <1>1, <1>2 DEF CheckpointTool, StepsOf
<1>4. steps'[i].done /\ steps'[i].outcome = o
    BY <1>0, <1>2, <1>3, CompletedOK DEF Completes
<1>5. HeldSteps \subseteq {i}
    BY <1>0, <1>2, StepSets
<1> QED
    BY <1>2, <1>4, <1>5 DEF HeldKept

LEMMA StepsHeld == ASSUME IInv, Steps PROVE HeldKept
<1>0. Types /\ Journal /\ AtPlace(call)
    BY DEF IInv
<1>1. CASE StartRun \/ ResumeRun \/ Start \/ EnterWaitingPolicy \/ End \/ Crash \/ ContinueRun
           \/ RetryStep \/ ConfirmStep \/ Invoke
    <2>1. steps' = steps
        BY <1>1 DEF StartRun, ResumeRun, Start, EnterWaitingPolicy, End, Crash, ContinueRun, RetryStep,
                    ConfirmStep, Invoke, storeVars
    <2> QED
        BY <2>1, StillHeld
<1>2. ASSUME NEW action \in PolicyActions, Decide(action) PROVE HeldKept
    BY <1>2, StillHeld DEF Decide
<1>3. ASSUME NEW status \in {"FAILED", "CANCELLED"}, EndWaiting(status) PROVE HeldKept
    BY <1>3, StillHeld DEF EndWaiting
<1>4. CASE UnsupportedStage \/ RecordContext \/ Provide \/ ProviderFails
    <2>1. call.pc \in StagePlaces
        BY <1>4 DEF UnsupportedStage, RecordContext, Provide, ProviderFails, StagePlaces
    <2>2. PICK b : b = call
        OBVIOUS
    <2>3. AtStage(b)
        BY <1>0, <2>1, <2>2 DEF AtPlace
    <2> QED
        BY <1>0, <2>3, StageNotOpen, NoneHeld
<1>5. ASSUME call.pc \in ModelPlaces PROVE HeldKept
    <2>1. Closed
        BY <1>0, <1>5 DEF AtPlace, AtModel
    <2> QED
        BY <1>0, <2>1, NoneHeldClosed, NoneHeld
<1>6. CASE UnconfirmModel
    <2>1. Closed
        BY <1>0, <1>6 DEF UnconfirmModel, AtPlace, Journal
    <2> QED
        BY <1>0, <2>1, NoneHeldClosed, NoneHeld
<1>7. ASSUME call.pc \in {"recordPending", "recordTool", "invoke", "enterUncertain", "unconfirmTool"}
      PROVE  HeldKept
    <2>1. HeldSteps = {}
        BY <1>0, <1>7 DEF AtPlace, ToolPlaces, AtTool
    <2> QED
        BY <2>1, NoneHeld
<1>8. CASE BlameStep
    <2>1. InFlight \subseteq {call.step} /\ call.step \notin HeldSteps
        BY <1>0, <1>8 DEF BlameStep, AtPlace, AtBlame
    <2> QED
        BY <1>0, <2>1, StepSets, NoneHeld
<1>9. CASE RecordPending \/ RecordTool \/ EnterUncertain \/ UnconfirmTool
    BY <1>7, <1>9 DEF RecordPending, RecordTool, EnterUncertain, UnconfirmTool
<1>10. ASSUME NEW failure \in {"TRANSIENT", "PERMANENT", "UNCERTAIN"}, NEW happened \in BOOLEAN,
              ToolFails(failure, happened)
       PROVE  HeldKept
    BY <1>7, <1>10 DEF ToolFails
<1>11. CASE Reserve \/ ReserveRefused
    BY <1>5, <1>11 DEF Reserve, ReserveRefused, ModelPlaces
<1>12. ASSUME NEW reply \in {"good", "bad", "tool", "derived"}, Respond(reply) PROVE HeldKept
    BY <1>5, <1>12 DEF Respond, ModelPlaces
<1>13. ASSUME NEW failure \in {"TRANSIENT", "PERMANENT"}, ModelFails(failure) PROVE HeldKept
    BY <1>5, <1>13 DEF ModelFails, ModelPlaces
<1> QED
    BY <1>1, <1>2, <1>3, <1>4, <1>6, <1>8, <1>9, <1>10, <1>11, <1>12, <1>13, FailedModelHeld,
       CheckpointedHeld DEF Steps

\* An outcome the Policy holds (_record_pending_tool_outcome) is neither lost nor
\* replaced: every step of every call leaves it the pending evidence of its Step, or
\* checkpoints it verbatim.
THEOREM HeldOutcomesSurvive == Spec => HeldVerbatim
<1>1. IInv /\ [Next]_vars => [HeldKept]_vars
    BY NextSteps, StepsHeld
<1>2. Spec => [][HeldKept]_vars
    BY <1>1, Invariant, PTL DEF Spec
<1> QED
    BY <1>2 DEF HeldVerbatim, HeldKept

------------------------------------------------------------------------------
(* A NON_IDEMPOTENT tool acts once, or as often as it is granted. *)

\* A step that is no effect, of the call that is open or of none.
NoEffect ==
    /\ UNCHANGED <<snapshot, effects, grants>> /\ (torn => torn')
    /\ Rounds' = Rounds /\ Closed' = Closed

LEMMA EffectsSame ==
    ASSUME UNCHANGED <<effects, grants>>, Rounds' = Rounds
    PROVE  Unreached' = Unreached /\ AtMostGranted' = AtMostGranted /\ Unused' = Unused
BY DEF Unreached, AtMostGranted, Unused

\* What the call must be at after it.
MayGoOn(c) ==
    snapshot.effect = "NON_IDEMPOTENT" /\ ~torn' =>
        /\ c.pc \in Dispatching => Unused
        /\ c.pc = "blameStep" /\ c.outcome = NoOutcome /\ ~Closed => Unused
        /\ ~Closed /\ InFlight' = {} => Unused \/ Known'

LEMMA KeptEffects ==
    ASSUME EffectsKnown, NoEffect, NEW c, call' = c, InHand(c), MayGoOn(c)
    PROVE  EffectsKnown'
<1>1. Unreached' = Unreached /\ AtMostGranted' = AtMostGranted /\ Unused' = Unused
    BY EffectsSame DEF NoEffect
<1>2. InHand(call)'
    BY DEF InHand
<1>3. ASSUME snapshot'.effect = "NON_IDEMPOTENT", ~torn'
      PROVE  /\ AtMostGranted'
             /\ c.pc \in Dispatching => Unused'
             /\ c.pc = "blameStep" /\ c.outcome = NoOutcome /\ ~Closed' => Unused'
             /\ ~Closed' /\ InFlight' = {} => Unused' \/ Known'
    <2>1. snapshot.effect = "NON_IDEMPOTENT" /\ ~torn
        BY <1>3 DEF NoEffect
    <2>2. AtMostGranted
        BY <2>1 DEF EffectsKnown
    <2> QED
        BY <1>1, <1>3, <2>1, <2>2 DEF MayGoOn, NoEffect
<1> QED
    BY <1>1, <1>2, <1>3 DEF EffectsKnown

LEMMA ClosedEffects ==
    ASSUME IInv', EffectsKnown, UNCHANGED <<snapshot, effects, grants, torn>>, Rounds' = Rounds, Closed'
    PROVE  EffectsKnown'
<1>1. Unreached' = Unreached /\ AtMostGranted' = AtMostGranted
    BY EffectsSame
<1>2. PICK c : c = call'
    OBVIOUS
<1>3. c.pc \notin ToolPlaces
    BY <1>2 DEF IInv, AtPlace, AtTool
<1>4. InHand(call)' /\ c.pc \notin Dispatching
    BY <1>2, <1>3 DEF InHand, Dispatching, ToolPlaces
<1> QED
    BY <1>1, <1>2, <1>4 DEF EffectsKnown

\* Nobody knows, as long as a call drives the Run and has no outcome.
LEMMA NotKnown ==
    ASSUME RunOK, run.status \in {"CREATED", "RUNNING"}, ~Unrecorded
    PROVE  ~Known
BY DEF RunOK, Known, TERMINAL_STATUSES, NoReason

LEMMA PlainEffects ==
    ASSUME IInv, EffectsKnown, UNCHANGED <<snapshot, steps, effects, grants, torn>>, ~Known,
           NEW c, call' = c, Good(c)
    PROVE  EffectsKnown'
<1>0. Types
    BY DEF IInv
<1>1. SameView /\ InFlight' = InFlight
    BY <1>0, StillView, ToolsKept
<1>2. NoEffect
    BY <1>1 DEF NoEffect, SameView
<1>3. InHand(c)
    BY DEF InHand, Good, Plain
<1>4. MayGoOn(c)
    <2> SUFFICES ASSUME snapshot.effect = "NON_IDEMPOTENT", ~torn'
                 PROVE  /\ c.pc \in Dispatching => Unused
                        /\ c.pc # "blameStep"
                        /\ ~Closed /\ InFlight' = {} => Unused
        BY DEF MayGoOn
    <2>1. ~Closed /\ InFlight = {} => Unused
        BY DEF EffectsKnown
    <2>2. c.pc \in Dispatching => c.pc = "toolGate" /\ InFlight = {}
        BY DEF Good, Plain
    <2>3. c.pc = "toolGate" => ~Closed
        BY DEF Good, AtPlace, ToolPlaces, AtTool
    <2>4. c.pc # "blameStep"
        BY DEF Good, Plain
    <2> QED
        BY <1>1, <2>1, <2>2, <2>3, <2>4
<1> QED
    BY <1>2, <1>3, <1>4, KeptEffects

\* The call moves on, and neither the journal nor the tool is touched.
LEMMA MovedEffects ==
    ASSUME IInv, EffectsKnown, UNCHANGED <<snapshot, steps, effects, grants>>, torn => torn',
           NEW c, call' = c, InHand(c),
           c.pc \in Dispatching => call.pc \in Dispatching,
           c.pc = "blameStep" /\ c.outcome = NoOutcome /\ ~Closed => call.pc \in Dispatching,
           Known => Known' \/ torn'
    PROVE  EffectsKnown'
<1>0. Types
    BY DEF IInv
<1>1. SameView /\ InFlight' = InFlight
    BY <1>0, StillView, ToolsKept
<1>2. NoEffect
    BY <1>1 DEF NoEffect, SameView
<1>3. MayGoOn(c)
    <2> SUFFICES ASSUME snapshot.effect = "NON_IDEMPOTENT", ~torn'
                 PROVE  /\ c.pc \in Dispatching => Unused
                        /\ c.pc = "blameStep" /\ c.outcome = NoOutcome /\ ~Closed => Unused
                        /\ ~Closed /\ InFlight' = {} => Unused \/ Known'
        BY DEF MayGoOn
    <2>1. (call.pc \in Dispatching => Unused) /\ (~Closed /\ InFlight = {} => Unused \/ Known)
        BY DEF EffectsKnown
    <2> QED
        BY <1>1, <2>1
<1> QED
    BY <1>2, <1>3, KeptEffects

\* No call is open while a Stage is read.
LEMMA StageClosed ==
    ASSUME Types, Journal, NEW b, AtStage(b)
    PROVE  Closed
<1>1. CASE b.path # "loop"
    <2>1. StepsOf("MODEL") = {}
        BY <1>1, StageNotOpen
    <2>2. BusinessDone = {}
        BY <2>1 DEF BusinessDone, Done
    <2> QED
        BY <2>2, RoundsFacts DEF Closed
<1>2. CASE b.path = "loop"
    BY <1>2 DEF AtStage, LoopReady
<1> QED
    BY <1>1, <1>2

LEMMA DecideEffects ==
    ASSUME IInv, EffectsKnown, NEW action \in PolicyActions, Decide(action)
    PROVE  EffectsKnown'
<1>0. Types /\ Journal /\ Driving /\ AtPlace(call) /\ CallOK(call) /\ call.pc \in GatePlaces /\ RunOK
    BY GateNames DEF IInv, Decide, Types
<1>1. UNCHANGED <<snapshot, steps, effects, grants, run>> /\ (torn => torn')
      /\ (call.pc = "confirmGate" /\ action = "REQUIRE_RESOLUTION" => torn')
      /\ (call.pc # "confirmGate" => torn' = torn)
    BY <1>0 DEF Decide, Types
<1>2. run.status \in {"CREATED", "RUNNING"}
    <2>1. call # Idle
        BY <1>0 DEF Idle, GatePlaces
    <2> QED
        BY <1>0, <2>1 DEF Driving
<1>3. Known => call.pc = "confirmGate" /\ call.outcome = 0
    <2>1. Unrecorded => call.pc = "confirmGate" /\ call.outcome = 0
        BY <1>0 DEF Unrecorded, GatePlaces
    <2>2. CASE ~Unrecorded
        BY <1>0, <1>2, <2>2, NotKnown
    <2> QED
        BY <2>1, <2>2
<1>4. InHand(call)
    BY DEF EffectsKnown
<1>5. PICK c : c = call'
    OBVIOUS
<1>6. call.pc = "contextFinal" => Closed
    <2>1. PICK b : b = call
        OBVIOUS
    <2>2. call.pc = "contextFinal" => AtStage(b)
        BY <1>0, <2>1 DEF AtPlace, StagePlaces
    <2> QED
        BY <1>0, <2>2, StageClosed
<1>7. CASE action = "ALLOW"
    <2>1. c = Passed
        BY <1>5, <1>7 DEF Decide
    <2>2. CASE Passed = At("start", 0)
        <3>1. c.pc = "start"
            BY <2>1, <2>2, AtFields
        <3>2. InHand(c)
            BY <3>1 DEF InHand, Dispatching
        <3>3. CASE call.pc = "inputGate"
            BY <1>1, <1>3, <1>5, <3>1, <3>2, <3>3, MovedEffects DEF Dispatching
        <3>4. call.pc = "inputGate"
            BY <1>0, <2>2, <3>1, <2>1, PassedCases, MovedFields, PlaceNames DEF NextPlace, GatePlaces, Good,
               Plain, Succeeding
        <3> QED
            BY <3>3, <3>4
    <2>3. CASE call.pc \in {"inputGate", "outputGate"} /\ Good(Passed)
        <3>1. ~Known /\ torn' = torn
            BY <1>1, <1>3, <2>3
        <3> QED
            BY <1>1, <1>5, <2>1, <2>3, <3>1, PlainEffects
    <2>4. CASE call.pc \in GatePlaces \ {"inputGate", "outputGate"} /\ Passed = Moved(NextPlace[call.pc])
        <3>1. PICK q : q = NextPlace[call.pc]
            OBVIOUS
        <3>2. q \in Places /\ q \in {"recordContext", "provide", "recordTool", "invoke", "checkpointTool"}
              /\ (q \in Dispatching => call.pc \in Dispatching) /\ (call.pc = "confirmGate" => q = "checkpointTool")
            BY <2>4, <3>1, PlaceNames DEF NextPlace, GatePlaces, Dispatching
        <3>3. c.pc = q /\ c.outcome = call.outcome
            BY <1>0, <2>1, <2>4, <3>1, <3>2, MovedFields
        <3>4. InHand(c)
            BY <1>4, <3>2, <3>3 DEF InHand, Dispatching
        <3>5. Known => Known'
            BY <1>3, <1>5, <3>2, <3>3 DEF Known, Unrecorded
        <3> QED
            BY <1>1, <1>5, <3>2, <3>3, <3>4, <3>5, MovedEffects
    <2>5. CASE call.pc = "outputGate" /\ Succeeding(Passed, call.step)
        <3>1. c.pc = "endRun"
            BY <2>1, <2>5 DEF Succeeding
        <3>2. InHand(c)
            BY <3>1 DEF InHand, Dispatching
        <3> QED
            BY <1>1, <1>3, <1>5, <2>5, <3>1, <3>2, MovedEffects DEF Dispatching
    <2> QED
        BY <1>0, <2>2, <2>3, <2>4, <2>5, PassedCases
<1>8. CASE action = "REQUIRE_RESOLUTION"
    <2>1. c = Held
        BY <1>5, <1>8 DEF Decide
    <2>2. c.pc \in {"recordPending", "enterWaiting"} /\ c.outcome = call.outcome
          /\ (c.pc = "recordPending" <=> call.pc = "outcomeGate")
        BY <1>0, <2>1, HeldGood
    <2>3. InHand(c) /\ c.pc \notin Dispatching /\ c.pc # "blameStep"
        BY <1>4, <2>2 DEF InHand, Dispatching
    <2>4. Known => torn'
        BY <1>1, <1>3, <1>8
    <2> QED
        BY <1>1, <1>5, <2>3, <2>4, MovedEffects
<1>9. CASE action \in {"REJECT", "fault"}
    <2>1. PICK e \in {"REJECTED", "FAILED"} : c = Barred(e)
        BY <1>5, <1>9 DEF Decide
    <2>2. c.pc \in {"blameStep", "endRun"} /\ c.outcome = call.outcome
          /\ (c.pc = "blameStep" <=> call.pc \in BlamingGates)
        BY <1>0, <2>1, BarredGood
    <2>3. InHand(c) /\ c.pc \notin Dispatching
        BY <2>2 DEF InHand, Dispatching
    <2>4. c.pc = "blameStep" /\ c.outcome = NoOutcome /\ ~Closed => call.pc \in Dispatching
        <3>1. call.pc = "outcomeGate" => call.outcome # NoOutcome
            BY <1>0, <1>4 DEF InHand, NoOutcome, CallOK
        <3> QED
            BY <1>6, <2>2, <3>1 DEF BlamingGates, Dispatching
    <2>5. Known => Known'
        <3>1. Known => c.pc = "endRun" /\ c.outcome = 0
            BY <1>3, <2>2 DEF BlamingGates
        <3>2. Known => Unrecorded'
            BY <1>5, <3>1 DEF Unrecorded, NoOutcome
        <3> QED
            BY <3>2 DEF Known
    <2> QED
        BY <1>1, <1>5, <2>3, <2>4, <2>5, MovedEffects
<1> QED
    BY <1>7, <1>8, <1>9 DEF PolicyActions

\* Steps that write no journal.
LEMMA CallEffects ==
    ASSUME IInv, EffectsKnown,
           StartRun \/ ResumeRun \/ Start \/ EnterWaitingPolicy \/ End \/ Crash \/ ContinueRun \/ ConfirmStep
    PROVE  EffectsKnown'
<1>0. Types /\ Journal /\ Driving /\ AtPlace(call) /\ CallOK(call) /\ RunOK /\ Waiting
    BY DEF IInv, Types
<1>1. PICK c : c = call'
    OBVIOUS
<1>2. CASE StartRun
    <2>1. UNCHANGED <<snapshot, steps, effects, grants, torn>> /\ c = At("inputGate", 0) /\ call = Idle
          /\ run.status = "CREATED"
        BY <1>1, <1>2 DEF StartRun, storeVars, history, counters
    <2>2. c.pc = "inputGate" /\ ~Known
        BY <1>0, <2>1, AtFields, NotKnown DEF Unrecorded, Idle
    <2>3. InHand(c) /\ c.pc \notin Dispatching
        BY <2>2 DEF InHand, Dispatching
    <2> QED
        BY <1>1, <2>1, <2>2, <2>3, MovedEffects
<1>3. CASE ResumeRun
    <2>1. UNCHANGED <<snapshot, steps, effects, grants, torn>> /\ c = ResumeRunning /\ call = Idle
          /\ run.status = "RUNNING"
        BY <1>1, <1>3 DEF ResumeRun, storeVars, history, counters
    <2>2. ~Known
        BY <1>0, <2>1, NotKnown DEF Unrecorded, Idle
    <2> QED
        BY <1>0, <1>1, <2>1, <2>2, ResumeRunningGood, PlainEffects
<1>4. CASE Start
    <2>1. UNCHANGED <<snapshot, steps, effects, grants, torn>> /\ c = InputEntry("execute") /\ call.pc = "start"
        BY <1>1, <1>4 DEF Start, history, counters
    <2>2. Unasked /\ ~HasDone /\ ~Known
        <3>1. call # Idle
            BY <2>1 DEF Idle
        <3>2. ~Unrecorded /\ run.status \in {"CREATED", "RUNNING"}
            BY <1>0, <2>1, <3>1 DEF Unrecorded, Driving
        <3> QED
            BY <1>0, <2>1, <3>2, NotKnown DEF AtPlace
    <2>3. Good(c)
        BY <1>0, <2>1, <2>2, NothingDone, InputEntryGood
    <2> QED
        BY <1>1, <2>1, <2>2, <2>3, PlainEffects
<1>5. CASE EnterWaitingPolicy
    <2>1. UNCHANGED <<snapshot, steps, effects, grants, torn>> /\ c = Idle /\ call.pc = "enterWaiting"
        BY <1>1, <1>5 DEF EnterWaitingPolicy, history, counters
    <2>2. ~Known
        <3>1. call # Idle
            BY <2>1 DEF Idle
        <3>2. ~Unrecorded /\ run.status \in {"CREATED", "RUNNING"}
            BY <1>0, <2>1, <3>1 DEF Unrecorded, Driving
        <3> QED
            BY <1>0, <3>2, NotKnown
    <2>3. InHand(c) /\ c.pc \notin Dispatching /\ c.pc # "blameStep"
        BY <2>1 DEF InHand, Dispatching, Idle
    <2> QED
        BY <1>1, <2>1, <2>2, <2>3, MovedEffects
<1>6. CASE End
    <2>1. UNCHANGED <<snapshot, steps, effects, grants, torn>> /\ c = Idle
        BY <1>1, <1>6 DEF End, history, counters
    <2>2. run'.status \in TERMINAL_STATUSES
        BY <1>0, <1>6 DEF End, Transition, AtPlace, CallOK, Ends, TERMINAL_STATUSES
    <2>3. Known'
        BY <2>2 DEF Known
    <2>4. InHand(c) /\ c.pc \notin Dispatching /\ c.pc # "blameStep"
        BY <2>1 DEF InHand, Dispatching, Idle
    <2> QED
        BY <1>1, <2>1, <2>3, <2>4, MovedEffects
<1>7. CASE Crash
    <2>1. UNCHANGED <<snapshot, steps, effects, grants, run>> /\ c = Idle /\ torn' = (torn \/ Unrecorded)
        BY <1>1, <1>7 DEF Crash, storeVars, history
    <2>2. (torn => torn') /\ (Known => Known' \/ torn')
        BY <1>0, <2>1 DEF Known, Types
    <2>3. InHand(c) /\ c.pc \notin Dispatching /\ c.pc # "blameStep"
        BY <2>1 DEF InHand, Dispatching, Idle
    <2> QED
        BY <1>1, <2>1, <2>2, <2>3, MovedEffects
<1>8. CASE ContinueRun
    <2>1. UNCHANGED <<snapshot, steps, effects, grants, torn>> /\ call = Idle /\ run.status = "WAITING"
          /\ run.reason = "POLICY_RESOLUTION_REQUIRED"
        BY <1>8 DEF ContinueRun, AllowedResolutions, history, counters
    <2>2. ~Known
        BY <2>1 DEF Known, Unrecorded, Idle, TERMINAL_STATUSES
    <2>3. \/ c = ResumeRunning
          \/ c.pc \in {"idle", "continueGate", "inputGate"}
        <3>1. Idle.pc = "idle" /\ At("inputGate", 0).pc = "inputGate"
            BY AtFields DEF Idle
        <3>2. run.wstep \in HeldSteps => Continuing(run.wstep).pc = "continueGate"
            BY <1>0, ContinuingGood
        <3> QED
            BY <1>1, <1>8, <3>1, <3>2 DEF ContinueRun, Continuing
    <2>4. CASE c = ResumeRunning
        BY <1>0, <1>1, <2>1, <2>2, <2>4, ResumeRunningGood, PlainEffects
    <2>5. CASE c.pc \in {"idle", "continueGate", "inputGate"}
        <3>1. InHand(c) /\ c.pc \notin Dispatching /\ c.pc # "blameStep"
            BY <2>5 DEF InHand, Dispatching
        <3> QED
            BY <1>1, <2>1, <2>2, <3>1, MovedEffects
    <2> QED
        BY <2>3, <2>4, <2>5
<1>9. CASE ConfirmStep
    <2>1. UNCHANGED <<snapshot, steps, effects, grants, torn>>
          /\ c = [At("confirmGate", run.wstep) EXCEPT !.outcome = 0]
        BY <1>1, <1>9 DEF ConfirmStep, history
    <2>2. c.pc = "confirmGate" /\ c.outcome = 0
        <3>1. PICK d : d = At("confirmGate", run.wstep)
            OBVIOUS
        <3>2. d.pc = "confirmGate" /\ "outcome" \in DOMAIN d
            BY <3>1, AtFields
        <3> QED
            BY <2>1, <3>1, <3>2
    <2>3. InHand(c) /\ c.pc \notin Dispatching /\ c.pc # "blameStep"
        BY <2>2 DEF InHand, Dispatching
    <2>4. Known'
        BY <1>1, <2>2 DEF Known, Unrecorded
    <2> QED
        BY <1>1, <2>1, <2>3, <2>4, MovedEffects
<1> QED
    BY <1>2, <1>3, <1>4, <1>5, <1>6, <1>7, <1>8, <1>9

LEMMA EndWaitingEffects ==
    ASSUME IInv, EffectsKnown, NEW st \in {"FAILED", "CANCELLED"}, EndWaiting(st)
    PROVE  EffectsKnown'
<1>1. UNCHANGED <<snapshot, steps, effects, grants, torn>> /\ call' = Idle
    BY DEF EndWaiting, history, counters
<1>2. Known'
    BY DEF EndWaiting, Transition, Known, TERMINAL_STATUSES
<1>3. InHand(Idle) /\ Idle.pc \notin Dispatching /\ Idle.pc # "blameStep"
    BY DEF InHand, Dispatching, Idle
<1> QED
    BY <1>1, <1>2, <1>3, MovedEffects

LEMMA RetryEffects == ASSUME IInv, EffectsKnown, RetryStep PROVE EffectsKnown'
<1>0. Types
    BY DEF IInv
<1>1. run.reason = "UNCERTAIN_NON_IDEMPOTENT"
    BY DEF RetryStep, AllowedResolutions
<1>2. Rounds \in 1..MaxRounds /\ grants \in [1..MaxRounds -> Nat] /\ effects \in [1..MaxRounds -> Nat]
    BY <1>0, <1>1, UncertainReady, OpenRound DEF Types
<1>3. UNCHANGED <<snapshot, steps, effects, torn>> /\ Rounds' = Rounds
    <2>1. UNCHANGED <<snapshot, steps, effects, torn>>
        BY DEF RetryStep
    <2> QED
        BY <1>0, <2>1, StillView DEF SameView
<1>4. PICK c : c = call'
    OBVIOUS
<1>5. c.pc = "toolGate" /\ c.outcome = NoOutcome
    BY <1>4, AtFields DEF RetryStep
<1>6. InHand(call)'
    BY <1>4, <1>5 DEF InHand
<1>7. Unreached'
    BY <1>3 DEF EffectsKnown, Unreached
<1>8. \A d \in 1..MaxRounds : grants'[d] = IF d = Rounds THEN grants[d] + 1 ELSE grants[d]
    BY <1>2 DEF RetryStep
<1>9. ASSUME AtMostGranted PROVE AtMostGranted' /\ Unused'
    <2>1. ASSUME NEW d \in 1..MaxRounds PROVE effects'[d] <= 1 + grants'[d]
        <3>1. effects[d] <= 1 + grants[d] /\ effects[d] \in Nat /\ grants[d] \in Nat
            BY <1>2, <1>9 DEF AtMostGranted
        <3>2. effects'[d] = effects[d] /\ grants'[d] >= grants[d]
            BY <1>3, <1>8, <3>1
        <3> QED
            BY <1>8, <3>1, <3>2
    <2>2. effects'[Rounds] <= grants'[Rounds]
        <3>1. effects[Rounds] <= 1 + grants[Rounds] /\ effects[Rounds] \in Nat /\ grants[Rounds] \in Nat
            BY <1>2, <1>9 DEF AtMostGranted
        <3>2. grants'[Rounds] = grants[Rounds] + 1
            BY <1>2, <1>8
        <3> QED
            BY <1>3, <3>1, <3>2
    <2> QED
        BY <1>3, <2>1, <2>2 DEF AtMostGranted, Unused
<1> QED
    BY <1>3, <1>4, <1>5, <1>6, <1>7, <1>9 DEF EffectsKnown

LEMMA InvokeEffects == ASSUME IInv, EffectsKnown, Invoke PROVE EffectsKnown'
<1>0. Types /\ AtPlace(call) /\ call.pc = "invoke"
    BY DEF IInv, Invoke
<1>1. ~Closed /\ call.step \in InFlight
    BY <1>0 DEF AtPlace, ToolPlaces, AtTool
<1>2. Rounds \in 1..MaxRounds /\ grants \in [1..MaxRounds -> Nat] /\ effects \in [1..MaxRounds -> Nat]
    BY <1>0, <1>1, OpenRound DEF Types
<1>3. UNCHANGED <<snapshot, steps, grants, torn>> /\ Rounds' = Rounds /\ InFlight' # {}
    <2>1. UNCHANGED <<snapshot, steps, grants, torn>>
        BY DEF Invoke, storeVars, counters
    <2> QED
        BY <1>0, <1>1, <2>1, StillView, ToolsKept DEF SameView
<1>4. PICK c : c = call'
    OBVIOUS
<1>5. c.pc = "outcomeGate" /\ c.outcome >= 0
    <2>1. effects[Rounds] + 1 >= 0
        BY <1>2
    <2>2. DOMAIN call = {"pc", "step", "stage", "path", "purpose", "model", "replay", "left", "outcome", "end"}
        BY DEF IInv, CallOK
    <2> QED
        BY <1>4, <2>1, <2>2 DEF Invoke
<1>6. InHand(call)'
    BY <1>4, <1>5 DEF InHand, Dispatching
<1>7. \A d \in 1..MaxRounds : effects'[d] = IF d = Rounds THEN effects[d] + 1 ELSE effects[d]
    BY <1>2 DEF Invoke
<1>8. Unreached'
    BY <1>2, <1>3, <1>7 DEF EffectsKnown, Unreached
<1>9. ASSUME AtMostGranted, Unused PROVE AtMostGranted'
    <2>1. ASSUME NEW d \in 1..MaxRounds PROVE effects'[d] <= 1 + grants'[d]
        <3>1. effects[d] <= 1 + grants[d] /\ effects[d] \in Nat /\ grants[d] \in Nat
            BY <1>2, <1>9 DEF AtMostGranted
        <3>2. d = Rounds => effects[d] <= grants[d]
            BY <1>9 DEF Unused
        <3> QED
            BY <1>3, <1>7, <3>1, <3>2
    <2> QED
        BY <2>1 DEF AtMostGranted
<1>10. snapshot.effect = "NON_IDEMPOTENT" /\ ~torn => AtMostGranted /\ Unused
    BY <1>0 DEF EffectsKnown, Dispatching
<1>11. c.pc \notin Dispatching /\ c.pc # "blameStep"
    BY <1>5 DEF Dispatching
<1> QED
    BY <1>3, <1>4, <1>6, <1>8, <1>9, <1>10, <1>11 DEF EffectsKnown

\* A write that completes nothing, while no call is open.
LEMMA ClosedWriteEffects ==
    ASSUME IInv, IInv', EffectsKnown, UNCHANGED <<snapshot, effects, grants, torn>>, Keeps, Closed
    PROVE  EffectsKnown'
<1>1. Types
    BY DEF IInv
<1>2. Rounds' = Rounds /\ Closed'
    BY <1>1, RoundsKept
<1> QED
    BY <1>2, ClosedEffects

LEMMA ContextEffects ==
    ASSUME IInv, IInv', EffectsKnown, UnsupportedStage \/ RecordContext \/ Provide \/ ProviderFails
    PROVE  EffectsKnown'
<1>0. Types /\ Journal
    BY DEF IInv
<1>1. PICK b : b = call
    OBVIOUS
<1>2. AtStage(b)
    BY <1>1 DEF IInv, AtPlace, StagePlaces, UnsupportedStage, RecordContext, Provide, ProviderFails
<1>3. Closed
    BY <1>0, <1>2, StageClosed
<1>4. UNCHANGED <<snapshot, effects, grants, torn>>
    BY DEF UnsupportedStage, RecordContext, Provide, ProviderFails, history, counters
<1>5. CASE Provide
    <2>1. SameModels /\ SameTools
        BY <1>5, ProvideInv
    <2>2. Rounds' = Rounds /\ Closed'
        BY <1>3, <1>4, <2>1, LoopPointKept
    <2> QED
        BY <1>4, <2>2, ClosedEffects
<1>6. CASE UnsupportedStage \/ RecordContext \/ ProviderFails
    <2>1. Keeps
        BY <1>6, UnsupportedStageInv, RecordContextInv, ProviderFailsInv
    <2> QED
        BY <1>3, <1>4, <2>1, ClosedWriteEffects
<1> QED
    BY <1>5, <1>6

LEMMA ModelEffects ==
    ASSUME IInv, IInv', EffectsKnown,
           Reserve \/ ReserveRefused \/ UnconfirmModel \/ \E f \in {"TRANSIENT", "PERMANENT"} : ModelFails(f)
    PROVE  EffectsKnown'
<1>1. Keeps
    BY ReserveInv, ReserveRefusedInv, UnconfirmModelInv, ModelFailsInv
<1>2. UNCHANGED <<snapshot, effects, grants, torn>>
    BY DEF Reserve, ReserveRefused, UnconfirmModel, ModelFails, history, counters
<1>3. Closed
    BY DEF IInv, AtPlace, ModelPlaces, AtModel, Journal, Reserve, ReserveRefused, UnconfirmModel, ModelFails
<1> QED
    BY <1>1, <1>2, <1>3, ClosedWriteEffects

LEMMA FailedModelEffects ==
    ASSUME IInv, EffectsKnown, FailModelStepRecorded
    PROVE  EffectsKnown'
<1>0. Types /\ RunOK /\ run.status = "RUNNING" /\ call.pc = "failModelStep"
    BY DEF IInv, Types, FailModelStepRecorded, Driving
<1>1. Keeps /\ SameTools
    BY FailModelStepRecordedInv
<1>2. UNCHANGED <<snapshot, effects, grants, torn>>
    BY DEF FailModelStepRecorded, history, counters
<1>3. NoEffect /\ InFlight' = InFlight
    BY <1>0, <1>1, <1>2, RoundsKept, ToolsKept DEF NoEffect
<1>4. PICK c : c = call'
    OBVIOUS
<1>5. c.pc = "endRun"
    BY <1>0, <1>4, EndRunFields DEF FailModelStepRecorded
<1>6. InHand(c)
    BY <1>5 DEF InHand, Dispatching
<1>7. ~Known
    BY <1>0, NotKnown DEF Unrecorded
<1>8. MayGoOn(c)
    BY <1>2, <1>3, <1>5, <1>7 DEF MayGoOn, EffectsKnown, Dispatching
<1> QED
    BY <1>3, <1>4, <1>6, <1>8, KeptEffects

LEMMA RespondEffects ==
    ASSUME IInv, IInv', EffectsKnown, NEW re \in {"good", "bad", "tool", "derived"}, Respond(re)
    PROVE  EffectsKnown'
<1>0. Types /\ Types'
    BY DEF IInv
<1>1. UNCHANGED <<snapshot, effects, grants, torn>>
    BY DEF Respond, history, counters
<1>2. (Closed' <=> re # "tool") /\ Rounds' = IF re = "tool" THEN Rounds + 1 ELSE Rounds
    BY RespondInv
<1>3. CASE re # "tool"
    BY <1>1, <1>2, <1>3, ClosedEffects
<1>4. CASE re = "tool"
    <2>1. PICK c : c = call'
        OBVIOUS
    <2>2. c.pc = "toolGate" /\ c.outcome = NoOutcome
        BY <1>4, <2>1, AtFields DEF Respond
    <2>3. InHand(call)' /\ c.pc # "blameStep"
        BY <2>1, <2>2 DEF InHand, Dispatching
    <2>4. /\ Rounds' = Rounds + 1 /\ Rounds \in Nat /\ Rounds' \in 1..MaxRounds
          /\ effects \in [1..MaxRounds -> Nat] /\ grants \in [1..MaxRounds -> Nat]
        BY <1>0, <1>2, <1>4, Bounds DEF Types
    <2>5. Unreached'
        BY <1>1, <2>4 DEF EffectsKnown, Unreached
    <2>6. effects[Rounds'] = 0
        BY <2>4 DEF EffectsKnown, Unreached
    <2>7. Unused'
        BY <1>1, <2>4, <2>6 DEF Unused
    <2>8. AtMostGranted' = AtMostGranted
        BY <1>1 DEF AtMostGranted
    <2> QED
        BY <1>1, <2>1, <2>3, <2>5, <2>7, <2>8 DEF EffectsKnown
<1> QED
    BY <1>3, <1>4

LEMMA ToolEffects ==
    ASSUME IInv, EffectsKnown, RecordTool \/ RecordPending \/ EnterUncertain \/ UnconfirmTool \/ BlameStep
    PROVE  EffectsKnown'
<1>0. Types /\ AtPlace(call) /\ CallOK(call)
    BY DEF IInv
<1>1. Keeps
    BY RecordToolInv, RecordPendingInv, EnterUncertainInv, UnconfirmToolInv, BlameStepInv
<1>2. UNCHANGED <<snapshot, effects, grants, torn>>
    BY DEF RecordTool, RecordPending, EnterUncertain, UnconfirmTool, BlameStep, history, counters
<1>3. NoEffect
    BY <1>0, <1>1, <1>2, RoundsKept DEF NoEffect
<1>4. PICK c : c = call'
    OBVIOUS
<1>5. InHand(call) /\ DOMAIN call = {"pc", "step", "stage", "path", "purpose", "model", "replay", "left",
                                     "outcome", "end"}
    BY <1>0 DEF EffectsKnown, CallOK
<1>6. CASE RecordTool
    <2>1. InFlight' # {} /\ call.pc = "recordTool"
        BY <1>6, RecordToolInv DEF RecordTool
    <2>2. c.pc = "toolFinal" /\ c.outcome = call.outcome
        BY <1>4, <1>5, <1>6 DEF RecordTool
    <2>3. InHand(c)
        BY <1>5, <2>1, <2>2 DEF InHand, Dispatching
    <2>4. MayGoOn(c)
        BY <1>2, <2>1, <2>2 DEF MayGoOn, EffectsKnown, Dispatching
    <2> QED
        BY <1>3, <1>4, <2>3, <2>4, KeptEffects
<1>7. CASE RecordPending
    <2>1. InFlight' # {}
        BY <1>7, RecordPendingInv
    <2>2. c.pc = "enterWaiting"
        BY <1>4, <1>7, AtFields DEF RecordPending
    <2>3. InHand(c) /\ MayGoOn(c)
        BY <2>1, <2>2 DEF InHand, MayGoOn, Dispatching
    <2> QED
        BY <1>3, <1>4, <2>3, KeptEffects
<1>8. CASE EnterUncertain
    <2>1. c.pc = "idle"
        BY <1>4, <1>8 DEF EnterUncertain, Idle
    <2>2. Known'
        BY <1>8 DEF EnterUncertain, Transition, Known
    <2>3. InHand(c) /\ MayGoOn(c)
        BY <2>1, <2>2 DEF InHand, MayGoOn, Dispatching
    <2> QED
        BY <1>3, <1>4, <2>3, KeptEffects
<1>9. CASE UnconfirmTool
    <2>1. snapshot.effect # "NON_IDEMPOTENT"
        BY <1>0, <1>9 DEF UnconfirmTool, AtPlace, ToolPlaces, AtTool
    <2>2. PICK i : i = call.step
        OBVIOUS
    <2>3. c = ToolEntry(i, TRUE)'
        BY <1>4, <1>9, <2>2 DEF UnconfirmTool
    <2>4. c = At("toolGate", i) \/ c = [At("blameStep", i) EXCEPT !.end = "FAILED"]
        BY <2>3 DEF ToolEntry
    <2>5. InHand(c)
        <3>1. PICK d : d = At("blameStep", i)
            OBVIOUS
        <3>2. "end" \in DOMAIN d /\ d.pc = "blameStep" /\ "pc" \in DOMAIN d
            BY <3>1, AtFields
        <3>3. CASE c = [d EXCEPT !.end = "FAILED"]
            <4>1. c.pc = "blameStep"
                BY <3>2, <3>3
            <4> QED
                BY <4>1 DEF InHand, Dispatching
        <3>4. CASE c = At("toolGate", i)
            BY <3>4, AtFields DEF InHand
        <3> QED
            BY <2>4, <3>1, <3>3, <3>4
    <2>6. MayGoOn(c)
        BY <2>1 DEF MayGoOn
    <2> QED
        BY <1>3, <1>4, <2>5, <2>6, KeptEffects
<1>10. CASE BlameStep
    <2>1. call.pc = "blameStep" /\ c.pc = "endRun" /\ c.outcome = call.outcome
        BY <1>4, <1>5, <1>10 DEF BlameStep
    <2>2. call.outcome # NoOutcome => Known'
        BY <1>4, <2>1 DEF Known, Unrecorded
    <2>3. InHand(c)
        BY <2>1 DEF InHand, Dispatching
    <2>4. MayGoOn(c)
        BY <1>2, <2>1, <2>2 DEF MayGoOn, EffectsKnown, Dispatching
    <2> QED
        BY <1>3, <1>4, <2>3, <2>4, KeptEffects
<1> QED
    BY <1>6, <1>7, <1>8, <1>9, <1>10

LEMMA CheckpointEffects ==
    ASSUME IInv, IInv', EffectsKnown, CheckpointTool
    PROVE  EffectsKnown'
<1>1. UNCHANGED <<snapshot, effects, grants, torn>>
    BY DEF CheckpointTool, history, counters
<1>2. Rounds' = Rounds /\ Closed'
    BY CheckpointToolInv
<1> QED
    BY <1>1, <1>2, ClosedEffects

LEMMA ToolFailsEffects ==
    ASSUME IInv, EffectsKnown, NEW f \in {"TRANSIENT", "PERMANENT", "UNCERTAIN"}, NEW h \in BOOLEAN,
           ToolFails(f, h)
    PROVE  EffectsKnown'
<1>0. Types /\ AtPlace(call) /\ call.pc = "invoke"
    BY DEF IInv, ToolFails
<1>1. ~Closed
    BY <1>0 DEF AtPlace, ToolPlaces, AtTool
<1>2. Rounds \in 1..MaxRounds /\ grants \in [1..MaxRounds -> Nat] /\ effects \in [1..MaxRounds -> Nat]
    BY <1>0, <1>1, OpenRound DEF Types
<1>3. Keeps /\ InFlight' # {}
    BY ToolFailsInv
<1>4. UNCHANGED <<snapshot, grants, torn>> /\ Rounds' = Rounds
    BY <1>0, <1>3, RoundsKept DEF ToolFails
<1>5. PICK c, i : c = call' /\ i = call.step
    OBVIOUS
<1>6. PICK d : d = IF h THEN 1 ELSE 0
    OBVIOUS
<1>7. \A r \in 1..MaxRounds : effects'[r] = IF r = Rounds THEN effects[r] + d ELSE effects[r]
    BY <1>2, <1>6 DEF ToolFails
<1>8. PICK o : o = IF h THEN effects[Rounds] + 1 ELSE NoOutcome
    OBVIOUS
<1>9. \/ c = At("enterUncertain", i)
      \/ c = At("toolGate", i) /\ ~h
      \/ c = Blamed(i, o)
    BY <1>5, <1>8 DEF ToolFails, ShouldRetry, Blamed
<1>10. \/ c.pc = "enterUncertain"
       \/ c.pc = "toolGate" /\ c.outcome = NoOutcome /\ ~h
       \/ c.pc = "blameStep" /\ (c.outcome = NoOutcome => ~h)
    <2>1. CASE c = Blamed(i, o)
        <3>1. effects[Rounds] \in Nat
            BY <1>2
        <3>2. o \in Int /\ (o = NoOutcome => ~h)
            BY <1>8, <3>1 DEF NoOutcome
        <3>3. i \in 0..Len(steps)
            BY <1>0, <1>5 DEF IInv, Types, CallOK
        <3>4. c.pc = "blameStep" /\ c.outcome = o
            BY <1>0, <2>1, <3>2, <3>3, Blaming
        <3> QED
            BY <3>2, <3>4
    <2>2. CASE c = At("enterUncertain", i)
        BY <2>2, AtFields
    <2>3. CASE c = At("toolGate", i) /\ ~h
        BY <2>3, AtFields
    <2> QED
        BY <1>9, <2>1, <2>2, <2>3
<1>11. InHand(call)'
    BY <1>5, <1>10 DEF InHand, Dispatching
<1>12. Unreached'
    BY <1>2, <1>4, <1>7 DEF EffectsKnown, Unreached
<1>13. ASSUME snapshot.effect = "NON_IDEMPOTENT", ~torn
       PROVE  AtMostGranted' /\ (~h => Unused')
    <2>1. AtMostGranted /\ Unused
        BY <1>0, <1>13 DEF EffectsKnown, Dispatching
    <2>2. d \in {0, 1} /\ (~h => d = 0)
        BY <1>6
    <2>3. ASSUME NEW r \in 1..MaxRounds PROVE effects'[r] <= 1 + grants'[r]
        <3>1. effects[r] <= 1 + grants[r] /\ effects[r] \in Nat /\ grants[r] \in Nat
            BY <1>2, <2>1 DEF AtMostGranted
        <3>2. r = Rounds => effects[r] <= grants[r]
            BY <2>1 DEF Unused
        <3> QED
            BY <1>4, <1>7, <2>2, <3>1, <3>2
    <2>4. ~h => Unused'
        <3>1. effects[Rounds] <= grants[Rounds] /\ effects[Rounds] \in Nat /\ grants[Rounds] \in Nat
            BY <1>2, <2>1 DEF Unused
        <3>2. effects'[Rounds] = effects[Rounds] + d
            BY <1>2, <1>7
        <3> QED
            BY <1>4, <2>2, <3>1, <3>2 DEF Unused
    <2> QED
        BY <2>3, <2>4 DEF AtMostGranted
<1>14. (c.pc \in Dispatching => ~h) /\ (c.pc = "blameStep" /\ c.outcome = NoOutcome => ~h)
    BY <1>10 DEF Dispatching
<1> QED
    BY <1>3, <1>4, <1>5, <1>11, <1>12, <1>13, <1>14 DEF EffectsKnown

LEMMA InitEffects == ASSUME Init PROVE EffectsKnown
<1>1. IInv
    BY InitInv
<1>2. call = Idle /\ steps = <<>> /\ effects = [c \in 1..MaxRounds |-> 0] /\ grants = [c \in 1..MaxRounds |-> 0]
    BY DEF Init
<1>3. Unreached /\ AtMostGranted
    BY <1>2 DEF Unreached, AtMostGranted
<1>4. Closed
    <2>1. BusinessDone = {}
        BY <1>2 DEF BusinessDone, Done, StepsOf
    <2> QED
        BY <1>1, <2>1, RoundsFacts DEF Closed, IInv
<1>5. call.pc = "idle"
    BY <1>2 DEF Idle
<1>6. InHand(call)
    BY <1>5 DEF InHand, Dispatching
<1> QED
    BY <1>3, <1>4, <1>5, <1>6 DEF EffectsKnown, Dispatching

LEMMA StutterEffects == ASSUME IInv, EffectsKnown, UNCHANGED vars PROVE EffectsKnown'
<1>1. PICK c : c = call
    OBVIOUS
<1>2. UNCHANGED <<snapshot, steps, effects, grants, torn>> /\ call' = c /\ run' = run
    BY <1>1 DEF vars
<1>3. InHand(c) /\ (Known => Known')
    BY <1>1, <1>2 DEF EffectsKnown, Known, Unrecorded
<1>4. Types
    BY DEF IInv
<1>5. SameView /\ InFlight' = InFlight
    BY <1>2, <1>4, StillView, ToolsKept
<1>6. NoEffect
    BY <1>2, <1>5 DEF NoEffect, SameView
<1>7. MayGoOn(c)
    BY <1>1, <1>2, <1>3, <1>5 DEF MayGoOn, EffectsKnown
<1> QED
    BY <1>2, <1>3, <1>6, <1>7, KeptEffects

LEMMA StepsEffects == ASSUME IInv, EffectsKnown, Steps PROVE EffectsKnown'
<1>0. IInv'
    BY StepsInv
<1>1. CASE StartRun \/ ResumeRun \/ Start \/ EnterWaitingPolicy \/ End \/ Crash \/ ContinueRun \/ ConfirmStep
    BY <1>1, CallEffects
<1>2. CASE RetryStep \/ Invoke \/ CheckpointTool \/ FailModelStepRecorded
    BY <1>0, <1>2, RetryEffects, InvokeEffects, CheckpointEffects, FailedModelEffects
<1>3. CASE RecordTool \/ RecordPending \/ EnterUncertain \/ UnconfirmTool \/ BlameStep
    BY <1>3, ToolEffects
<1>4. CASE UnsupportedStage \/ RecordContext \/ Provide \/ ProviderFails
    BY <1>0, <1>4, ContextEffects
<1>5. CASE Reserve \/ ReserveRefused \/ UnconfirmModel \/ \E f \in {"TRANSIENT", "PERMANENT"} : ModelFails(f)
    BY <1>0, <1>5, ModelEffects
<1>6. ASSUME NEW action \in PolicyActions, Decide(action) PROVE EffectsKnown'
    BY <1>6, DecideEffects
<1>7. ASSUME NEW status \in {"FAILED", "CANCELLED"}, EndWaiting(status) PROVE EffectsKnown'
    BY <1>7, EndWaitingEffects
<1>8. ASSUME NEW reply \in {"good", "bad", "tool", "derived"}, Respond(reply) PROVE EffectsKnown'
    BY <1>0, <1>8, RespondEffects
<1>9. ASSUME NEW failure \in {"TRANSIENT", "PERMANENT", "UNCERTAIN"}, NEW happened \in BOOLEAN,
             ToolFails(failure, happened)
      PROVE  EffectsKnown'
    BY <1>9, ToolFailsEffects
<1> QED
    BY <1>1, <1>2, <1>3, <1>4, <1>5, <1>6, <1>7, <1>8, <1>9 DEF Steps

\* A NON_IDEMPOTENT tool acts at most once per requested call, plus once per RETRY_STEP
\* the application asked for, through holds of its request and of its outcome, barred
\* outcomes, deaths and continuations, unless a call died (or the Policy held a
\* confirmation) where the journal does not tell that the tool has acted.
THEOREM EffectsAtMostOnce == Spec => []EffectAtMostOnce
<1>1. Init => EffectsKnown
    BY InitEffects
<1>2. IInv /\ EffectsKnown /\ [Next]_vars => EffectsKnown'
    BY NextSteps, StepsEffects, StutterEffects
<1>3. EffectsKnown => EffectAtMostOnce
    BY DEF EffectsKnown, EffectAtMostOnce, AtMostGranted
<1> QED
    BY <1>1, <1>2, <1>3, Invariant, PTL DEF Spec

------------------------------------------------------------------------------
(* Nothing is checkpointed or released unless the Policy's last word is ALLOW. *)

\* No Tool Checkpoint appears or changes.
ToolsStand ==
    \A i \in Done("TOOL")' :
        i \in Done("TOOL") /\ steps'[i].key = steps[i].key /\ steps'[i].outcome = steps[i].outcome

LEMMA KeepsStand == ASSUME Types, Keeps PROVE ToolsStand
<1>1. Done("TOOL")' = Done("TOOL")
    BY DoneKept
<1>2. ASSUME NEW i \in Done("TOOL") PROVE steps'[i].key = steps[i].key /\ steps'[i].outcome = steps[i].outcome
    BY DEF Keeps, SameCheckpoint, Done, StepsOf
<1> QED
    BY <1>1, <1>2 DEF ToolsStand

LEMMA SameStand == ASSUME SameTools PROVE ToolsStand
<1>1. Done("TOOL")' = Done("TOOL")
    BY ToolsKept
<1>2. \A i \in Done("TOOL") : steps'[i] = steps[i]
    BY DEF SameTools, Done
<1> QED
    BY <1>1, <1>2 DEF ToolsStand

LEMMA StillStand == ASSUME steps' = steps PROVE ToolsStand
BY DEF ToolsStand, Done, StepsOf

LEMMA QuietApproved ==
    ASSUME ApprovalsKept, approved' = approved, ToolsStand, run'.status # "SUCCEEDED",
           NEW c, call' = c, Quiet(c)
    PROVE  ApprovalsKept'
<1>1. \A i \in Done("TOOL")' : <<"TOOL_OUTCOME", <<steps'[i].key[1], steps'[i].outcome>>>> \in approved'
    BY DEF ApprovalsKept, ToolsStand
<1>2. /\ c.pc \notin {"start", "checkpointTool"} /\ ~(c.pc = "endRun" /\ c.end = "SUCCEEDED")
      /\ c.pc = "blameStep" => c.end # "SUCCEEDED"
    BY DEF Quiet
<1> QED
    BY <1>1, <1>2 DEF ApprovalsKept

LEMMA GoodQuiet == ASSUME NEW c, Good(c) PROVE Quiet(c)
BY DEF Good, Plain, Quiet

LEMMA PlaceQuiet == ASSUME NEW c, c.pc \notin {"start", "checkpointTool", "endRun", "blameStep"} PROVE Quiet(c)
BY DEF Quiet

\* A Run that is driven has released nothing.
LEMMA Unreleased ==
    ASSUME IInv, call # Idle, run' = run
    PROVE  run'.status # "SUCCEEDED"
BY DEF IInv, Driving

\* Steps that write no journal.
LEMMA CallApprovals ==
    ASSUME IInv, ApprovalsKept,
           \/ StartRun \/ ResumeRun \/ Start \/ EnterWaitingPolicy \/ Crash \/ ContinueRun
           \/ RetryStep \/ ConfirmStep \/ Invoke
           \/ \E status \in {"FAILED", "CANCELLED"} : EndWaiting(status)
    PROVE  ApprovalsKept'
<1>0. Types /\ Journal /\ Driving /\ AtPlace(call) /\ CallOK(call)
    BY DEF IInv
<1>1. steps' = steps /\ approved' = approved
    BY DEF StartRun, ResumeRun, Start, EnterWaitingPolicy, Crash, ContinueRun, RetryStep, ConfirmStep, Invoke,
       EndWaiting, storeVars, history
<1>2. ToolsStand
    BY <1>1, StillStand
<1>3. run'.status # "SUCCEEDED"
    <2>1. CASE Crash \/ Invoke
        <3>1. call # Idle /\ run' = run
            BY <2>1 DEF Crash, Invoke, Idle, storeVars
        <3> QED
            BY <3>1, Unreleased
    <2>2. CASE StartRun \/ ResumeRun
        BY <2>2 DEF StartRun, ResumeRun, storeVars
    <2>3. CASE ~(Crash \/ Invoke \/ StartRun \/ ResumeRun)
        BY <2>3 DEF Start, EnterWaitingPolicy, ContinueRun, RetryStep, ConfirmStep, EndWaiting, Transition
    <2> QED
        BY <2>1, <2>2, <2>3
<1>4. PICK c : c = call'
    OBVIOUS
<1>5. Quiet(c)
    <2>1. CASE ResumeRun
        BY <1>0, <1>4, <2>1, ResumeRunningGood, GoodQuiet DEF ResumeRun
    <2>2. CASE Start
        <3>1. Unasked /\ ~HasDone
            BY <1>0, <2>2 DEF Start, AtPlace
        <3>2. Good(InputEntry("execute"))
            BY <1>0, <3>1, NothingDone, InputEntryGood
        <3> QED
            BY <1>4, <2>2, <3>2, GoodQuiet DEF Start
    <2>3. CASE ContinueRun
        <3>1. Idle.pc = "idle" /\ At("inputGate", 0).pc = "inputGate"
            BY AtFields DEF Idle
        <3>2. run.wstep \in HeldSteps => Continuing(run.wstep).pc = "continueGate"
            BY <1>0, ContinuingGood
        <3>3. c = ResumeRunning \/ c.pc \in {"idle", "continueGate", "inputGate"}
            BY <1>4, <2>3, <3>1, <3>2 DEF ContinueRun, Continuing
        <3> QED
            BY <1>0, <3>3, ResumeRunningGood, GoodQuiet, PlaceQuiet
    <2>4. CASE ConfirmStep
        <3>1. PICK d : d = At("confirmGate", run.wstep)
            OBVIOUS
        <3>2. d.pc = "confirmGate" /\ "outcome" \in DOMAIN d /\ "pc" \in DOMAIN d
            BY <3>1, AtFields
        <3>3. c = [d EXCEPT !.outcome = 0]
            BY <1>4, <2>4, <3>1 DEF ConfirmStep
        <3>4. c.pc = "confirmGate"
            BY <3>2, <3>3
        <3> QED
            BY <3>4, PlaceQuiet
    <2>5. CASE Invoke
        <3>1. c.pc = "outcomeGate"
            BY <1>0, <1>4, <2>5 DEF Invoke, CallOK
        <3> QED
            BY <3>1, PlaceQuiet
    <2>6. CASE \/ StartRun \/ EnterWaitingPolicy \/ Crash \/ RetryStep
               \/ \E status \in {"FAILED", "CANCELLED"} : EndWaiting(status)
        <3>1. c.pc \in {"idle", "inputGate", "toolGate"}
            BY <1>4, <2>6, AtFields DEF StartRun, EnterWaitingPolicy, Crash, RetryStep, EndWaiting, Idle
        <3> QED
            BY <3>1, PlaceQuiet
    <2> QED
        BY <2>1, <2>2, <2>3, <2>4, <2>5, <2>6
<1> QED
    BY <1>1, <1>2, <1>3, <1>4, <1>5, QuietApproved

LEMMA EndApprovals == ASSUME IInv, ApprovalsKept, End PROVE ApprovalsKept'
<1>1. UNCHANGED <<snapshot, steps, approved>> /\ call' = Idle
    BY DEF End, history
<1>2. \A i : Released(i)' = Released(i)
    BY <1>1 DEF Released, BusinessDone, Done, StepsOf, ModelSteps, Purpose
<1>3. run'.status = "SUCCEEDED" => Released(run'.output)
    BY DEF End, Transition, ApprovalsKept
<1>4. \A i \in Done("TOOL")' : <<"TOOL_OUTCOME", <<steps'[i].key[1], steps'[i].outcome>>>> \in approved'
    BY <1>1 DEF ApprovalsKept, Done, StepsOf
<1>5. PICK o : o = run'.output
    OBVIOUS
<1>6. run'.status = "SUCCEEDED" => Released(o)'
    BY <1>2, <1>3, <1>5
<1>7. run'.status = "SUCCEEDED" => Released(run.output)'
    BY <1>5, <1>6 DEF Released
<1> QED
    BY <1>1, <1>4, <1>7 DEF ApprovalsKept, Idle

\* Writes that leave the Tool Checkpoints alone.
LEMMA WriteApprovals ==
    ASSUME IInv, ApprovalsKept,
           \/ UnsupportedStage \/ RecordContext \/ Provide \/ ProviderFails
           \/ Reserve \/ ReserveRefused \/ UnconfirmModel \/ FailModelStepRecorded
           \/ RecordTool \/ RecordPending \/ EnterUncertain \/ UnconfirmTool \/ BlameStep
           \/ \E reply \in {"good", "bad", "tool", "derived"} : Respond(reply)
           \/ \E failure \in {"TRANSIENT", "PERMANENT"} : ModelFails(failure)
           \/ \E failure \in {"TRANSIENT", "PERMANENT", "UNCERTAIN"}, happened \in BOOLEAN :
                ToolFails(failure, happened)
    PROVE  ApprovalsKept'
<1>0. Types /\ CallOK(call) /\ Types'
    BY StepsInv DEF IInv, Steps
<1>1. approved' = approved
    BY DEF UnsupportedStage, RecordContext, Provide, ProviderFails, Reserve, ReserveRefused, UnconfirmModel,
       FailModelStepRecorded, RecordTool, RecordPending, EnterUncertain, UnconfirmTool, BlameStep, Respond, ModelFails,
       ToolFails, history
<1>2. ToolsStand
    <2>1. CASE \/ UnsupportedStage \/ RecordContext \/ ProviderFails
               \/ Reserve \/ ReserveRefused \/ UnconfirmModel \/ FailModelStepRecorded
               \/ \E failure \in {"TRANSIENT", "PERMANENT"} : ModelFails(failure)
        <3>1. Keeps
            BY <2>1, UnsupportedStageInv, RecordContextInv, ProviderFailsInv, ReserveInv, ReserveRefusedInv,
               UnconfirmModelInv, FailModelStepRecordedInv, ModelFailsInv
        <3> QED
            BY <1>0, <3>1, KeepsStand
    <2>2. CASE \/ RecordTool \/ RecordPending \/ EnterUncertain \/ UnconfirmTool \/ BlameStep
               \/ \E failure \in {"TRANSIENT", "PERMANENT", "UNCERTAIN"}, happened \in BOOLEAN :
                    ToolFails(failure, happened)
        <3>1. Keeps
            BY <2>2, RecordToolInv, RecordPendingInv, EnterUncertainInv, UnconfirmToolInv, BlameStepInv, ToolFailsInv
        <3> QED
            BY <1>0, <3>1, KeepsStand
    <2>3. CASE Provide \/ \E reply \in {"good", "bad", "tool", "derived"} : Respond(reply)
        BY <2>3, ProvideInv, RespondInv, SameStand
    <2> QED
        BY <2>1, <2>2, <2>3
<1>3. run'.status # "SUCCEEDED"
    <2>1. CASE EnterUncertain
        BY <2>1 DEF EnterUncertain, Transition
    <2>2. CASE ~EnterUncertain
        <3>1. run' = run
            BY <2>2 DEF UnsupportedStage, RecordContext, Provide, ProviderFails, Reserve, ReserveRefused, storeVars,
               UnconfirmModel,
               FailModelStepRecorded, RecordTool, RecordPending, UnconfirmTool, BlameStep, Respond, ModelFails,
               ToolFails
        <3>2. call.pc # "idle"
            BY DEF UnsupportedStage, RecordContext, Provide, ProviderFails, Reserve, ReserveRefused, UnconfirmModel,
               FailModelStepRecorded, RecordTool, RecordPending, EnterUncertain, UnconfirmTool, BlameStep, Respond,
               ModelFails, ToolFails
        <3>3. call # Idle
            BY <3>2 DEF Idle
        <3> QED
            BY <3>1, <3>3, Unreleased
    <2> QED
        BY <2>1, <2>2
<1>4. PICK c : c = call'
    OBVIOUS
<1>5. Quiet(c)
    <2>1. CASE \/ Provide \/ UnconfirmModel \/ UnconfirmTool
               \/ \E reply \in {"good", "bad", "tool", "derived"} : Respond(reply)
        BY <1>4, <2>1, ProvideInv, UnconfirmModelInv, UnconfirmToolInv, RespondInv
    <2>2. CASE UnsupportedStage \/ ProviderFails \/ FailModelStepRecorded
        <3>1. c = EndRun("FAILED")
            BY <1>4, <2>2 DEF UnsupportedStage, ProviderFails, FailModelStepRecorded
        <3> QED
            BY <1>0, <3>1, EndRunFields DEF Quiet
    <2>3. CASE RecordContext \/ Reserve \/ RecordTool
        <3>1. c.pc \in {"contextFinal", "model", "toolFinal"}
            BY <1>0, <1>4, <2>3 DEF RecordContext, Reserve, RecordTool, CallOK
        <3> QED
            BY <3>1, PlaceQuiet
    <2>8. CASE ReserveRefused
        BY <1>4, <2>8, ReserveRefusedInv, PlaceQuiet
    <2>4. CASE RecordPending \/ EnterUncertain
        <3>1. c.pc \in {"enterWaiting", "idle"}
            BY <1>4, <2>4, AtFields DEF RecordPending, EnterUncertain, Idle
        <3> QED
            BY <3>1, PlaceQuiet
    <2>5. CASE BlameStep
        <3>1. c.pc = "endRun" /\ c.end = call.end /\ call.pc = "blameStep"
            BY <1>0, <1>4, <2>5 DEF BlameStep, CallOK
        <3> QED
            BY <3>1 DEF Quiet, ApprovalsKept
    <2>6. ASSUME NEW f \in {"TRANSIENT", "PERMANENT"}, ModelFails(f) PROVE Quiet(c)
        <3>1. call.step \in 0..Len(steps) /\ call.purpose \in Purposes
            BY <1>0 DEF CallOK
        <3>2. FailModelStep(call.step, call.purpose).pc = "failModelStep"
            BY <1>0, <3>1, FailModelStepFields
        <3>3. [call EXCEPT !.pc = "reserve"].pc = "reserve"
            BY <1>0 DEF CallOK
        <3>4. c = [call EXCEPT !.pc = "reserve"] \/ c = FailModelStep(call.step, call.purpose)
            BY <1>4, <2>6 DEF ModelFails
        <3>5. c.pc \in {"reserve", "failModelStep"}
            BY <3>2, <3>3, <3>4
        <3> QED
            BY <3>5, PlaceQuiet
    <2>7. ASSUME NEW f \in {"TRANSIENT", "PERMANENT", "UNCERTAIN"}, NEW h \in BOOLEAN, ToolFails(f, h)
          PROVE  Quiet(c)
        <3>1. PICK i : i = call.step
            OBVIOUS
        <3>2. i \in 0..Len(steps)
            BY <1>0, <3>1 DEF CallOK
        <3>6. PICK o : o = IF h THEN effects[Rounds] + 1 ELSE NoOutcome
            OBVIOUS
        <3>3. c \in {At("enterUncertain", i), At("toolGate", i)} \/ c = Blamed(i, o)
            BY <1>4, <2>7, <3>1, <3>6 DEF ToolFails, Blamed
        <3>4. CASE c \in {At("enterUncertain", i), At("toolGate", i)}
            BY <3>4, AtFields, PlaceQuiet
        <3>5. CASE c = Blamed(i, o)
            <4>1. call.pc = "invoke" /\ AtPlace(call)
                BY <2>7 DEF ToolFails, IInv
            <4>2. ~Closed
                BY <4>1 DEF AtPlace, ToolPlaces, AtTool
            <4>3. Rounds \in 1..MaxRounds /\ effects \in [1..MaxRounds -> Nat]
                BY <1>0, <4>2, OpenRound DEF IInv, Types
            <4>4. o \in Int
                BY <3>6, <4>3 DEF NoOutcome
            <4>5. c.pc = "blameStep" /\ c.end = "FAILED"
                BY <1>0, <3>2, <3>5, <4>4, Blaming
            <4> QED
                BY <4>5 DEF Quiet
        <3> QED
            BY <3>3, <3>4, <3>5
    <2> QED
        BY <2>1, <2>2, <2>3, <2>4, <2>5, <2>6, <2>7, <2>8
<1> QED
    BY <1>1, <1>2, <1>3, <1>4, <1>5, QuietApproved

LEMMA CheckpointApprovals == ASSUME IInv, ApprovalsKept, CheckpointTool PROVE ApprovalsKept'
<1>1. PICK i, o, r : i = call.step /\ o = call.outcome /\ r = Rounds
    OBVIOUS
<1>2. Completes(i, <<>>, "none", o) /\ i \in StepsOf("TOOL") \ Done("TOOL") /\ steps[i].key = <<r>>
    BY <1>1, CheckpointToolInv
<1>3. approved' = approved /\ run' = run /\ call # Idle
    BY DEF CheckpointTool, history, Idle
<1>4. <<"TOOL_OUTCOME", <<r, o>>>> \in approved
    BY <1>1 DEF CheckpointTool, ApprovalsKept
<1>5. Done("TOOL")' = Done("TOOL") \cup {i} /\ \A j \in Done("TOOL") : steps'[j] = steps[j]
    BY <1>2 DEF Completes, Done, StepsOf
<1>6. steps'[i].key = <<r>> /\ steps'[i].outcome = o
    BY <1>2 DEF Completes
<1>7. \A j \in Done("TOOL")' : <<"TOOL_OUTCOME", <<steps'[j].key[1], steps'[j].outcome>>>> \in approved'
    BY <1>3, <1>4, <1>5, <1>6 DEF ApprovalsKept
<1>8. PICK c : c = call'
    OBVIOUS
<1>9. Quiet(c)
    BY <1>8, CheckpointToolInv
<1>10. run'.status # "SUCCEEDED"
    BY <1>3, Unreleased
<1> QED
    BY <1>7, <1>8, <1>9, <1>10 DEF ApprovalsKept, Quiet

\* What the gate is asked about is no Tool Checkpoint: the open call has none.
LEMMA AskedAnew ==
    ASSUME IInv, call.pc \in GatePlaces, NEW i \in Done("TOOL")
    PROVE  <<"TOOL_OUTCOME", <<steps[i].key[1], steps[i].outcome>>>> # <<Gates[call.pc], Payload>>
<1>0. Types /\ AtPlace(call)
    BY DEF IInv
<1>1. CASE call.pc \in {"outcomeGate", "continueGate", "confirmGate"}
    <2>1. ~Closed
        BY <1>0, <1>1 DEF AtPlace, ToolPlaces, AtTool
    <2>2. steps[i].key # <<Rounds>>
        BY <2>1 DEF Closed, Answered
    <2>3. steps[i].key = <<steps[i].key[1]>>
        BY <1>0 DEF Types, StepOK, Done, StepsOf
    <2>4. steps[i].key[1] # Rounds
        BY <2>2, <2>3
    <2>5. Payload = <<Rounds, call.outcome>>
        BY <1>1 DEF Payload, Gates
    <2> QED
        BY <2>4, <2>5
<1>2. CASE call.pc \in {"inputGate", "contextGate", "contextFinal", "toolGate", "toolFinal", "outputGate"}
    <2>1. Gates[call.pc] # "TOOL_OUTCOME"
        BY <1>2 DEF Gates
    <2> QED
        BY <2>1
<1> QED
    BY <1>1, <1>2 DEF GatePlaces

LEMMA DecideApprovals ==
    ASSUME IInv, ApprovalsKept, NEW action \in PolicyActions, Decide(action)
    PROVE  ApprovalsKept'
<1>0. Types /\ AtPlace(call) /\ CallOK(call) /\ call.pc \in GatePlaces
    BY GateNames DEF IInv, Decide
<1>1. UNCHANGED <<snapshot, steps, run>>
    BY DEF Decide
<1>2. run'.status # "SUCCEEDED"
    <2>1. call # Idle
        BY <1>0 DEF Idle, GatePlaces
    <2> QED
        BY <1>1, <2>1, Unreleased
<1>3. PICK a : a = <<Gates[call.pc], Payload>>
    OBVIOUS
<1>4. approved' = IF action = "ALLOW" THEN approved \cup {a} ELSE approved \ {a}
    BY <1>3 DEF Decide
<1>5. \A i \in Done("TOOL")' : <<"TOOL_OUTCOME", <<steps'[i].key[1], steps'[i].outcome>>>> \in approved'
    <2>1. Done("TOOL")' = Done("TOOL")
        BY <1>1 DEF Done, StepsOf
    <2>2. ASSUME NEW i \in Done("TOOL")
          PROVE  <<"TOOL_OUTCOME", <<steps[i].key[1], steps[i].outcome>>>> \in approved'
        <3>1. <<"TOOL_OUTCOME", <<steps[i].key[1], steps[i].outcome>>>> # a
            BY <1>0, <1>3, AskedAnew
        <3>2. <<"TOOL_OUTCOME", <<steps[i].key[1], steps[i].outcome>>>> \in approved
            BY DEF ApprovalsKept
        <3> QED
            BY <1>4, <3>1, <3>2
    <2> QED
        BY <1>1, <2>1, <2>2
<1>6. PICK c : c = call'
    OBVIOUS
<1>7. CASE Quiet(c)
    BY <1>2, <1>5, <1>6, <1>7 DEF ApprovalsKept, Quiet
<1>8. CASE action = "ALLOW" /\ call.pc \in GatePlaces \ {"inputGate", "outputGate"} /\ c = Moved(NextPlace[call.pc])
    <2>1. PICK q : q = NextPlace[call.pc]
        OBVIOUS
    <2>2. q \in {"recordContext", "provide", "recordTool", "invoke", "checkpointTool"} /\ q \in Places
          /\ (q = "checkpointTool" => call.pc \in {"outcomeGate", "continueGate", "confirmGate"})
        BY <1>8, <2>1, PlaceNames DEF NextPlace, GatePlaces
    <2>3. c.pc = q /\ c.outcome = call.outcome
        BY <1>0, <1>8, <2>1, <2>2, MovedFields
    <2>4. CASE q # "checkpointTool"
        <3>1. Quiet(c)
            BY <2>2, <2>3, <2>4, PlaceQuiet
        <3> QED
            BY <1>7, <3>1
    <2>5. CASE q = "checkpointTool"
        <3>1. a = <<"TOOL_OUTCOME", <<Rounds, c.outcome>>>>
            BY <1>3, <2>2, <2>3, <2>5 DEF Payload, Gates
        <3>2. Rounds' = Rounds
            BY <1>0, <1>1, StillView DEF SameView
        <3>3. <<"TOOL_OUTCOME", <<Rounds', c.outcome>>>> \in approved'
            BY <1>4, <1>8, <3>1, <3>2
        <3> QED
            BY <1>2, <1>5, <1>6, <2>3, <2>5, <3>3 DEF ApprovalsKept
    <2> QED
        BY <2>4, <2>5
<1>9. CASE action = "ALLOW" /\ call.pc = "outputGate" /\ Succeeding(c, call.step)
    <2>1. c.pc = "endRun" /\ c.step = call.step /\ (snapshot.output # "none" => steps[c.step].reply = "good")
        BY <1>9 DEF Succeeding
    <2>2. c.step \in BusinessDone /\ \A j \in BusinessDone : j <= c.step
        BY <1>0, <1>9, <2>1 DEF AtPlace, AtOutput
    <2>3. a = <<"FINAL_OUTPUT", c.step>>
        BY <1>3, <1>9, <2>1 DEF Payload, Gates
    <2>4. <<"FINAL_OUTPUT", c.step>> \in approved'
        BY <1>4, <1>9, <2>3
    <2>5. BusinessDone' = BusinessDone
        BY <1>0, <1>1, StillView DEF SameView
    <2>6. Released(c.step)'
        BY <1>1, <2>1, <2>2, <2>4, <2>5 DEF Released
    <2>7. Released(call.step)'
        BY <1>6, <2>6 DEF Released
    <2> QED
        BY <1>2, <1>5, <1>6, <2>1, <2>7 DEF ApprovalsKept
<1>10. CASE action = "ALLOW"
    <2>1. c = Passed
        BY <1>6, <1>10 DEF Decide
    <2>2. CASE c = At("start", 0) /\ run.status = "CREATED"
        <3>1. c.pc = "start" /\ run'.status = "CREATED"
            BY <1>1, <2>2, AtFields
        <3> QED
            BY <1>5, <1>6, <3>1 DEF ApprovalsKept
    <2>3. CASE Good(c)
        BY <1>7, <2>3, GoodQuiet
    <2> QED
        BY <1>0, <1>8, <1>9, <1>10, <2>1, <2>2, <2>3, PassedCases
<1>11. CASE action = "REQUIRE_RESOLUTION"
    <2>1. c = Held
        BY <1>6, <1>11 DEF Decide
    <2>2. Quiet(c)
        BY <1>0, <2>1, HeldGood, PlaceQuiet
    <2> QED
        BY <1>7, <2>2
<1>12. CASE action \in {"REJECT", "fault"}
    <2>1. PICK e \in {"REJECTED", "FAILED"} : c = Barred(e)
        BY <1>6, <1>12 DEF Decide
    <2>2. Quiet(c)
        BY <1>0, <2>1, BarredGood DEF Quiet
    <2> QED
        BY <1>7, <2>2
<1> QED
    BY <1>10, <1>11, <1>12 DEF PolicyActions

LEMMA InitApprovals == ASSUME Init PROVE ApprovalsKept
<1>1. call.pc = "idle" /\ run.status = "CREATED" /\ Done("TOOL") = {}
    BY DEF Init, Idle, Done, StepsOf
<1> QED
    BY <1>1 DEF ApprovalsKept

LEMMA StepsApprovals == ASSUME IInv, ApprovalsKept, Steps PROVE ApprovalsKept'
BY CallApprovals, EndApprovals, WriteApprovals, CheckpointApprovals, DecideApprovals DEF Steps

LEMMA StutterApprovals == ASSUME ApprovalsKept, UNCHANGED vars PROVE ApprovalsKept'
<1>1. UNCHANGED <<snapshot, run, steps, call, approved>>
    BY DEF vars
<1>2. BusinessDone' = BusinessDone /\ Rounds' = Rounds /\ Done("TOOL")' = Done("TOOL")
    BY <1>1 DEF BusinessDone, Rounds, Done, StepsOf, ModelSteps, Purpose
<1>3. (\A i : Released(i)' = Released(i)) /\ Released(call.step)' = Released(call.step)
      /\ Released(run.output)' = Released(run.output)
    BY <1>1, <1>2 DEF Released
<1> QED
    BY <1>1, <1>2, <1>3 DEF ApprovalsKept

\* No Tool Outcome becomes a Checkpoint, and no response the Run's output, unless the
\* Policy's latest answer about that very value was ALLOW, through holds, deaths and
\* continuations; the output is the last business response and meets the contract.
THEOREM OnlyApprovedReleased == Spec => []OnlyApproved
<1>1. Init => ApprovalsKept
    BY InitApprovals
<1>2. IInv /\ ApprovalsKept /\ [Next]_vars => ApprovalsKept'
    BY NextSteps, StepsApprovals, StutterApprovals
<1>3. IInv /\ ApprovalsKept => OnlyApproved
    <2> SUFFICES ASSUME IInv, ApprovalsKept PROVE OnlyApproved
        OBVIOUS
    <2>1. ASSUME run.status = "SUCCEEDED"
          PROVE  /\ <<"FINAL_OUTPUT", run.output>> \in approved
                 /\ run.output = Max(BusinessDone)
                 /\ snapshot.output # "none" => steps[run.output].reply = "good"
        <3>1. Released(run.output)
            BY <2>1 DEF ApprovalsKept
        <3>2. BusinessDone \in SUBSET (1..Len(steps)) /\ run.output \in BusinessDone
            BY <3>1, StepSets DEF Released, IInv
        <3>3. PICK m : m = LastOf(BusinessDone)
            OBVIOUS
        <3>4. m \in BusinessDone /\ m = Max(BusinessDone) /\ run.output <= m
            BY <3>2, <3>3, LastSteps DEF IInv
        <3>5. m <= run.output /\ run.output \in 1..Len(steps) /\ m \in 1..Len(steps)
            BY <3>1, <3>2, <3>4 DEF Released
        <3>6. run.output = Max(BusinessDone)
            BY <3>4, <3>5
        <3> QED
            BY <3>1, <3>6 DEF Released
    <2> QED
        BY <2>1 DEF OnlyApproved, ApprovalsKept
<1> QED
    BY <1>1, <1>2, <1>3, Invariant, PTL DEF Spec

------------------------------------------------------------------------------
(* What a compression was made from stays what its contract allows. *)

\* The compression is the one there is.
TheCompression ==
    /\ \A c \in Compressions \cap Done("MODEL") : CompressionStep = c /\ c # 0
    /\ CompressionStep \in Done("MODEL") => CompressionStep \in Compressions

LEMMA OneCompression == Types /\ Journal => TheCompression
<1> SUFFICES ASSUME Types, Journal PROVE TheCompression
    OBVIOUS
<1>1. Compressions \in SUBSET (1..Len(steps)) /\ Done("MODEL") \in SUBSET (1..Len(steps)) /\ Len(steps) \in Nat
    BY StepSets, JournalDomain DEF Compressions
<1>2. /\ CompressionStep = 0 <=> Compressions = {}
      /\ Compressions # {} => CompressionStep \in Compressions
    BY CompressionIs
<1>3. ASSUME NEW c \in Compressions PROVE CompressionStep = c /\ c # 0
    BY <1>1, <1>2 DEF Journal
<1>4. CompressionStep \in Done("MODEL") => CompressionStep \in Compressions
    BY <1>1, <1>2
<1> QED
    BY <1>3, <1>4 DEF TheCompression

LEMMA OneCompressionNext == (Types /\ Journal => TheCompression)'
BY OneCompression, PTL

\* Which Steps a step leaves as they are, Checkpoints and all.
LEMMA StepsKeep ==
    ASSUME IInv, Steps
    PROVE  \/ Keeps \/ Provide \/ CheckpointTool
           \/ \E reply \in {"good", "bad", "tool", "derived"} : Respond(reply)
<1>1. CASE UNCHANGED <<snapshot, steps>>
    BY <1>1 DEF Keeps, SameCheckpoint
<1>2. CASE \/ StartRun \/ ResumeRun \/ Start \/ EnterWaitingPolicy \/ End \/ Crash
           \/ ContinueRun \/ RetryStep \/ ConfirmStep \/ Invoke
           \/ \E action \in PolicyActions : Decide(action)
           \/ \E status \in {"FAILED", "CANCELLED"} : EndWaiting(status)
    <2>1. UNCHANGED <<snapshot, steps>>
        BY <1>2 DEF StartRun, ResumeRun, Start, EnterWaitingPolicy, End, Crash, ContinueRun, RetryStep, ConfirmStep,
           Invoke, Decide, EndWaiting, storeVars
    <2> QED
        BY <1>1, <2>1
<1>3. CASE \/ UnsupportedStage \/ RecordContext \/ ProviderFails \/ Reserve \/ ReserveRefused \/ UnconfirmModel
           \/ FailModelStepRecorded \/ \E failure \in {"TRANSIENT", "PERMANENT"} : ModelFails(failure)
    BY <1>3, UnsupportedStageInv, RecordContextInv, ProviderFailsInv, ReserveInv, ReserveRefusedInv, UnconfirmModelInv,
       FailModelStepRecordedInv, ModelFailsInv
<1>4. CASE \/ RecordTool \/ RecordPending \/ EnterUncertain \/ UnconfirmTool \/ BlameStep
           \/ \E failure \in {"TRANSIENT", "PERMANENT", "UNCERTAIN"}, happened \in BOOLEAN :
                ToolFails(failure, happened)
    BY <1>4, RecordToolInv, RecordPendingInv, EnterUncertainInv, UnconfirmToolInv, BlameStepInv, ToolFailsInv
<1> QED
    BY <1>2, <1>3, <1>4 DEF Steps

LEMMA CompressionsStay ==
    ASSUME Types, Keeps
    PROVE  /\ Compressions \subseteq Compressions'
           /\ (Compressions \cap Done("MODEL"))' = Compressions \cap Done("MODEL")
           /\ \A c \in Done("MODEL") : steps'[c].items = steps[c].items
<1>1. Done("MODEL")' = Done("MODEL")
    BY DoneKept
<1>2. \A j \in DOMAIN steps : j \in DOMAIN steps' /\ steps'[j].type = steps[j].type /\ steps'[j].key = steps[j].key
                              /\ steps'[j].items = steps[j].items
    BY DEF Keeps, SameCheckpoint
<1>3. Compressions \subseteq Compressions'
    BY <1>2 DEF Compressions, ModelSteps, Purpose, StepsOf
<1>4. \A c \in Done("MODEL") : c \in Compressions' <=> c \in Compressions
    BY <1>2 DEF Compressions, ModelSteps, Purpose, StepsOf, Done
<1> QED
    BY <1>1, <1>2, <1>3, <1>4 DEF Done, StepsOf

\* A response or a Tool Outcome leaves what Stages returned alone.
LEMMA ContextsUntouched ==
    ASSUME Types, snapshot' = snapshot, NEW i \in DOMAIN steps, NEW it, NEW re, NEW o,
           Completes(i, it, re, o), steps[i].type # "CONTEXT"
    PROVE  StageResults' = StageResults /\ Compressible' = Compressible /\ OnlyInput' = OnlyInput
           /\ Compressions' = Compressions
<1>1. Done("CONTEXT")' = Done("CONTEXT")
    BY DEF Completes
<1>2. \A j \in Done("CONTEXT") : steps'[j] = steps[j]
    BY DEF Completes, Done, StepsOf
<1>3. StageResults' = StageResults /\ OnlyInput' = OnlyInput
    BY <1>1, <1>2 DEF StageResults, OnlyInput
<1>4. Compressible' = Compressible
    BY <1>3 DEF Compressible
<1>5. \A j \in DOMAIN steps : steps'[j].key = steps[j].key
    BY DEF Completes
<1>6. StepsOf("MODEL")' = StepsOf("MODEL") /\ \A j \in StepsOf("MODEL") : j \in DOMAIN steps
    BY DEF Completes, StepsOf
<1>7. Compressions' = Compressions
    BY <1>5, <1>6 DEF Compressions, ModelSteps, Purpose
<1> QED
    BY <1>3, <1>4, <1>7

\* What Provide is about: a Stage that was due, at this point of the loop.
LEMMA ProvidedStage ==
    ASSUME IInv, Provide
    PROVE  \E n \in DOMAIN Plan, sc \in Scopes :
              /\ Plan[n].scope = sc /\ n \in Due(sc)
              /\ steps[call.step].key = StageKey(Plan[n])
              /\ sc = "TOOL_OUTCOME" => ToolBoundary > 0
<1>1. PICK b : b = call
    OBVIOUS
<1>2. AtStage(b) /\ b.step # 0
    BY <1>1 DEF IInv, AtPlace, StagePlaces, Provide, AtStage
<1>3. PICK n \in Due(b.stage.scope) : b.stage = Plan[n]
    BY <1>2 DEF AtStage
<1>4. PICK sc : sc = b.stage.scope
    OBVIOUS
<1>5. n \in DOMAIN Plan /\ Plan[n].scope = sc /\ sc \in Scopes /\ n \in Due(sc)
    BY <1>2, <1>3, <1>4 DEF Due, StagesForScope, AtStage
<1>6. steps[call.step].key = StageKey(Plan[n]) /\ (sc = "TOOL_OUTCOME" => ToolBoundary > 0)
    BY <1>1, <1>2, <1>3, <1>4 DEF AtStage
<1> QED
    BY <1>5, <1>6

LEMMA ProvideEvidence ==
    ASSUME IInv, EvidenceKept, Provide
    PROVE  EvidenceKept'
<1>0. Types /\ Journal
    BY DEF IInv
<1>1. PICK i, it : i = call.step /\ it = Provided
    OBVIOUS
<1>2. SameModels /\ SameTools /\ Completes(i, it, "none", NoOutcome) /\ i \in StepsOf("CONTEXT") \ Done("CONTEXT")
    BY <1>1, ProvideInv
<1>3. snapshot' = snapshot
    BY DEF Provide
<1>4. Compressions' = Compressions /\ Done("MODEL")' = Done("MODEL")
    BY <1>2, ModelsKept
<1>5. \A c \in Done("MODEL") : steps'[c] = steps[c]
    BY <1>2 DEF SameModels, Done
<1> SUFFICES ASSUME NEW c \in Compressions \cap Done("MODEL") PROVE Compressible' = Compressible
    BY <1>4, <1>5 DEF EvidenceKept
<1>6. InputDone /\ ModelBoundary # 0
    <2>1. c \in StepsOf("MODEL") /\ Done("MODEL") \in SUBSET (1..Len(steps))
        BY <1>0, StepSets DEF Done
    <2> QED
        BY <1>0, <2>1, FiniteSteps DEF Journal, ModelBoundary
<1>7. PICK n \in DOMAIN Plan, sc \in Scopes :
            /\ Plan[n].scope = sc /\ n \in Due(sc) /\ steps[i].key = StageKey(Plan[n])
            /\ sc = "TOOL_OUTCOME" => ToolBoundary > 0
    BY <1>1, ProvidedStage
<1>8. sc # "RUN_INPUT"
    BY <1>6, <1>7 DEF InputDone
<1>9. /\ steps[i].key[2] = sc /\ steps[i].key[3] = Boundary(Plan[n])
    BY <1>7 DEF StageKey
<1>10. PICK r, q : r = StageResults /\ q = StageResults'
    OBVIOUS
<1>11. /\ DOMAIN r = Done("CONTEXT") /\ DOMAIN q = Done("CONTEXT") \cup {i} /\ i \notin DOMAIN r
       /\ \A j \in Done("CONTEXT") : q[j] = r[j]
       /\ q[i].scope = sc /\ q[i].boundary = Boundary(Plan[n])
    <2>1. Done("CONTEXT")' = Done("CONTEXT") \cup {i}
        BY <1>2 DEF Completes, StepsOf
    <2>2. \A j \in Done("CONTEXT") : steps'[j] = steps[j]
        BY <1>2 DEF Completes, Done, StepsOf
    <2>3. steps'[i].key = steps[i].key
        BY <1>2 DEF Completes
    <2> QED
        BY <1>2, <1>9, <1>10, <2>1, <2>2, <2>3 DEF StageResults
<1>12. FrameResults(q, 0, 0) = FrameResults(r, 0, 0)
    <2>1. CASE sc = "TOOL_OUTCOME"
        <3>1. q[i].boundary = ToolBoundary /\ ToolBoundary > 0 /\ ToolBoundary \in Nat
            <4>1. Done("TOOL") \in SUBSET (1..Len(steps))
                BY <1>0, StepSets
            <4> QED
                BY <1>0, <1>7, <1>11, <2>1, <4>1, FiniteSteps DEF Boundary, ToolBoundary
        <3>2. ~(q[i].boundary <= 0)
            BY <3>1
        <3> QED
            BY <1>11, <2>1, <3>2 DEF FrameResults
    <2>2. CASE sc = "MODEL_STEP"
        <3>1. q[i].boundary # 0
            BY <1>6, <1>7, <1>11, <2>2 DEF Boundary
        <3> QED
            BY <1>11, <2>2, <3>1 DEF FrameResults
    <2> QED
        BY <1>8, <2>1, <2>2 DEF Scopes
<1> QED
    BY <1>3, <1>10, <1>12 DEF Compressible, CompressibleItems, AggregateFrameItems

LEMMA RespondEvidence ==
    ASSUME IInv, EvidenceKept, NEW re \in {"good", "bad", "tool", "derived"}, Respond(re)
    PROVE  EvidenceKept'
<1>0. Types /\ AtPlace(call) /\ call.pc = "model"
    BY DEF IInv, Respond
<1>1. PICK i, p, it : i = call.step /\ p = call.purpose /\ it = IF re = "derived" THEN Compressible ELSE <<>>
    OBVIOUS
<1>2. Completes(i, it, re, NoOutcome)
    BY <1>1, RespondInv
<1>3. i \in ModelSteps(p) \ Done("MODEL")
    BY <1>0, <1>1 DEF AtPlace, ModelPlaces, AtModel
<1>4. i \in DOMAIN steps /\ steps[i].type = "MODEL" /\ Purpose(i) = p /\ snapshot' = snapshot
    BY <1>3 DEF ModelSteps, StepsOf, Respond
<1>5. Compressible' = Compressible /\ Compressions' = Compressions
    BY <1>0, <1>2, <1>4, ContextsUntouched
<1>6. i \in Compressions => it = Compressible
    BY <1>1, <1>4 DEF Compressions, ModelSteps, Respond
<1>7. steps'[i].items = it /\ \A j \in DOMAIN steps : j # i => steps'[j] = steps[j]
    BY <1>2 DEF Completes
<1>8. Done("MODEL")' = Done("MODEL") \cup {i} /\ \A j \in Done("MODEL") : j \in DOMAIN steps
    BY <1>2, <1>4 DEF Completes, Done, StepsOf
<1> QED
    BY <1>5, <1>6, <1>7, <1>8 DEF EvidenceKept

LEMMA CheckpointEvidence ==
    ASSUME IInv, EvidenceKept, CheckpointTool
    PROVE  EvidenceKept'
<1>0. Types
    BY DEF IInv
<1>1. PICK i, o : i = call.step /\ o = call.outcome
    OBVIOUS
<1>2. Completes(i, <<>>, "none", o) /\ SameModels /\ i \in StepsOf("TOOL")
    BY <1>1, CheckpointToolInv
<1>3. i \in DOMAIN steps /\ steps[i].type = "TOOL" /\ snapshot' = snapshot
    BY <1>2 DEF StepsOf, CheckpointTool
<1>4. Compressible' = Compressible
    BY <1>0, <1>2, <1>3, ContextsUntouched
<1>5. Compressions' = Compressions /\ Done("MODEL")' = Done("MODEL") /\ \A c \in Done("MODEL") : steps'[c] = steps[c]
    BY <1>2, ModelsKept DEF SameModels, Done
<1> QED
    BY <1>4, <1>5 DEF EvidenceKept

LEMMA KeepsEvidence == ASSUME Types, Keeps, EvidenceKept PROVE EvidenceKept'
<1>1. Compressible' = Compressible
    BY ViewKept DEF SameView
<1>2. /\ (Compressions \cap Done("MODEL"))' = Compressions \cap Done("MODEL")
      /\ \A c \in Done("MODEL") : steps'[c].items = steps[c].items
    BY CompressionsStay
<1> QED
    BY <1>1, <1>2 DEF EvidenceKept

LEMMA StutterKeeps == ASSUME UNCHANGED vars PROVE Keeps
BY DEF vars, Keeps, SameCheckpoint

\* The Run's own compression evidence never comes to disagree with the frozen contract:
\* the items a compression was made from are the ones the contract allows at every later
\* point, whatever Stages are read in between, so a later request finds it valid.
THEOREM EvidenceStaysValid == Spec => []EvidenceRevalidates
<1>1. Init => EvidenceKept
    BY DEF Init, EvidenceKept, Done, StepsOf
<1>2. IInv /\ EvidenceKept /\ [Next]_vars => EvidenceKept'
    <2>1. ASSUME IInv, EvidenceKept, Keeps PROVE EvidenceKept'
        BY <2>1, KeepsEvidence DEF IInv
    <2> QED
        BY <2>1, NextSteps, StepsKeep, StutterKeeps, ProvideEvidence, RespondEvidence, CheckpointEvidence
<1>3. IInv /\ EvidenceKept => EvidenceRevalidates
    <2>1. IInv => TheCompression
        BY OneCompression DEF IInv
    <2> QED
        BY <2>1 DEF TheCompression, EvidenceKept, EvidenceRevalidates
<1> QED
    BY <1>1, <1>2, <1>3, Invariant, PTL DEF Spec

------------------------------------------------------------------------------
(* Requests at one point of the loop carry the same Frame. *)

\* A Checkpoint that does not appear leaves the Frame of this point as it is.
LEMMA FrameItemsKept ==
    ASSUME Types, Journal, Types', Journal', Keeps
    PROVE  FrameItems' = FrameItems
<1>1. StageResults' = StageResults /\ ToolBoundary' = ToolBoundary /\ ModelBoundary' = ModelBoundary
      /\ Done("MODEL")' = Done("MODEL")
    BY ViewKept DEF SameView
<1>2. TheCompression /\ TheCompression'
    BY OneCompression, OneCompressionNext
<1>3. /\ (Compressions \cap Done("MODEL"))' = Compressions \cap Done("MODEL")
      /\ \A c \in Done("MODEL") : steps'[c].items = steps[c].items
    BY CompressionsStay
<1>4. PICK a : a = AggregateFrameItems(StageResults, ToolBoundary, ModelBoundary)
    OBVIOUS
<1>5. AggregateFrameItems(StageResults, ToolBoundary, ModelBoundary)' = a
    BY <1>1, <1>4
<1>6. CASE Compressions \cap Done("MODEL") = {}
    <2>1. CompressionStep \notin Done("MODEL") /\ CompressionStep' \notin Done("MODEL")'
        BY <1>2, <1>3, <1>6 DEF TheCompression
    <2> QED
        BY <1>4, <1>5, <2>1 DEF FrameItems
<1>7. ASSUME NEW c \in Compressions \cap Done("MODEL") PROVE FrameItems' = FrameItems
    <2>1. CompressionStep = c /\ CompressionStep' = c /\ c # 0 /\ c \in Done("MODEL") /\ c \in Done("MODEL")'
        BY <1>1, <1>2, <1>3 DEF TheCompression
    <2>2. steps'[c].items = steps[c].items
        BY <1>3
    <2> QED
        BY <1>4, <1>5, <2>1, <2>2 DEF FrameItems
<1> QED
    BY <1>6, <1>7

LEMMA KeepsFrame ==
    ASSUME IInv, IInv', Keeps, NEW f, FrameKept(f)
    PROVE  FrameKept(f)'
<1>1. Types /\ Journal /\ Types' /\ Journal'
    BY DEF IInv
<1>2. /\ ToolBoundary' = ToolBoundary /\ ModelBoundary' = ModelBoundary /\ Settled' = Settled
      /\ OnlyInput' = OnlyInput /\ Compressible' = Compressible
    BY <1>1, ViewKept DEF SameView
<1>3. FrameItems' = FrameItems /\ Compressions \subseteq Compressions'
    BY <1>1, FrameItemsKept, CompressionsStay
<1> QED
    BY <1>2, <1>3 DEF FrameKept

LEMMA KeepsFrames ==
    ASSUME IInv, IInv', Keeps, FramesKept, sent' = sent
    PROVE  FramesKept'
<1>1. \A f \in sent : FrameKept(f)
    BY DEF FramesKept
<1>2. \A f \in sent : FrameKept(f)'
    BY <1>1, KeepsFrame
<1>3. FrameStable'
    BY DEF FramesKept, FrameStable
<1> QED
    BY <1>2, <1>3 DEF FramesKept

LEMMA ReserveFrames ==
    ASSUME IInv, IInv', FramesKept, Reserve
    PROVE  FramesKept'
<1>0. Types /\ Types' /\ Journal /\ Journal' /\ AtPlace(call) /\ CallOK(call) /\ call.pc = "reserve"
    BY DEF IInv, Reserve
<1>1. Keeps
    BY ReserveInv
<1>2. PICK p, g : p = call.purpose /\ g = [purpose |-> p, tools |-> Cardinality(Done("TOOL")),
                                           models |-> Cardinality(Done("MODEL")), items |-> RequestItems(p)]
    OBVIOUS
<1>3. sent' = sent \cup {g}
    BY <1>2 DEF Reserve
<1>4. /\ g.purpose = p /\ g.tools = ToolBoundary /\ g.models = ModelBoundary /\ g.items = RequestItems(p)
      /\ p \in Purposes
    BY <1>0, <1>2 DEF ToolBoundary, ModelBoundary, CallOK
<1>5. /\ p = "PRIMARY" => Settled
      /\ p = "CONTEXT_COMPRESSION" => OnlyInput
    BY <1>0, <1>2 DEF AtPlace, ModelPlaces, AtModel
<1>6. g.items = IF p = "PRIMARY" THEN FrameItems ELSE IF p = "CONTEXT_COMPRESSION" THEN Compressible ELSE <<>>
    BY <1>4 DEF RequestItems, Purposes
<1>7. ToolBoundary \in Nat /\ ModelBoundary \in Nat
    <2>1. Done("TOOL") \in SUBSET (1..Len(steps)) /\ Done("MODEL") \in SUBSET (1..Len(steps))
        BY <1>0, StepSets
    <2> QED
        BY <1>0, <2>1, FiniteSteps DEF ToolBoundary, ModelBoundary
<1>8. FrameKept(g)'
    <2>1. /\ ToolBoundary' = ToolBoundary /\ ModelBoundary' = ModelBoundary /\ Settled' = Settled
          /\ OnlyInput' = OnlyInput /\ Compressible' = Compressible /\ FrameItems' = FrameItems
        BY <1>0, <1>1, ViewKept, FrameItemsKept DEF SameView
    <2>2. p = "CONTEXT_COMPRESSION" => Compressions' # {}
        <3>1. PICK c : c = call'
            OBVIOUS
        <3>2. c.pc = "model" /\ c.purpose = p
            BY <1>0, <1>2, <3>1 DEF Reserve, CallOK
        <3>3. AtModel(c)'
            BY <3>1, <3>2 DEF IInv, AtPlace, ModelPlaces
        <3>4. c.step \in ModelSteps(p)'
            BY <3>2, <3>3 DEF AtModel
        <3> QED
            BY <3>4 DEF Compressions
    <2> QED
        BY <1>4, <1>5, <1>6, <1>7, <2>1, <2>2 DEF FrameKept
<1>9. \A f \in sent : FrameKept(f) /\ FrameKept(f)'
    BY <1>1, KeepsFrame DEF FramesKept
<1>10. ASSUME NEW f \in sent, f.purpose = g.purpose, f.tools = g.tools, f.models = g.models
       PROVE  f.items = g.items
    <2>1. FrameKept(f)
        BY <1>9
    <2>2. CASE p = "PRIMARY"
        BY <1>4, <1>6, <1>10, <2>1, <2>2 DEF FrameKept
    <2>3. CASE p = "CONTEXT_COMPRESSION"
        BY <1>4, <1>5, <1>6, <1>10, <2>1, <2>3 DEF FrameKept
    <2>4. CASE p = "OUTPUT_REPAIR"
        BY <1>4, <1>6, <1>10, <2>1, <2>4 DEF FrameKept
    <2> QED
        BY <1>4, <2>2, <2>3, <2>4 DEF Purposes
<1>11. FrameStable'
    <2>1. FrameStable
        BY DEF FramesKept
    <2> QED
        BY <1>3, <1>10, <2>1 DEF FrameStable
<1> QED
    BY <1>3, <1>8, <1>9, <1>11 DEF FramesKept

\* A Stage that is due has kept every business request of this point from being sent.
LEMMA ProvideFrames ==
    ASSUME IInv, FramesKept, Provide
    PROVE  FramesKept'
<1>0. Types /\ Journal
    BY DEF IInv
<1>1. PICK i, it : i = call.step /\ it = Provided
    OBVIOUS
<1>2. SameModels /\ SameTools /\ Completes(i, it, "none", NoOutcome) /\ i \in StepsOf("CONTEXT") \ Done("CONTEXT")
    BY <1>1, ProvideInv
<1>3. snapshot' = snapshot /\ sent' = sent
    BY DEF Provide, history
<1>4. PICK n \in DOMAIN Plan, sc \in Scopes :
            /\ Plan[n].scope = sc /\ n \in Due(sc) /\ steps[i].key = StageKey(Plan[n])
            /\ sc = "TOOL_OUTCOME" => ToolBoundary > 0
    BY <1>1, ProvidedStage
<1>5. ~Settled
    BY <1>4 DEF Settled, InputDone, Scopes
<1>6. ToolBoundary' = ToolBoundary /\ ModelBoundary' = ModelBoundary /\ Compressions' = Compressions
    BY <1>2, <1>3, LoopPointKept, ModelsKept
<1>7. Compressions # {} => ~OnlyInput'
    <2>1. ASSUME NEW c \in Compressions PROVE ~OnlyInput'
        <3>1. c \in StepsOf("MODEL")
            BY DEF Compressions, ModelSteps
        <3>2. InputDone
            BY <1>0, <3>1 DEF Journal
        <3>3. sc # "RUN_INPUT"
            BY <1>4, <3>2 DEF InputDone
        <3>4. steps'[i].key[2] = sc
            BY <1>2, <1>4 DEF Completes, StageKey
        <3>5. i \in Done("CONTEXT")'
            BY <1>2 DEF Completes, StepsOf
        <3> QED
            BY <3>3, <3>4, <3>5 DEF OnlyInput
    <2> QED
        BY <2>1
<1>8. ASSUME NEW f \in sent PROVE FrameKept(f)'
    <2>1. FrameKept(f)
        BY DEF FramesKept
    <2> QED
        BY <1>5, <1>6, <1>7, <2>1 DEF FrameKept
<1>9. FrameStable'
    BY <1>3 DEF FramesKept, FrameStable
<1> QED
    BY <1>3, <1>8, <1>9 DEF FramesKept

\* A response or a Tool Outcome begins a new point of the loop, where nothing has been
\* sent yet.
LEMMA NewPointFrames ==
    ASSUME Types, FramesKept, snapshot' = snapshot, sent' = sent,
           NEW i \in DOMAIN steps, NEW it, NEW re, NEW o, Completes(i, it, re, o),
           ~steps[i].done, steps[i].type \in {"MODEL", "TOOL"}
    PROVE  FramesKept'
<1>1. Compressible' = Compressible /\ OnlyInput' = OnlyInput /\ Compressions' = Compressions
    BY ContextsUntouched
<1>2. PICK t \in {"MODEL", "TOOL"} : t = steps[i].type
    OBVIOUS
<1>3. Done(t)' = Done(t) \cup {i} /\ i \notin Done(t) /\ \A u : u # t => Done(u)' = Done(u)
    BY <1>2 DEF Completes, Done
<1>4. \A u : IsFiniteSet(Done(u)) /\ Cardinality(Done(u)) \in Nat
    BY StepSets, FiniteSteps
<1>5. Cardinality(Done(t)') = Cardinality(Done(t)) + 1
    BY <1>3, <1>4, FS_AddElement
<1>6. /\ ToolBoundary \in Nat /\ ModelBoundary \in Nat
      /\ ToolBoundary' = IF t = "TOOL" THEN ToolBoundary + 1 ELSE ToolBoundary
      /\ ModelBoundary' = IF t = "MODEL" THEN ModelBoundary + 1 ELSE ModelBoundary
    BY <1>3, <1>4, <1>5 DEF ToolBoundary, ModelBoundary
<1>7. ASSUME NEW f \in sent PROVE FrameKept(f)'
    <2>1. FrameKept(f)
        BY DEF FramesKept
    <2>2. f.tools \in 0..ToolBoundary' /\ f.models \in 0..ModelBoundary'
        BY <1>6, <2>1 DEF FrameKept
    <2>3. ~(f.tools = ToolBoundary' /\ f.models = ModelBoundary')
        BY <1>6, <2>1 DEF FrameKept
    <2> QED
        BY <1>1, <2>1, <2>2, <2>3 DEF FrameKept
<1>8. FrameStable'
    BY DEF FramesKept, FrameStable
<1> QED
    BY <1>7, <1>8 DEF FramesKept

LEMMA StepsFrames == ASSUME IInv, FramesKept, Steps PROVE FramesKept'
<1>0. IInv' /\ Types
    BY StepsInv DEF IInv
<1>1. CASE Reserve
    BY <1>0, <1>1, ReserveFrames
<1>2. CASE Provide
    BY <1>2, ProvideFrames
<1>3. ASSUME NEW re \in {"good", "bad", "tool", "derived"}, Respond(re) PROVE FramesKept'
    <2>1. PICK i, p, it : i = call.step /\ p = call.purpose /\ it = IF re = "derived" THEN Compressible ELSE <<>>
        OBVIOUS
    <2>2. Completes(i, it, re, NoOutcome)
        BY <1>3, <2>1, RespondInv
    <2>3. i \in ModelSteps(p) \ Done("MODEL")
        BY <1>3, <2>1 DEF IInv, Respond, AtPlace, ModelPlaces, AtModel
    <2>4. i \in DOMAIN steps /\ steps[i].type = "MODEL" /\ ~steps[i].done
        BY <2>3 DEF ModelSteps, StepsOf, Done
    <2>5. snapshot' = snapshot /\ sent' = sent
        BY <1>3 DEF Respond, history
    <2> QED
        BY <1>0, <2>2, <2>4, <2>5, NewPointFrames
<1>4. CASE CheckpointTool
    <2>1. PICK i, o : i = call.step /\ o = call.outcome
        OBVIOUS
    <2>2. Completes(i, <<>>, "none", o) /\ i \in StepsOf("TOOL") \ Done("TOOL")
        BY <1>4, <2>1, CheckpointToolInv
    <2>3. i \in DOMAIN steps /\ steps[i].type = "TOOL" /\ ~steps[i].done
        BY <2>2 DEF StepsOf, Done
    <2>4. snapshot' = snapshot /\ sent' = sent
        BY <1>4 DEF CheckpointTool, history
    <2> QED
        BY <1>0, <2>2, <2>3, <2>4, NewPointFrames
<1>5. CASE Keeps /\ ~Reserve
    <2>1. sent' = sent
        BY <1>5 DEF Steps, StartRun, ResumeRun, Start, EnterWaitingPolicy, End, Crash, ContinueRun, RetryStep,
           ConfirmStep, RecordPending, BlameStep, UnsupportedStage, RecordContext, Provide, ProviderFails,
           ReserveRefused, UnconfirmModel, FailModelStepRecorded, RecordTool, Invoke, EnterUncertain, UnconfirmTool,
           CheckpointTool, Decide, EndWaiting, Respond, ModelFails, ToolFails, history
    <2> QED
        BY <1>0, <1>5, <2>1, KeepsFrames
<1> QED
    BY <1>1, <1>2, <1>3, <1>4, <1>5, StepsKeep

\* Facts are read once: however often, and by however many calls, a request for one
\* purpose is sent at one point of the loop, it carries the same items, although the
\* provider answers differently at every reading.
THEOREM FramesAreStable == Spec => []FrameStable
<1>1. Init => FramesKept
    BY DEF Init, FramesKept, FrameStable
<1>2. IInv /\ IInv' /\ FramesKept /\ [Next]_vars => FramesKept'
    <2>1. ASSUME IInv, IInv', FramesKept, UNCHANGED vars PROVE FramesKept'
        <3>1. sent' = sent
            BY <2>1 DEF vars
        <3> QED
            BY <2>1, <3>1, StutterKeeps, KeepsFrames
    <2> QED
        BY <2>1, NextSteps, StepsFrames
<1>3. FramesKept => FrameStable
    BY DEF FramesKept
<1> QED
    BY <1>1, <1>2, <1>3, Invariant, PTL DEF Spec

------------------------------------------------------------------------------
(* The Run row. *)

\* A Run that is being started was not started before; the transition table, which
\* transition_run consults and Transition leaves out, forbids nothing the calls ask for.
FollowsTable == [][run' # run => LegalTransition(run.status, run'.status)]_vars

LEMMA StepLegal ==
    ASSUME IInv, ApprovalsKept, Steps
    PROVE  run' # run => LegalTransition(run.status, run'.status)
<1>0. Driving /\ Waiting /\ AtPlace(call) /\ CallOK(call) /\ run.status \in RunStatuses
    BY DEF IInv, Types, RunOK
<1>1. CASE run' = run
    BY <1>1
<1>2. CASE Start
    <2>1. run.status = "CREATED" /\ run'.status = "RUNNING"
        BY <1>2 DEF Start, Transition, ApprovalsKept
    <2> QED
        BY <1>0, <2>1 DEF LegalTransition, AllowedTransitions
<1>3. CASE EnterWaitingPolicy
    <2>1. call # Idle /\ run'.status = "WAITING"
        BY <1>3 DEF EnterWaitingPolicy, Transition, Idle
    <2>2. run.status \in {"CREATED", "RUNNING"}
        BY <1>0, <2>1 DEF Driving
    <2> QED
        BY <1>0, <2>1, <2>2 DEF LegalTransition, AllowedTransitions
<1>4. CASE EnterUncertain
    <2>1. run.status = "RUNNING" /\ run'.status = "WAITING"
        BY <1>0, <1>4 DEF EnterUncertain, Transition, Driving
    <2> QED
        BY <1>0, <2>1 DEF LegalTransition, AllowedTransitions
<1>5. CASE End
    <2>1. call # Idle /\ run'.status = call.end /\ call.pc = "endRun" /\ call.end \in Ends \ {"none"}
        BY <1>0, <1>5 DEF End, Transition, Idle, AtPlace, CallOK
    <2>2. run.status \in {"CREATED", "RUNNING"}
        BY <1>0, <2>1 DEF Driving
    <2>3. CASE call.end = "SUCCEEDED"
        <3>1. Released(call.step)
            BY <2>1, <2>3 DEF ApprovalsKept
        <3>2. call.step \in DOMAIN steps
            BY <3>1 DEF Released, BusinessDone, Done, StepsOf
        <3>3. run.status # "CREATED"
            BY <1>0, <3>2 DEF Waiting
        <3> QED
            BY <1>0, <2>1, <2>2, <2>3, <3>3 DEF LegalTransition, AllowedTransitions
    <2>4. CASE call.end \in {"FAILED", "REJECTED"}
        BY <1>0, <2>1, <2>2, <2>4 DEF LegalTransition, AllowedTransitions
    <2> QED
        BY <2>1, <2>3, <2>4 DEF Ends
<1>6. CASE ContinueRun \/ RetryStep \/ ConfirmStep \/ \E status \in {"FAILED", "CANCELLED"} : EndWaiting(status)
    <2>1. run.status = "WAITING" /\ run'.status \in {"RUNNING", "FAILED", "CANCELLED"}
        BY <1>6 DEF ContinueRun, RetryStep, ConfirmStep, EndWaiting, Transition
    <2> QED
        BY <1>0, <2>1 DEF LegalTransition, AllowedTransitions
<1>7. \/ run' = run \/ Start \/ EnterWaitingPolicy \/ EnterUncertain \/ End \/ ContinueRun \/ RetryStep \/ ConfirmStep
      \/ \E status \in {"FAILED", "CANCELLED"} : EndWaiting(status)
    BY DEF Steps, StartRun, ResumeRun, Crash, RecordPending, BlameStep, UnsupportedStage, RecordContext, Provide,
       ProviderFails, Reserve, ReserveRefused, UnconfirmModel, FailModelStepRecorded, RecordTool, Invoke, UnconfirmTool,
       CheckpointTool, Decide, Respond, ModelFails, ToolFails, storeVars
<1> QED
    BY <1>1, <1>2, <1>3, <1>4, <1>5, <1>6, <1>7

\* Whatever the gates answer, whatever fails and whenever a call dies, the row of a
\* gated Run changes only along the transition table, so that transition_run refuses
\* none of these writes; in particular a Run that has ended is never written again.
THEOREM TransitionsAreLegal == Spec => FollowsTable
<1>1. Init => ApprovalsKept
    BY InitApprovals
<1>2. IInv /\ ApprovalsKept /\ [Next]_vars => ApprovalsKept'
    BY NextSteps, StepsApprovals, StutterApprovals
<1>3. IInv /\ ApprovalsKept /\ [Next]_vars => [run' # run => LegalTransition(run.status, run'.status)]_vars
    BY NextSteps, StepLegal DEF vars
<1> QED
    BY <1>1, <1>2, <1>3, Invariant, PTL DEF Spec, FollowsTable

=============================================================================
