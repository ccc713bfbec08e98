------------------------ MODULE DurableEffectsProofs ------------------------
(***************************************************************************)
(* Proofs about the effects of tool calls in DurableRun, for a model that  *)
(* never reuses a call_id: a Run that waits on an uncertain effect points  *)
(* at the Step of the call a resolution would act on, a confirmed call is  *)
(* never dispatched again, the model is asked again only with all calls    *)
(* answered, and a NON_IDEMPOTENT effect happens at most once plus once    *)
(* for every RETRY_STEP.                                                   *)
(*                                                                         *)
(* Journal relates the Steps to each other, Works says what the call that  *)
(* is let through knows of them, and Covers says where the journal keeps   *)
(* the trace of an effect that may have happened.                          *)
(***************************************************************************)
EXTENDS DurableRunProofs

RunningTools == {i \in StepsOf("TOOL") : steps[i].status = "RUNNING"}
Confirmed == {steps[i].call : i \in Checkpointed("TOOL")}

\* Model Steps without a Checkpoint whose response may have arrived.
Received == {"RUNNING", "SUCCEEDED", "UNCONFIRMED"}
OpenModels == {i \in StepsOf("MODEL") \ Checkpointed("MODEL") : HasAttempt(i, Received)}

\* The Step, without a Checkpoint, of the first call that is not confirmed.
Target(i) ==
    /\ i \in StepsOf("TOOL") /\ steps[i].out = NoOut
    /\ Unconfirmed # {} /\ steps[i].call = First(Unconfirmed)

\* Calls belong to a checkpointed response; at most one Tool Step is RUNNING, and
\* it is the target; an open Model Step is the last one, and nothing of the
\* response before it is left over; a Run waits on the target.
Journal ==
    /\ \A i \in StepsOf("TOOL") : steps[i].call[1] <= Cardinality(Checkpointed("MODEL"))
    /\ \A i \in RunningTools : Target(i)
    /\ \A i, j \in RunningTools : i = j
    /\ \A i \in OpenModels : \A j \in StepsOf("MODEL") : j <= i
    /\ \A i \in StepsOf("MODEL") \ Checkpointed("MODEL") :
        steps[i].status = "SUCCEEDED" => i \in OpenModels
    /\ OpenModels # {} => (RunningTools = {} /\ (resolutions = 0 => Unconfirmed = {}))
    /\ run.reason = "UNCERTAIN_NON_IDEMPOTENT" =>
        (Target(run.wstep) /\ RunningTools = {} /\ OpenModels = {})

------------------------------------------------------------------------------
(* What the call that is let through knows. *)

\* It works on the last Model Step, or is about to create one.
ModelAt(i) ==
    /\ RunningTools = {} /\ (resolutions = 0 => Unconfirmed = {})
    /\ i = 0 => OpenModels = {}
    /\ i # 0 => /\ i \in StepsOf("MODEL") /\ steps[i].out = NoOut
                /\ \A j \in StepsOf("MODEL") : j <= i

\* It works on the target, or is about to create it; todo is what is unconfirmed,
\* or, for a resolution, the target's call alone.
ToolAt(i, todo) ==
    /\ OpenModels = {} /\ Unconfirmed # {}
    /\ todo = Unconfirmed \/ (resolutions # 0 /\ todo = {First(Unconfirmed)})
    /\ i = 0 => RunningTools = {}
    /\ i # 0 => (Target(i) /\ RunningTools \subseteq {i})

\* It gives up an attempt on the target.
BrokenAt(i, todo, next) ==
    /\ OpenModels = {} /\ Target(i) /\ RunningTools \subseteq {i}
    /\ next = "replay" => (todo = Unconfirmed /\ Effect # "NON_IDEMPOTENT")

ModelPlaces ==
    {"model", "dispatchModel", "modelInFlight", "recordModelAttempt", "checkpointModel",
     "unconfirmModel"}
ToolPlaces ==
    {"tool", "beginAttempt", "dispatchTool", "toolActed", "toolIdle", "confirm",
     "recordToolAttempt", "checkpointTool"}

WorkAt(p, i, todo, next) ==
    /\ p \in ModelPlaces => ModelAt(i)
    /\ p \in {"dispatchModel", "modelInFlight"} => steps[i].status = "RUNNING"
    /\ p \in ToolPlaces => ToolAt(i, todo)
    /\ p \in {"beginAttempt", "dispatchTool", "toolActed", "toolIdle"} => i \in RunningTools
    /\ p \in {"confirm", "recordToolAttempt", "checkpointTool", "enterWaiting"} =>
        RunningTools = {}
    /\ p \in {"unconfirmTool", "enterWaiting"} => BrokenAt(i, todo, next)
    /\ p = "recordFailedStep" =>
        \/ next \in {"failRun", "cancelRun"} /\ ModelAt(i)
        \/ BrokenAt(i, todo, next)
    /\ p = "reopen" => run.reason = "DEFINITION_UNAVAILABLE"
    /\ p \in {"RETRY_STEP", "CONFIRM_STEP"} =>
        /\ run.reason = "UNCERTAIN_NON_IDEMPOTENT" /\ i = run.wstep
        /\ todo = {First(Unconfirmed)} /\ resolutions # 0

Works == \A r \in Runners : Fenced(r) => WorkAt(pc[r], loc[r].step, loc[r].todo, loc[r].next)

------------------------------------------------------------------------------
(* Effects. *)

EffectTypes == effects \in [Calls -> Nat] /\ grants \in [Calls -> Nat] /\ torn \in BOOLEAN

\* The effect happened and no application allowed for another.
Owed(c) == effects[c] > grants[c]

\* The UnsafeWindow, for a call at p that works on Step i.
UnsafePlaces == {"recordToolAttempt", "checkpointTool", "enterWaiting", "confirm"}
UnsafeAt(p, i) ==
    p \in UnsafePlaces \/ (p \in {"failRun", "cancelRun"} /\ i \in StepsOf("TOOL"))

\* The Step of c is RUNNING, or waits, or the call that works on it is between
\* two writes.
Traced(c) ==
    \/ \E i \in RunningTools : steps[i].call = c
    \/ run.reason = "UNCERTAIN_NON_IDEMPOTENT" /\ steps[run.wstep].call = c
    \/ \E r \in Runners :
        Fenced(r) /\ UnsafeAt(pc[r], loc[r].step) /\ steps[loc[r].step].call = c
Covered(c) == c \in Confirmed \/ run.status \in TERMINAL_STATUSES \/ Traced(c)
Covers == \A c \in Calls : Owed(c) => Covered(c)

\* A call about to be dispatched is not owed.
Unowed(p) ==
    \A c \in Calls :
        (p \in {"tool", "beginAttempt", "dispatchTool", "toolIdle"} /\ c = First(Unconfirmed))
            => ~Owed(c)
Unoweds == \A r \in Runners : Fenced(r) => Unowed(pc[r])

AtMostOnce == \A c \in Calls : effects[c] <= 1 + grants[c]

EffectInv == (Effect = "NON_IDEMPOTENT" /\ ~torn) => (AtMostOnce /\ Covers /\ Unoweds)

\* A Run that was not started has no Steps.
Unstarted == run.status = "CREATED" => steps = <<>>

JInv == Journal /\ Unstarted /\ Works /\ EffectTypes /\ EffectInv

FreshJInv == FreshIds => JInv

------------------------------------------------------------------------------
(* What the writes do to the sets of Steps. *)

LEMMA FreshUnconfirmed ==
    ASSUME FreshIds
    PROVE  Unconfirmed = LastCalls \ Confirmed
<1>1. \A c : CallId(c) = c
    BY DEF CallId
<1> QED
    BY <1>1 DEF Unconfirmed, Confirmed

LEMMA FreshUnconfirmedNext ==
    ASSUME FreshIds
    PROVE  Unconfirmed' = LastCalls' \ Confirmed'
<1>1. \A c : CallId(c) = c
    BY DEF CallId
<1> QED
    BY <1>1 DEF Unconfirmed, Confirmed, CallId

\* The Checkpoints of responses, and the last of them.
LEMMA ResponseFacts ==
    ASSUME Types
    PROVE  /\ Checkpointed("MODEL") \in SUBSET DOMAIN steps
           /\ IsFiniteSet(Checkpointed("MODEL")) /\ Cardinality(Checkpointed("MODEL")) \in Nat
           /\ Checkpointed("MODEL") # {} => Max(Checkpointed("MODEL")) \in Checkpointed("MODEL")
           /\ \A c \in LastCalls : c[1] = Cardinality(Checkpointed("MODEL"))
<1>1. PICK n \in Nat : n = Len(steps) /\ DOMAIN steps = 1..n
    BY DEF Types
<1>2. PICK S \in SUBSET (1..n) : S = Checkpointed("MODEL")
    BY <1>1 DEF Checkpointed, StepsOf
<1>3. IsFiniteSet(1..n)
    BY <1>1, FS_Interval
<1>4. IsFiniteSet(S) /\ Cardinality(S) \in Nat
    BY <1>2, <1>3, FS_Subset, FS_CardinalityType
<1>5. S # {} => Max(S) \in S
    BY <1>2, LastOfFacts
<1>6. \A c \in LastCalls : c[1] = Cardinality(S)
    BY <1>2 DEF LastCalls
<1> QED
    BY <1>1, <1>2, <1>4, <1>5, <1>6

LEMMA UnconfirmedFacts ==
    ASSUME Types, Unconfirmed # {}
    PROVE  /\ First(Unconfirmed) \in Unconfirmed /\ First(Unconfirmed) \in LastCalls
           /\ First(Unconfirmed) \in Nat \X Nat
           /\ First({First(Unconfirmed)}) = First(Unconfirmed)
<1>1. Unconfirmed \in SUBSET (Nat \X Nat) /\ Unconfirmed \in SUBSET LastCalls
    BY LastCallsType
<1>2. PICK c : c = First(Unconfirmed)
    OBVIOUS
<1>3. c \in Unconfirmed
    BY <1>1, <1>2, FirstFacts
<1>4. {c} \in SUBSET (Nat \X Nat) /\ {c} # {}
    BY <1>1, <1>3
<1>5. First({c}) \in {c}
    BY <1>4, FirstFacts
<1> QED
    BY <1>1, <1>2, <1>3, <1>5

\* The last response is what it was if its Checkpoint is.
LEMMA LastCallsStay ==
    ASSUME Types, Checkpointed("MODEL")' = Checkpointed("MODEL"),
           \A j \in Checkpointed("MODEL") : steps'[j].out = steps[j].out
    PROVE  LastCalls' = LastCalls
<1>1. CASE Checkpointed("MODEL") = {}
    BY <1>1 DEF LastCalls
<1>2. CASE Checkpointed("MODEL") # {}
    <2>1. PICK S : S = Checkpointed("MODEL") /\ Checkpointed("MODEL")' = S
        OBVIOUS
    <2>2. steps'[Max(S)].out = steps[Max(S)].out
        BY <1>2, <2>1, ResponseFacts
    <2>3. LastCalls = {<<Cardinality(S), k>> : k \in 1..steps[Max(S)].out}
        BY <1>2, <2>1 DEF LastCalls
    <2>4. LastCalls' = {<<Cardinality(S), k>> : k \in 1..steps'[Max(S)].out}
        BY <1>2, <2>1 DEF LastCalls
    <2> QED
        BY <2>2, <2>3, <2>4
<1> QED
    BY <1>1, <1>2

\* Calls, Checkpoints and the target stay; only a Step's status or attempts change.
SameCalls ==
    /\ Checkpointed("MODEL")' = Checkpointed("MODEL") /\ Checkpointed("TOOL")' = Checkpointed("TOOL")
    /\ LastCalls' = LastCalls /\ Confirmed' = Confirmed /\ Unconfirmed' = Unconfirmed

Rewritten(i, s, a) ==
    /\ SameCalls
    /\ StepsOf("MODEL")' = StepsOf("MODEL") /\ StepsOf("TOOL")' = StepsOf("TOOL")
    /\ \A j \in DOMAIN steps : steps'[j].call = steps[j].call /\ steps'[j].out = steps[j].out
    /\ \A j : Target(j)' <=> Target(j)
    /\ \A j \in DOMAIN steps \ {i} : steps'[j] = steps[j]
    /\ steps'[i].status = s /\ steps'[i].atts = a

LEMMA EditView ==
    ASSUME Types, FreshIds, NEW i \in DOMAIN steps, NEW s, NEW a,
           Edited(i, s, a, steps[i].out)
    PROVE  Rewritten(i, s, a)
<1>1. /\ DOMAIN steps' = DOMAIN steps
      /\ \A j \in DOMAIN steps : /\ steps'[j].call = steps[j].call /\ steps'[j].out = steps[j].out
                                 /\ steps'[j].type = steps[j].type
    BY DEF Edited
<1>2. StepsOf("MODEL")' = StepsOf("MODEL") /\ StepsOf("TOOL")' = StepsOf("TOOL")
    BY <1>1 DEF StepsOf
<1>3. /\ Checkpointed("MODEL")' = Checkpointed("MODEL")
      /\ Checkpointed("TOOL")' = Checkpointed("TOOL")
      /\ Checkpointed("MODEL") \subseteq DOMAIN steps /\ Checkpointed("TOOL") \subseteq DOMAIN steps
    BY <1>1, <1>2 DEF Checkpointed, StepsOf
<1>4. LastCalls' = LastCalls
    BY <1>1, <1>3, LastCallsStay
<1>5. Confirmed' = Confirmed
    BY <1>1, <1>3 DEF Confirmed
<1>6. Unconfirmed' = Unconfirmed
    BY <1>4, <1>5, FreshUnconfirmed, FreshUnconfirmedNext
<1>7. ASSUME NEW j PROVE Target(j)' <=> Target(j)
    <2>1. PICK S : S = StepsOf("TOOL") /\ StepsOf("TOOL")' = S
        BY <1>2
    <2>2. S \subseteq DOMAIN steps
        BY <2>1 DEF StepsOf
    <2> QED
        BY <1>1, <1>6, <2>1, <2>2 DEF Target
<1> QED
    BY <1>1, <1>2, <1>3, <1>4, <1>5, <1>6, <1>7 DEF SameCalls, Edited, Rewritten

\* A write to the last Model Step while no Tool Step is RUNNING.
LEMMA ModelEditJournal ==
    ASSUME Types, FreshIds, Journal, UNCHANGED <<run, resolutions>>,
           run.reason # "UNCERTAIN_NON_IDEMPOTENT",
           NEW i \in DOMAIN steps, ModelAt(i), i # 0,
           NEW s, NEW a, Edited(i, s, a, steps[i].out),
           s = "SUCCEEDED" => \E j \in DOMAIN a : a[j] \in Received
    PROVE  Journal' /\ SameCalls /\ ModelAt(i)' /\ RunningTools' = {}
<1>1. /\ SameCalls
      /\ StepsOf("MODEL")' = StepsOf("MODEL") /\ StepsOf("TOOL")' = StepsOf("TOOL")
      /\ \A j \in DOMAIN steps : steps'[j].call = steps[j].call /\ steps'[j].out = steps[j].out
      /\ \A j : Target(j)' <=> Target(j)
      /\ \A j \in DOMAIN steps \ {i} : steps'[j] = steps[j]
      /\ steps'[i].status = s /\ steps'[i].atts = a
    <2>1. Rewritten(i, s, a)
        BY EditView
    <2> QED
        BY <2>1 DEF Rewritten
<1>2. /\ i \in StepsOf("MODEL") /\ steps[i].out = NoOut /\ RunningTools = {}
      /\ resolutions = 0 => Unconfirmed = {}
      /\ \A j \in StepsOf("MODEL") : j <= i
    BY DEF ModelAt
<1>3. i \notin StepsOf("TOOL") /\ StepsOf("TOOL") \subseteq DOMAIN steps
      /\ StepsOf("MODEL") \subseteq DOMAIN steps
    BY <1>2 DEF StepsOf
<1>4. RunningTools' = {}
    BY <1>1, <1>2, <1>3 DEF RunningTools
<1>5. \A j \in OpenModels' : j # i => j \in OpenModels
    BY <1>1, <1>3 DEF OpenModels, SameCalls, HasAttempt
<1>6. s = "SUCCEEDED" => i \in OpenModels'
    <2>1. i \in (StepsOf("MODEL") \ Checkpointed("MODEL"))'
        BY <1>1, <1>2 DEF Checkpointed
    <2> QED
        BY <1>1, <2>1 DEF OpenModels, HasAttempt
<1>7. ModelAt(i)'
    BY <1>1, <1>2, <1>4 DEF ModelAt, SameCalls
<1>8. \A j \in StepsOf("TOOL")' : steps'[j].call[1] <= Cardinality(Checkpointed("MODEL")')
    BY <1>1, <1>3 DEF Journal, SameCalls
<1>9. \A j \in OpenModels' : \A k \in StepsOf("MODEL")' : k <= j
    BY <1>1, <1>2, <1>5 DEF Journal
<1>10. \A j \in (StepsOf("MODEL") \ Checkpointed("MODEL"))' :
            steps'[j].status = "SUCCEEDED" => j \in OpenModels'
    <2> SUFFICES ASSUME NEW j \in (StepsOf("MODEL") \ Checkpointed("MODEL"))',
                        steps'[j].status = "SUCCEEDED"
                 PROVE  j \in OpenModels'
        OBVIOUS
    <2>1. CASE j = i
        BY <1>1, <1>6, <2>1
    <2>2. CASE j # i
        <3>1. j \in StepsOf("MODEL") \ Checkpointed("MODEL") /\ steps'[j] = steps[j]
            BY <1>1, <1>3, <2>2 DEF SameCalls
        <3>2. j \in OpenModels
            BY <3>1 DEF Journal
        <3> QED
            BY <3>1, <3>2 DEF OpenModels, HasAttempt
    <2> QED
        BY <2>1, <2>2
<1>11. resolutions' = 0 => Unconfirmed' = {}
    BY <1>1, <1>2 DEF SameCalls
<1> QED
    BY <1>1, <1>4, <1>7, <1>8, <1>9, <1>10, <1>11 DEF Journal

\* A write to the target while no Model Step is open.
LEMMA ToolEditJournal ==
    ASSUME Types, FreshIds, Journal, UNCHANGED <<run, resolutions>>,
           run.reason # "UNCERTAIN_NON_IDEMPOTENT",
           NEW i \in DOMAIN steps, Target(i), OpenModels = {}, RunningTools \subseteq {i},
           NEW s, NEW a, Edited(i, s, a, steps[i].out)
    PROVE  /\ Journal' /\ SameCalls /\ Target(i)' /\ OpenModels' = {}
           /\ s = "RUNNING" => RunningTools' = {i}
           /\ s # "RUNNING" => RunningTools' = {}
           /\ steps'[i].call = steps[i].call
<1>1. /\ SameCalls
      /\ StepsOf("MODEL")' = StepsOf("MODEL") /\ StepsOf("TOOL")' = StepsOf("TOOL")
      /\ \A j \in DOMAIN steps : steps'[j].call = steps[j].call /\ steps'[j].out = steps[j].out
      /\ \A j : Target(j)' <=> Target(j)
      /\ \A j \in DOMAIN steps \ {i} : steps'[j] = steps[j]
      /\ steps'[i].status = s /\ steps'[i].atts = a
    <2>1. Rewritten(i, s, a)
        BY EditView
    <2> QED
        BY <2>1 DEF Rewritten
<1>2. i \in StepsOf("TOOL") /\ i \notin StepsOf("MODEL") /\ StepsOf("TOOL") \subseteq DOMAIN steps
      /\ StepsOf("MODEL") \subseteq DOMAIN steps
    BY DEF Target, StepsOf
<1>3. /\ s = "RUNNING" => RunningTools' = {i}
      /\ s # "RUNNING" => RunningTools' = {}
    BY <1>1, <1>2 DEF RunningTools
<1>4. OpenModels' = {}
    BY <1>1, <1>2 DEF OpenModels, SameCalls, HasAttempt
<1>5. \A j \in StepsOf("TOOL")' : steps'[j].call[1] <= Cardinality(Checkpointed("MODEL")')
    BY <1>1, <1>2 DEF Journal, SameCalls
<1>6. \A j \in (StepsOf("MODEL") \ Checkpointed("MODEL"))' : steps'[j].status # "SUCCEEDED"
    BY <1>1, <1>2 DEF Journal, SameCalls
<1>7. Target(i)'
    BY <1>1
<1> QED
    BY <1>1, <1>3, <1>4, <1>5, <1>6, <1>7 DEF Journal

Added(n, t, s, c, a) ==
    /\ SameCalls
    /\ \A u \in {"MODEL", "TOOL"} : u # t => StepsOf(u)' = StepsOf(u)
    /\ StepsOf(t)' = StepsOf(t) \cup {n}
    /\ \A j \in DOMAIN steps : steps'[j] = steps[j] /\ j < n
    /\ n \notin DOMAIN steps /\ n \in Nat \ {0}
    /\ steps'[n].status = s /\ steps'[n].call = c /\ steps'[n].atts = a /\ steps'[n].out = NoOut
    /\ \A j \in DOMAIN steps : Target(j)' <=> Target(j)

LEMMA AppendView ==
    ASSUME Types, FreshIds, NEW t \in {"MODEL", "TOOL"}, NEW s, NEW c, NEW a,
           Appended(t, s, c, a), NEW n, n = Len(steps) + 1
    PROVE  Added(n, t, s, c, a)
<1>1. /\ DOMAIN steps' = DOMAIN steps \cup {n} /\ n \notin DOMAIN steps /\ n \in Nat \ {0}
      /\ \A j \in DOMAIN steps : steps'[j] = steps[j] /\ j < n
      /\ steps'[n].type = t /\ steps'[n].status = s /\ steps'[n].call = c
      /\ steps'[n].atts = a /\ steps'[n].out = NoOut
    BY DEF Appended
<1>2. /\ \A u \in {"MODEL", "TOOL"} : u # t => StepsOf(u)' = StepsOf(u)
      /\ StepsOf(t)' = StepsOf(t) \cup {n}
    BY <1>1 DEF StepsOf
<1>3. ASSUME NEW u \in {"MODEL", "TOOL"}
      PROVE  Checkpointed(u)' = Checkpointed(u) /\ Checkpointed(u) \subseteq DOMAIN steps
    <2>1. StepsOf(u)' = StepsOf(u) \/ StepsOf(u)' = StepsOf(u) \cup {n}
        BY <1>2
    <2>2. StepsOf(u) \subseteq DOMAIN steps
        BY DEF StepsOf
    <2> QED
        BY <1>1, <2>1, <2>2 DEF Checkpointed
<1>4. LastCalls' = LastCalls
    <2>1. /\ Checkpointed("MODEL")' = Checkpointed("MODEL")
          /\ \A j \in Checkpointed("MODEL") : steps'[j].out = steps[j].out
        BY <1>1, <1>3
    <2> QED
        BY <2>1, LastCallsStay
<1>5. Confirmed' = Confirmed
    <2>1. PICK S : /\ S = Checkpointed("TOOL") /\ Checkpointed("TOOL")' = S
                   /\ S \subseteq DOMAIN steps
        BY <1>3
    <2> QED
        BY <1>1, <2>1 DEF Confirmed
<1>6. Unconfirmed' = Unconfirmed
    BY <1>4, <1>5, FreshUnconfirmed, FreshUnconfirmedNext
<1>7. ASSUME NEW j \in DOMAIN steps PROVE Target(j)' <=> Target(j)
    <2>1. j \in StepsOf("TOOL")' <=> j \in StepsOf("TOOL")
        BY <1>1, <1>2
    <2>2. steps'[j] = steps[j]
        BY <1>1
    <2> QED
        BY <1>6, <2>1, <2>2 DEF Target
<1>8. SameCalls
    BY <1>3, <1>4, <1>5, <1>6 DEF SameCalls
<1> QED
    BY <1>1, <1>2, <1>7, <1>8 DEF Added

\* A new Model Step.
LEMMA ModelAppendJournal ==
    ASSUME Types, FreshIds, Journal, UNCHANGED <<run, resolutions>>,
           run.reason # "UNCERTAIN_NON_IDEMPOTENT", ModelAt(0),
           NEW s, s # "SUCCEEDED", NEW c, NEW a, Appended("MODEL", s, c, a),
           NEW n, n = Len(steps) + 1
    PROVE  /\ Journal' /\ SameCalls /\ ModelAt(n)' /\ RunningTools' = {}
           /\ steps'[n].status = s /\ n # 0
<1>1. Added(n, "MODEL", s, c, a)
    BY AppendView
<1>2. /\ SameCalls /\ StepsOf("TOOL")' = StepsOf("TOOL")
      /\ StepsOf("MODEL")' = StepsOf("MODEL") \cup {n}
      /\ \A j \in DOMAIN steps : steps'[j] = steps[j] /\ j < n
      /\ n \notin DOMAIN steps /\ n \in Nat \ {0}
      /\ steps'[n].status = s /\ steps'[n].out = NoOut
    BY <1>1 DEF Added
<1>3. RunningTools = {} /\ OpenModels = {} /\ (resolutions = 0 => Unconfirmed = {})
    BY DEF ModelAt
<1>4. StepsOf("TOOL") \subseteq DOMAIN steps /\ StepsOf("MODEL") \subseteq DOMAIN steps
    BY DEF StepsOf
<1>5. RunningTools' = {}
    BY <1>2, <1>3, <1>4 DEF RunningTools
<1>6. \A j \in OpenModels' : j = n
    BY <1>2, <1>3, <1>4 DEF OpenModels, SameCalls, HasAttempt
<1>7. \A j \in StepsOf("MODEL")' : j <= n
    <2>1. \A j \in DOMAIN steps : j <= n
        BY <1>2 DEF Types
    <2> QED
        BY <1>2, <1>4, <2>1
<1>8. \A j \in StepsOf("TOOL")' : steps'[j].call[1] <= Cardinality(Checkpointed("MODEL")')
    BY <1>2, <1>4 DEF Journal, SameCalls
<1>9. \A j \in (StepsOf("MODEL") \ Checkpointed("MODEL"))' : steps'[j].status # "SUCCEEDED"
    <2>1. \A j \in StepsOf("MODEL") \ Checkpointed("MODEL") : steps[j].status # "SUCCEEDED"
        BY <1>3 DEF Journal
    <2> QED
        BY <1>2, <1>4, <2>1 DEF SameCalls
<1>10. resolutions' = 0 => Unconfirmed' = {}
    BY <1>2, <1>3 DEF SameCalls
<1>11. ModelAt(n)'
    BY <1>2, <1>5, <1>7, <1>10 DEF ModelAt
<1> QED
    BY <1>2, <1>5, <1>6, <1>7, <1>8, <1>9, <1>10, <1>11 DEF Journal

\* A new Tool Step, for the target's call.
LEMMA ToolAppendJournal ==
    ASSUME Types, FreshIds, Journal, UNCHANGED <<run, resolutions>>,
           run.reason # "UNCERTAIN_NON_IDEMPOTENT", OpenModels = {}, RunningTools = {},
           Unconfirmed # {}, NEW c, c = First(Unconfirmed),
           NEW a, Appended("TOOL", "RUNNING", c, a), NEW n, n = Len(steps) + 1
    PROVE  /\ Journal' /\ SameCalls /\ OpenModels' = {} /\ RunningTools' = {n}
           /\ Target(n)' /\ n # 0
<1>1. Added(n, "TOOL", "RUNNING", c, a)
    BY AppendView
<1>2. /\ SameCalls /\ StepsOf("MODEL")' = StepsOf("MODEL")
      /\ StepsOf("TOOL")' = StepsOf("TOOL") \cup {n}
      /\ \A j \in DOMAIN steps : steps'[j] = steps[j] /\ j < n
      /\ n \notin DOMAIN steps /\ n \in Nat \ {0}
      /\ steps'[n].status = "RUNNING" /\ steps'[n].out = NoOut /\ steps'[n].call = c
    BY <1>1 DEF Added
<1>3. StepsOf("TOOL") \subseteq DOMAIN steps /\ StepsOf("MODEL") \subseteq DOMAIN steps
    BY DEF StepsOf
<1>4. RunningTools' = {n}
    BY <1>2, <1>3 DEF RunningTools
<1>5. OpenModels' = {}
    BY <1>2, <1>3 DEF OpenModels, SameCalls, HasAttempt
<1>6. Target(n)'
    <2>1. Unconfirmed' = Unconfirmed
        BY <1>2 DEF SameCalls
    <2> QED
        BY <1>2, <2>1 DEF Target
<1>7. c[1] <= Cardinality(Checkpointed("MODEL"))
    <2>1. c \in LastCalls
        BY UnconfirmedFacts
    <2>2. c[1] = Cardinality(Checkpointed("MODEL")) /\ Cardinality(Checkpointed("MODEL")) \in Nat
        BY <2>1, ResponseFacts
    <2> QED
        BY <2>2
<1>8. \A j \in StepsOf("TOOL")' : steps'[j].call[1] <= Cardinality(Checkpointed("MODEL")')
    BY <1>2, <1>3, <1>7 DEF Journal, SameCalls
<1>9. \A j \in (StepsOf("MODEL") \ Checkpointed("MODEL"))' : steps'[j].status # "SUCCEEDED"
    BY <1>2, <1>3 DEF Journal, SameCalls
<1> QED
    BY <1>2, <1>4, <1>5, <1>6, <1>8, <1>9 DEF Journal

\* The Checkpoint of the target.
LEMMA ToolCheckpointJournal ==
    ASSUME Types, FreshIds, Journal, UNCHANGED <<run, resolutions>>,
           run.reason # "UNCERTAIN_NON_IDEMPOTENT", OpenModels = {}, RunningTools = {},
           NEW i \in DOMAIN steps, Target(i),
           Edited(i, steps[i].status, steps[i].atts, 0)
    PROVE  /\ Journal' /\ OpenModels' = {} /\ RunningTools' = {}
           /\ Confirmed' = Confirmed \cup {steps[i].call}
           /\ Unconfirmed' = Unconfirmed \ {First(Unconfirmed)}
<1>1. /\ DOMAIN steps' = DOMAIN steps
      /\ \A j \in DOMAIN steps :
            /\ steps'[j].call = steps[j].call /\ steps'[j].type = steps[j].type
            /\ steps'[j].status = steps[j].status /\ steps'[j].atts = steps[j].atts
      /\ \A j \in DOMAIN steps \ {i} : steps'[j].out = steps[j].out
      /\ steps'[i].out = 0
    BY DEF Edited
<1>2. StepsOf("MODEL")' = StepsOf("MODEL") /\ StepsOf("TOOL")' = StepsOf("TOOL")
    BY <1>1 DEF StepsOf
<1>3. /\ i \in StepsOf("TOOL") /\ i \notin StepsOf("MODEL") /\ StepsOf("TOOL") \subseteq DOMAIN steps
      /\ StepsOf("MODEL") \subseteq DOMAIN steps /\ steps[i].out = NoOut
      /\ steps[i].call = First(Unconfirmed)
    BY DEF Target, StepsOf
<1>4. Checkpointed("MODEL")' = Checkpointed("MODEL") /\ Checkpointed("MODEL") \subseteq DOMAIN steps \ {i}
    BY <1>1, <1>2, <1>3 DEF Checkpointed
<1>5. Checkpointed("TOOL")' = Checkpointed("TOOL") \cup {i} /\ Checkpointed("TOOL") \subseteq DOMAIN steps
    <2>1. 0 # NoOut
        BY DEF NoOut
    <2> QED
        BY <1>1, <1>2, <1>3, <2>1 DEF Checkpointed
<1>6. LastCalls' = LastCalls
    BY <1>1, <1>4, LastCallsStay
<1>7. Confirmed' = Confirmed \cup {steps[i].call}
    BY <1>1, <1>5 DEF Confirmed
<1>8. Unconfirmed' = Unconfirmed \ {First(Unconfirmed)}
    BY <1>3, <1>6, <1>7, FreshUnconfirmed, FreshUnconfirmedNext
<1>9. RunningTools' = {}
    BY <1>1, <1>2, <1>3 DEF RunningTools
<1>10. OpenModels' = {}
    BY <1>1, <1>2, <1>3, <1>4 DEF OpenModels, HasAttempt
<1>11. \A j \in StepsOf("TOOL")' : steps'[j].call[1] <= Cardinality(Checkpointed("MODEL")')
    BY <1>1, <1>2, <1>3, <1>4 DEF Journal
<1>12. \A j \in (StepsOf("MODEL") \ Checkpointed("MODEL"))' : steps'[j].status # "SUCCEEDED"
    BY <1>1, <1>2, <1>3, <1>4 DEF Journal
<1> QED
    BY <1>7, <1>8, <1>9, <1>10, <1>11, <1>12 DEF Journal

\* The Checkpoint of a response.
LEMMA ModelCheckpointJournal ==
    ASSUME Types, FreshIds, Journal, UNCHANGED <<run, resolutions>>,
           run.reason # "UNCERTAIN_NON_IDEMPOTENT",
           NEW i \in DOMAIN steps, ModelAt(i), NEW n \in Nat,
           Edited(i, steps[i].status, steps[i].atts, n)
    PROVE  /\ Journal' /\ OpenModels' = {} /\ RunningTools' = {} /\ Confirmed' = Confirmed
           /\ Unconfirmed' = {<<Cardinality(Checkpointed("MODEL")) + 1, k>> : k \in 1..n}
<1>1. /\ DOMAIN steps' = DOMAIN steps
      /\ \A j \in DOMAIN steps :
            /\ steps'[j].call = steps[j].call /\ steps'[j].type = steps[j].type
            /\ steps'[j].status = steps[j].status /\ steps'[j].atts = steps[j].atts
      /\ \A j \in DOMAIN steps \ {i} : steps'[j].out = steps[j].out
      /\ steps'[i].out = n
    BY DEF Edited
<1>2. StepsOf("MODEL")' = StepsOf("MODEL") /\ StepsOf("TOOL")' = StepsOf("TOOL")
    BY <1>1 DEF StepsOf
<1>3. i # 0
    BY AttemptFacts
<1>4. /\ i \in StepsOf("MODEL") /\ i \notin StepsOf("TOOL") /\ StepsOf("TOOL") \subseteq DOMAIN steps
      /\ StepsOf("MODEL") \subseteq DOMAIN steps /\ steps[i].out = NoOut /\ RunningTools = {}
      /\ \A j \in StepsOf("MODEL") : j <= i
    BY <1>3 DEF ModelAt, StepsOf
<1>5. PICK S : S = Checkpointed("MODEL")
    OBVIOUS
<1>6. /\ S \in SUBSET StepsOf("MODEL") /\ i \notin S /\ IsFiniteSet(S) /\ Cardinality(S) \in Nat
    BY <1>4, <1>5, ResponseFacts DEF Checkpointed
<1>7. Checkpointed("MODEL")' = S \cup {i}
    <2>1. n # NoOut
        BY DEF NoOut
    <2> QED
        BY <1>1, <1>2, <1>4, <1>5, <2>1 DEF Checkpointed
<1>8. Cardinality(S \cup {i}) = Cardinality(S) + 1
    BY <1>6, FS_AddElement
<1>9. Max(S \cup {i}) = i
    <2>1. PICK m \in Nat : m = Len(steps) /\ DOMAIN steps = 1..m
        BY DEF Types
    <2>2. PICK T \in SUBSET (1..m) : T = S \cup {i}
        BY <1>4, <1>6, <2>1
    <2>3. T # {} /\ i \in T
        BY <2>2
    <2>4. PICK x : x = Max(T)
        OBVIOUS
    <2>5. x \in T /\ \A y \in T : y <= x
        BY <2>2, <2>3, <2>4, LastOfFacts
    <2>6. i <= x /\ x <= i /\ x \in Nat /\ i \in Nat
        BY <1>4, <1>6, <2>1, <2>2, <2>3, <2>5
    <2>7. x = i
        BY <2>6
    <2> QED
        BY <2>2, <2>4, <2>7
<1>10. LastCalls' = {<<Cardinality(S) + 1, k>> : k \in 1..n}
    <2>1. PICK T : T = S \cup {i}
        OBVIOUS
    <2>2. T # {} /\ Checkpointed("MODEL")' = T /\ steps'[Max(T)].out = n
          /\ Cardinality(T) = Cardinality(S) + 1
        BY <1>1, <1>7, <1>8, <1>9, <2>1
    <2>3. LastCalls' = {<<Cardinality(T), k>> : k \in 1..steps'[Max(T)].out}
        BY <2>2 DEF LastCalls
    <2> QED
        BY <2>2, <2>3
<1>11. Checkpointed("TOOL")' = Checkpointed("TOOL") /\ Checkpointed("TOOL") \subseteq StepsOf("TOOL")
    BY <1>1, <1>2, <1>4 DEF Checkpointed
<1>12. Confirmed' = Confirmed
    BY <1>1, <1>4, <1>11 DEF Confirmed
<1>13. \A c \in Confirmed : c[1] <= Cardinality(S)
    BY <1>5, <1>11 DEF Journal, Confirmed
<1>14. Unconfirmed' = LastCalls'
    <2>1. \A c \in LastCalls' : c \notin Confirmed
        <3> SUFFICES ASSUME NEW c \in LastCalls', c \in Confirmed PROVE FALSE
            OBVIOUS
        <3>1. c[1] = Cardinality(S) + 1
            BY <1>10
        <3>2. c[1] <= Cardinality(S)
            BY <1>13
        <3> QED
            BY <1>6, <3>1, <3>2
    <2> QED
        BY <1>12, <2>1, FreshUnconfirmedNext
<1>15. RunningTools' = {}
    BY <1>1, <1>2, <1>4 DEF RunningTools
<1>16. \A j \in OpenModels : j = i
    <2> SUFFICES ASSUME NEW j \in OpenModels PROVE j = i
        OBVIOUS
    <2>1. j \in StepsOf("MODEL") /\ i <= j
        BY <1>4 DEF Journal, OpenModels
    <2>2. j <= i /\ j \in Nat /\ i \in Nat
        BY <1>4, <2>1, AttemptFacts
    <2> QED
        BY <2>1, <2>2
<1>17. OpenModels' = {}
    <2> SUFFICES ASSUME NEW j \in OpenModels' PROVE FALSE
        OBVIOUS
    <2>1. j \in StepsOf("MODEL") \ (S \cup {i}) /\ steps'[j].atts = steps[j].atts
          /\ HasAttempt(j, Received)'
        BY <1>1, <1>2, <1>4, <1>7 DEF OpenModels
    <2>2. j \in OpenModels
        BY <1>5, <2>1 DEF OpenModels, HasAttempt
    <2> QED
        BY <1>16, <2>1, <2>2
<1>18. \A j \in StepsOf("TOOL")' : steps'[j].call[1] <= Cardinality(Checkpointed("MODEL")')
    <2> SUFFICES ASSUME NEW j \in StepsOf("TOOL")'
                 PROVE  steps'[j].call[1] <= Cardinality(Checkpointed("MODEL")')
        OBVIOUS
    <2>1. j \in StepsOf("TOOL") /\ j \in DOMAIN steps /\ steps'[j].call = steps[j].call
        BY <1>1, <1>2, <1>4
    <2>2. steps[j].call \in Nat \X Nat
        BY <2>1, StepFields DEF Types
    <2>3. PICK x \in Nat : x = steps[j].call[1]
        BY <2>2
    <2>4. x <= Cardinality(S)
        BY <1>5, <2>1, <2>3 DEF Journal
    <2>5. x <= Cardinality(S) + 1
        BY <1>6, <2>4
    <2> QED
        BY <1>7, <1>8, <2>1, <2>3, <2>5
<1>19. \A j \in (StepsOf("MODEL") \ Checkpointed("MODEL"))' : steps'[j].status # "SUCCEEDED"
    <2> SUFFICES ASSUME NEW j \in (StepsOf("MODEL") \ Checkpointed("MODEL"))',
                        steps'[j].status = "SUCCEEDED"
                 PROVE  FALSE
        OBVIOUS
    <2>1. j \in StepsOf("MODEL") \ Checkpointed("MODEL") /\ j # i /\ steps[j].status = "SUCCEEDED"
        BY <1>1, <1>2, <1>4, <1>5, <1>7
    <2>2. j \in OpenModels
        BY <2>1 DEF Journal
    <2> QED
        BY <1>16, <2>1, <2>2
<1> QED
    BY <1>5, <1>10, <1>12, <1>14, <1>15, <1>17, <1>18, <1>19 DEF Journal

------------------------------------------------------------------------------
(* What the call that is let through has to show. *)

\* What keeps the trace of c while the call at p works on Step i.
TracedBy(c, p, i) ==
    \/ \E j \in RunningTools : steps[j].call = c
    \/ UnsafeAt(p, i) /\ steps[i].call = c

NonIdempotent == Effect = "NON_IDEMPOTENT" /\ ~torn

LEMMA HolderCovers ==
    ASSUME Types, NEW r \in Runners, Fenced(r), run.status = "RUNNING",
           NEW c, Covered(c), NEW p, p = pc[r], NEW i, i = loc[r].step
    PROVE  c \in Confirmed \/ TracedBy(c, p, i)
<1>1. run.status \notin TERMINAL_STATUSES
    BY DEF TERMINAL_STATUSES
<1>2. run.reason # "UNCERTAIN_NON_IDEMPOTENT"
    BY DEF Types, NoReason
<1>3. \A q \in Runners : Fenced(q) => q = r
    BY OneHolder, HolderHasLease
<1> QED
    BY <1>1, <1>2, <1>3 DEF Covered, Traced, TracedBy

LEMMA HolderCoversNext ==
    ASSUME NEW r \in Runners, Fenced(r)', NEW p, pc'[r] = p, NEW i, loc'[r].step = i,
           NEW c, c \in Confirmed' \/ TracedBy(c, p, i)'
    PROVE  Covered(c)'
BY DEF Covered, Traced, TracedBy

\* The Run stays RUNNING or waits, with one call let through.
LEMMA HolderJInv ==
    ASSUME NEW r \in Runners, lease' = [owner |-> r, live |-> TRUE], Fenced(r)',
           NEW p, NEW i, NEW todo, NEW next, pc'[r] = p, loc'[r].step = i,
           loc'[r].todo = todo, loc'[r].next = next,
           Journal', Unstarted', WorkAt(p, i, todo, next)', EffectTypes',
           NonIdempotent' => (AtMostOnce' /\ Covers' /\ Unowed(p)')
    PROVE  JInv'
<1>1. \A q \in Runners : Fenced(q)' => q = r
    BY OneHolderNext
<1>2. Works'
    BY <1>1 DEF Works
<1>3. Unowed(p)' => Unoweds'
    BY <1>1 DEF Unoweds
<1> QED
    BY <1>2, <1>3 DEF JInv, EffectInv, NonIdempotent

\* A write of the call, or an external call.
LEMMA CallJInv ==
    ASSUME IInv, NEW r \in Runners, Fenced(r), loc'[r].ver = loc[r].ver,
           UNCHANGED <<run, lease, torn>>, run.status = "RUNNING",
           NEW p, NEW i, NEW todo, NEW next, NEW out, Moves(r, p, i, todo, next, out),
           Journal', WorkAt(p, i, todo, next)', EffectTypes',
           NonIdempotent =>
                /\ AtMostOnce'
                /\ \A c \in Calls : Owed(c)' => (c \in Confirmed' \/ TracedBy(c, p, i)')
                /\ Unowed(p)'
    PROVE  JInv'
<1>1. Fenced(r)' /\ lease' = [owner |-> r, live |-> TRUE]
    BY DEF Fenced
<1>2. pc'[r] = p /\ loc'[r].step = i /\ loc'[r].todo = todo /\ loc'[r].next = next
    BY DEF Moves
<1>3. NonIdempotent' <=> NonIdempotent
    BY DEF NonIdempotent
<1>4. NonIdempotent => Covers'
    BY <1>1, <1>2, HolderCoversNext DEF Covers
<1>5. Unstarted'
    BY DEF Unstarted
<1> QED
    BY <1>1, <1>2, <1>3, <1>4, <1>5, HolderJInv

\* A write of the call: nothing happens outside the store.
LEMMA WriteJInv ==
    ASSUME IInv, JInv, NEW r \in Runners, Fenced(r), loc'[r].ver = loc[r].ver,
           UNCHANGED <<run, lease, torn, effects, grants>>,
           NEW p0, p0 = pc[r], p0 \in Working, NEW i0, i0 = loc[r].step,
           NEW p, NEW i, NEW todo, NEW next, NEW out, Moves(r, p, i, todo, next, out),
           Journal', WorkAt(p, i, todo, next)', Confirmed \subseteq Confirmed',
           NonIdempotent =>
                /\ \A c \in Calls : (Owed(c) /\ TracedBy(c, p0, i0)) =>
                        (c \in Confirmed' \/ TracedBy(c, p, i)')
                /\ Unowed(p)'
    PROVE  JInv'
<1>1. Types /\ run.status = "RUNNING"
    BY HolderKnows DEF StatusAt, Working
<1>2. EffectTypes'
    BY DEF JInv, EffectTypes
<1>3. \A c : Owed(c)' <=> Owed(c)
    BY DEF Owed
<1>4. NonIdempotent => AtMostOnce'
    BY DEF JInv, EffectInv, NonIdempotent, AtMostOnce
<1>5. ASSUME NonIdempotent, NEW c \in Calls, Owed(c)'
      PROVE  c \in Confirmed' \/ TracedBy(c, p, i)'
    <2>1. Owed(c) /\ Covered(c)
        BY <1>3, <1>5 DEF JInv, EffectInv, NonIdempotent, Covers
    <2>2. c \in Confirmed \/ TracedBy(c, p0, i0)
        BY <1>1, <2>1, HolderCovers
    <2> QED
        BY <1>5, <2>1, <2>2
<1> QED
    BY <1>1, <1>2, <1>4, <1>5, CallJInv

LEMMA HolderWorks ==
    ASSUME IInv, JInv, NEW r \in Runners, Fenced(r), NEW p, p = pc[r], NEW i, i = loc[r].step,
           NEW todo, todo = loc[r].todo, NEW next, next = loc[r].next
    PROVE  /\ WorkAt(p, i, todo, next)
           /\ p \in Working => (run.status = "RUNNING" /\ run.reason # "UNCERTAIN_NON_IDEMPOTENT")
           /\ NonIdempotent => (Unowed(p) /\ Covers /\ AtMostOnce)
           /\ Types /\ Journal /\ EffectTypes
           /\ StatusAt(p) /\ BudgetAt(p, i, next) /\ i \in Nat /\ next \in Nexts
<1>1. WorkAt(p, i, todo, next) /\ Journal /\ EffectTypes
    BY DEF JInv, Works
<1>2. /\ Types /\ StatusAt(p) /\ BudgetAt(p, i, next) /\ i \in Nat /\ next \in Nexts
    BY HolderKnows
<1>3. p \in Working => (run.status = "RUNNING" /\ run.reason # "UNCERTAIN_NON_IDEMPOTENT")
    BY <1>2 DEF StatusAt, Types, NoReason
<1>4. NonIdempotent => (Unowed(p) /\ Covers /\ AtMostOnce)
    BY DEF JInv, EffectInv, NonIdempotent, Unoweds
<1> QED
    BY <1>1, <1>2, <1>3, <1>4

\* A step that leaves the journal alone.
SameView ==
    /\ SameCalls
    /\ StepsOf("MODEL")' = StepsOf("MODEL") /\ StepsOf("TOOL")' = StepsOf("TOOL")
    /\ RunningTools' = RunningTools /\ OpenModels' = OpenModels
    /\ \A j : Target(j)' <=> Target(j)

LEMMA ViewStays ==
    ASSUME steps' = steps
    PROVE  SameView
<1>1. StepsOf("MODEL")' = StepsOf("MODEL") /\ StepsOf("TOOL")' = StepsOf("TOOL")
    BY DEF StepsOf
<1>2. Checkpointed("MODEL")' = Checkpointed("MODEL") /\ Checkpointed("TOOL")' = Checkpointed("TOOL")
    BY <1>1 DEF Checkpointed
<1>3. RunningTools' = RunningTools /\ OpenModels' = OpenModels
    BY <1>1, <1>2 DEF RunningTools, OpenModels, HasAttempt
<1>4. LastCalls' = LastCalls /\ Confirmed' = Confirmed
    BY <1>2 DEF LastCalls, Confirmed
<1>5. Unconfirmed' = Unconfirmed
    BY <1>2, <1>4 DEF Unconfirmed, CallId
<1>6. \A j : Target(j)' <=> Target(j)
    BY <1>1, <1>5 DEF Target
<1> QED
    BY <1>1, <1>2, <1>3, <1>4, <1>5, <1>6 DEF SameView, SameCalls

\* More resolutions only weaken what the journal has to satisfy.
LEMMA JournalStays ==
    ASSUME Journal, steps' = steps, run' = run, resolutions \in Nat, resolutions' \in Nat,
           resolutions' >= resolutions
    PROVE  Journal'
<1>1. SameView
    BY ViewStays
<1>2. resolutions' = 0 => resolutions = 0
    OBVIOUS
<1> QED
    BY <1>1, <1>2 DEF Journal, SameView, SameCalls

LEMMA ModelAtStays ==
    ASSUME steps' = steps, resolutions' = resolutions, NEW i, ModelAt(i)
    PROVE  ModelAt(i)'
BY ViewStays DEF ModelAt, SameView, SameCalls

------------------------------------------------------------------------------
(* Model Steps. *)

LEMMA ModelWriteJInv ==
    ASSUME IInv, JInv, NEW r \in Runners, Fenced(r), loc'[r].ver = loc[r].ver,
           UNCHANGED <<run, lease, torn, effects, grants>>, steps' \in Seq(StepRecords),
           pc[r] \in Working \ UnsafePlaces, RunningTools = {},
           NEW p, NEW i, NEW todo, NEW next, NEW out, Moves(r, p, i, todo, next, out),
           Journal', Confirmed \subseteq Confirmed',
           \/ p \in {"failRun", "cancelRun", "succeed"}
           \/ /\ p \in ModelPlaces /\ ModelAt(i)'
              /\ p \in {"dispatchModel", "modelInFlight"} => steps'[i].status = "RUNNING"
           \/ p = "recordFailedStep" /\ next \in {"failRun", "cancelRun"} /\ ModelAt(i)'
    PROVE  JInv'
<1>1. PICK p0, i0 : p0 = pc[r] /\ i0 = loc[r].step
    OBVIOUS
<1>2. \A c : ~TracedBy(c, p0, i0)
    BY <1>1 DEF TracedBy, UnsafeAt, Working
<1>3. WorkAt(p, i, todo, next)'
    BY DEF WorkAt, ModelPlaces, ToolPlaces
<1>4. Unowed(p)'
    BY DEF Unowed, ModelPlaces
<1> QED
    BY <1>1, <1>2, <1>3, <1>4, WriteJInv

LEMMA ReserveJInv ==
    ASSUME IInv, FreshIds, JInv, NEW r \in Runners, ReserveModelAttempt(r)
    PROVE  JInv'
<1>1. PICK p0, i0, t0, n0 : p0 = pc[r] /\ i0 = loc[r].step /\ t0 = loc[r].todo /\ n0 = loc[r].next
    OBVIOUS
<1>2. PICK n : n = Len(steps) + 1
    OBVIOUS
<1>3. /\ Fenced(r) /\ loc'[r].ver = loc[r].ver
      /\ \/ /\ i0 = 0 /\ Appended("MODEL", "RUNNING", NoCall, <<"RUNNING">>)
            /\ Moves(r, "dispatchModel", n, {}, "idle", NoOut)
         \/ /\ i0 \in DOMAIN steps
            /\ Edited(i0, "RUNNING", Append(steps[i0].atts, "RUNNING"), steps[i0].out)
            /\ Moves(r, "dispatchModel", i0, {}, "idle", NoOut)
         \/ steps' = steps /\ Moves(r, "recordFailedStep", i0, {}, "failRun", NoOut)
    BY <1>1, <1>2, ReserveDoes
<1>4. /\ UNCHANGED <<run, lease, torn, effects, grants>> /\ resolutions' = resolutions
      /\ p0 = "model"
    BY <1>1 DEF ReserveModelAttempt, callVars, countVars
<1>5. /\ ModelAt(i0) /\ Types /\ Journal /\ run.reason # "UNCERTAIN_NON_IDEMPOTENT"
      /\ pc[r] \in Working \ UnsafePlaces /\ RunningTools = {}
    <2>1. p0 \in Working /\ p0 \in ModelPlaces /\ p0 \notin UnsafePlaces
        BY <1>4 DEF Working, ModelPlaces, UnsafePlaces
    <2>2. /\ WorkAt(p0, i0, t0, n0) /\ Types /\ Journal
          /\ run.reason # "UNCERTAIN_NON_IDEMPOTENT"
        BY <1>1, <1>3, <2>1, HolderWorks
    <2> QED
        BY <1>1, <2>1, <2>2 DEF WorkAt, ModelAt
<1>6. CASE /\ i0 = 0 /\ Appended("MODEL", "RUNNING", NoCall, <<"RUNNING">>)
           /\ Moves(r, "dispatchModel", n, {}, "idle", NoOut)
    <2>1. /\ Journal' /\ SameCalls /\ ModelAt(n)' /\ RunningTools' = {}
          /\ steps'[n].status = "RUNNING" /\ n # 0
        BY <1>2, <1>4, <1>5, <1>6, ModelAppendJournal
    <2>2. steps' \in Seq(StepRecords) /\ Confirmed \subseteq Confirmed'
        BY <1>6, <2>1 DEF Appended, SameCalls
    <2> QED
        BY <1>3, <1>4, <1>5, <1>6, <2>1, <2>2, ModelWriteJInv DEF ModelPlaces
<1>7. CASE /\ i0 \in DOMAIN steps
           /\ Edited(i0, "RUNNING", Append(steps[i0].atts, "RUNNING"), steps[i0].out)
           /\ Moves(r, "dispatchModel", i0, {}, "idle", NoOut)
    <2>1. i0 # 0
        BY <1>5, <1>7, AttemptFacts
    <2>2. /\ Journal' /\ SameCalls /\ ModelAt(i0)' /\ RunningTools' = {}
        <3>1. PICK a, s : Edited(i0, s, a, steps[i0].out) /\ s # "SUCCEEDED"
            BY <1>7
        <3>2. i0 \in DOMAIN steps /\ UNCHANGED <<run, resolutions>>
            BY <1>4, <1>7
        <3> QED
            BY <1>5, <2>1, <3>1, <3>2, ModelEditJournal
    <2>3. /\ steps' \in Seq(StepRecords) /\ Confirmed \subseteq Confirmed'
          /\ steps'[i0].status = "RUNNING"
        BY <1>7, <2>2 DEF Edited, SameCalls
    <2> QED
        BY <1>3, <1>4, <1>5, <1>7, <2>2, <2>3, ModelWriteJInv DEF ModelPlaces
<1>8. CASE steps' = steps /\ Moves(r, "recordFailedStep", i0, {}, "failRun", NoOut)
    <2>1. Journal' /\ ModelAt(i0)' /\ steps' \in Seq(StepRecords) /\ Confirmed \subseteq Confirmed'
        <3>1. Confirmed' = Confirmed
            BY <1>8 DEF Confirmed, Checkpointed, StepsOf
        <3> QED
            BY <1>4, <1>5, <1>8, <3>1, JournalStays, ModelAtStays DEF Types
    <2> QED
        BY <1>3, <1>4, <1>5, <1>8, <2>1, ModelWriteJInv DEF ModelPlaces
<1> QED
    BY <1>3, <1>6, <1>7, <1>8

\* A write to the last Model Step.
LEMMA ModelEditJInv ==
    ASSUME IInv, FreshIds, JInv, NEW r \in Runners, Fenced(r), loc'[r].ver = loc[r].ver,
           UNCHANGED <<run, lease, torn, effects, grants, resolutions>>,
           pc[r] \in Working \ UnsafePlaces, NEW i, i \in DOMAIN steps, ModelAt(i),
           NEW s, NEW a, Edited(i, s, a, steps[i].out),
           s = "SUCCEEDED" => \E j \in DOMAIN a : a[j] \in Received,
           NEW p, NEW k, NEW todo, NEW next, NEW out, Moves(r, p, k, todo, next, out),
           \/ p \in {"failRun", "cancelRun", "succeed"}
           \/ p \in ModelPlaces \ {"dispatchModel", "modelInFlight"} /\ k = i
           \/ p = "recordFailedStep" /\ next \in {"failRun", "cancelRun"} /\ k = i
    PROVE  JInv'
<1>1. Types /\ Journal /\ run.reason # "UNCERTAIN_NON_IDEMPOTENT"
    BY HolderWorks
<1>2. i # 0 /\ RunningTools = {}
    BY <1>1, AttemptFacts DEF ModelAt
<1>3. Journal' /\ SameCalls /\ ModelAt(i)' /\ RunningTools' = {}
    BY <1>1, <1>2, ModelEditJournal
<1>4. steps' \in Seq(StepRecords) /\ Confirmed \subseteq Confirmed'
    BY <1>3 DEF Edited, SameCalls
<1> QED
    BY <1>2, <1>3, <1>4, ModelWriteJInv

LEMMA DispatchModelJInv ==
    ASSUME IInv, FreshIds, JInv, NEW r \in Runners, DispatchModel(r)
    PROVE  JInv'
<1>1. PICK p0, i0, t0, n0 : p0 = pc[r] /\ i0 = loc[r].step /\ t0 = loc[r].todo /\ n0 = loc[r].next
    OBVIOUS
<1>2. /\ UNCHANGED <<run, lease, torn, effects, grants, loc, steps, resolutions>> /\ Fenced(r)
      /\ p0 = "dispatchModel" /\ pc' = [pc EXCEPT ![r] = "modelInFlight"]
    BY <1>1 DEF DispatchModel, callVars, countVars
<1>3. p0 \in Working /\ p0 \in ModelPlaces /\ p0 \notin UnsafePlaces
    BY <1>2 DEF Working, ModelPlaces, UnsafePlaces
<1>4. /\ WorkAt(p0, i0, t0, n0) /\ Types /\ Journal
    BY <1>1, <1>2, <1>3, HolderWorks
<1>5. ModelAt(i0) /\ RunningTools = {} /\ steps[i0].status = "RUNNING"
    BY <1>2, <1>3, <1>4 DEF WorkAt, ModelAt
<1>6. Moves(r, "modelInFlight", i0, t0, n0, loc[r].out)
    BY <1>1, <1>2, <1>4, Moved DEF PCs, Types
<1>7. Journal' /\ ModelAt(i0)' /\ steps' \in Seq(StepRecords) /\ steps'[i0].status = "RUNNING"
    <2>1. resolutions \in Nat
        BY <1>4 DEF Types
    <2> QED
        BY <1>2, <1>4, <1>5, <2>1, JournalStays, ModelAtStays DEF Types
<1>8. Confirmed \subseteq Confirmed'
    BY <1>2, ViewStays DEF SameView, SameCalls
<1>9. /\ loc'[r].ver = loc[r].ver /\ UNCHANGED <<run, lease, torn, effects, grants>>
      /\ pc[r] \in Working \ UnsafePlaces
    BY <1>1, <1>2, <1>3
<1> QED
    BY <1>2, <1>5, <1>6, <1>7, <1>8, <1>9, ModelWriteJInv DEF ModelPlaces

\* What a call on a Model Step starts from.
LEMMA ModelCallFacts ==
    ASSUME IInv, JInv, NEW r \in Runners, Fenced(r), pc[r] \in ModelPlaces,
           NEW i, i = loc[r].step
    PROVE  /\ Types /\ ModelAt(i) /\ BudgetAt(pc[r], i, loc[r].next)
           /\ pc[r] \in {"dispatchModel", "modelInFlight"} => steps[i].status = "RUNNING"
           /\ pc[r] \in Working \ UnsafePlaces
<1>1. pc[r] \in Working \ UnsafePlaces
    BY DEF Working, ModelPlaces, UnsafePlaces
<1>2. WorkAt(pc[r], i, loc[r].todo, loc[r].next) /\ Types /\ BudgetAt(pc[r], i, loc[r].next)
    BY HolderWorks
<1> QED
    BY <1>1, <1>2 DEF WorkAt

LEMMA ModelReturnsJInv ==
    ASSUME IInv, FreshIds, JInv, NEW r \in Runners, NEW n \in 0..MaxCalls, ModelReturns(r, n)
    PROVE  JInv'
<1>1. PICK i0 : i0 = loc[r].step
    OBVIOUS
<1>2. /\ Fenced(r) /\ loc'[r].ver = loc[r].ver /\ i0 \in DOMAIN steps
      /\ Edited(i0, "SUCCEEDED", steps[i0].atts, steps[i0].out)
      /\ Moves(r, "recordModelAttempt", i0, loc[r].todo, loc[r].next, n)
    BY <1>1, ModelReturnsDoes
<1>3. /\ UNCHANGED <<run, lease, torn, effects, grants, resolutions>> /\ pc[r] = "modelInFlight"
    BY DEF ModelReturns, callVars, countVars
<1>4. /\ Types /\ ModelAt(i0) /\ BudgetAt(pc[r], i0, loc[r].next)
      /\ pc[r] \in Working \ UnsafePlaces
    BY <1>1, <1>2, <1>3, ModelCallFacts DEF ModelPlaces
<1>5. \E j \in DOMAIN steps[i0].atts : steps[i0].atts[j] \in Received
    <2>1. EndsIn(i0, {"RUNNING"})
        BY <1>3, <1>4 DEF BudgetAt, InFlight
    <2>2. Len(steps[i0].atts) \in DOMAIN steps[i0].atts
        BY <1>2, <1>4, <2>1, AttemptFacts DEF EndsIn
    <2> QED
        BY <2>1, <2>2 DEF EndsIn, LastAttempt, Received
<1> QED
    BY <1>2, <1>3, <1>4, <1>5, ModelEditJInv DEF ModelPlaces

LEMMA RecordModelAttemptJInv ==
    ASSUME IInv, FreshIds, JInv, NEW r \in Runners, RecordModelAttempt(r)
    PROVE  JInv'
<1>1. PICK i0 : i0 = loc[r].step
    OBVIOUS
<1>2. PICK a : a = SetAttempt(steps[i0].atts, "SUCCEEDED")
    OBVIOUS
<1>3. /\ Fenced(r) /\ loc'[r].ver = loc[r].ver /\ i0 \in DOMAIN steps
      /\ Edited(i0, steps[i0].status, a, steps[i0].out)
      /\ Moves(r, "checkpointModel", i0, loc[r].todo, loc[r].next, loc[r].out)
    BY <1>1, <1>2, RecordModelAttemptDoes
<1>4. /\ UNCHANGED <<run, lease, torn, effects, grants, resolutions>>
      /\ pc[r] = "recordModelAttempt"
    BY DEF RecordModelAttempt, callVars, countVars
<1>5. /\ Types /\ ModelAt(i0) /\ pc[r] \in Working \ UnsafePlaces
    BY <1>1, <1>3, <1>4, ModelCallFacts DEF ModelPlaces
<1>6. \E j \in DOMAIN a : a[j] \in Received
    <2>1. "SUCCEEDED" \in AttemptStates
        BY DEF AttemptStates
    <2>2. a \in Seq(AttemptStates) /\ a # <<>> /\ a[Len(a)] = "SUCCEEDED"
        BY <1>2, <1>3, <2>1, AttemptEnds
    <2>3. Len(a) \in DOMAIN a
        BY <2>2
    <2> QED
        BY <2>2, <2>3 DEF Received
<1> QED
    BY <1>3, <1>4, <1>5, <1>6, ModelEditJInv DEF ModelPlaces

LEMMA ModelFailsJInv ==
    ASSUME IInv, FreshIds, JInv, NEW r \in Runners, NEW f \in {"TRANSIENT", "PERMANENT"},
           ModelFails(r, f)
    PROVE  JInv'
<1>1. PICK i0 : i0 = loc[r].step
    OBVIOUS
<1>2. PICK a, s : a = SetAttempt(steps[i0].atts, f) /\ s = steps[i0].status
    OBVIOUS
<1>3. /\ Fenced(r) /\ loc'[r].ver = loc[r].ver /\ i0 \in DOMAIN steps
      /\ pc[r] \in {"modelInFlight", "dispatchModel"}
      /\ Edited(i0, s, a, steps[i0].out)
      /\ \/ Moves(r, "recordFailedStep", i0, {}, "cancelRun", NoOut)
         \/ Moves(r, "recordFailedStep", i0, {}, "failRun", NoOut)
         \/ Moves(r, "model", i0, {}, "idle", NoOut)
    BY <1>1, <1>2, ModelFailsDoes DEF InFlight
<1>4. UNCHANGED <<run, lease, torn, effects, grants, resolutions>>
    BY DEF ModelFails, callVars, countVars
<1>5. ModelAt(i0) /\ s = "RUNNING" /\ pc[r] \in Working \ UnsafePlaces
    BY <1>1, <1>2, <1>3, ModelCallFacts DEF ModelPlaces
<1>6. s # "SUCCEEDED"
    BY <1>5
<1> QED
    BY <1>3, <1>4, <1>5, <1>6, ModelEditJInv DEF ModelPlaces

LEMMA UnconfirmModelJInv ==
    ASSUME IInv, FreshIds, JInv, NEW r \in Runners, UnconfirmModel(r)
    PROVE  JInv'
<1>1. PICK i0 : i0 = loc[r].step
    OBVIOUS
<1>2. PICK a0 : a0 = steps[i0].atts
    OBVIOUS
<1>3. PICK a : a = [a0 EXCEPT ![Len(a0)] = "UNCONFIRMED"]
    OBVIOUS
<1>4. /\ Fenced(r) /\ loc'[r].ver = loc[r].ver /\ i0 \in DOMAIN steps /\ a0 # <<>>
      /\ Edited(i0, steps[i0].status, a, steps[i0].out)
      /\ \/ Moves(r, "recordFailedStep", i0, {}, "failRun", NoOut)
         \/ Moves(r, "model", i0, {}, "idle", NoOut)
    BY <1>1, <1>2, <1>3, UnconfirmModelDoes
<1>5. /\ UNCHANGED <<run, lease, torn, effects, grants, resolutions>>
      /\ pc[r] = "unconfirmModel"
    BY DEF UnconfirmModel, callVars, countVars
<1>6. Types /\ ModelAt(i0) /\ pc[r] \in Working \ UnsafePlaces
    BY <1>1, <1>4, <1>5, ModelCallFacts DEF ModelPlaces
<1>7. \E j \in DOMAIN a : a[j] \in Received
    <2>1. a0 \in Seq(AttemptStates) /\ "UNCONFIRMED" \in AttemptStates
        BY <1>2, <1>4, <1>6, AttemptFacts DEF AttemptStates, FailedAttempts
    <2>2. a \in Seq(AttemptStates) /\ a # <<>> /\ a[Len(a)] = "UNCONFIRMED"
        BY <1>3, <1>4, <2>1, AttemptReplaced
    <2>3. Len(a) \in DOMAIN a
        BY <2>2
    <2> QED
        BY <2>2, <2>3 DEF Received
<1> QED
    BY <1>4, <1>5, <1>6, <1>7, ModelEditJInv DEF ModelPlaces

\* After a Checkpoint, the call goes on with the first call that is not confirmed,
\* of which there is no trace.
LEMMA NextToolJInv ==
    ASSUME IInv, FreshIds, JInv, NEW r \in Runners, Fenced(r), loc'[r].ver = loc[r].ver,
           UNCHANGED <<run, lease, torn, effects, grants>>, pc[r] \in Working,
           RunningTools = {}, RunningTools' = {}, OpenModels' = {}, Journal',
           Confirmed \subseteq Confirmed',
           pc[r] \in UnsafePlaces => steps[loc[r].step].call \in Confirmed',
           NEW U \in SUBSET (Nat \X Nat), U # {}, Unconfirmed' = U,
           NEW out, Moves(r, "tool", 0, U, "idle", out)
    PROVE  JInv'
<1>1. PICK p0, i0 : p0 = pc[r] /\ i0 = loc[r].step
    OBVIOUS
<1>2. \A c : TracedBy(c, p0, i0) => c \in Confirmed'
    BY <1>1 DEF TracedBy, UnsafeAt, Working
<1>3. WorkAt("tool", 0, U, "idle")'
    <2>1. ToolAt(0, U)'
        BY DEF ToolAt
    <2> QED
        BY <2>1 DEF WorkAt, ModelPlaces
<1>4. First(U) \in U /\ First(U) \notin Confirmed'
    BY FirstFacts, FreshUnconfirmedNext
<1>5. ASSUME NonIdempotent PROVE Unowed("tool")'
    <2>1. ASSUME NEW c \in Calls, c = First(U), Owed(c)' PROVE FALSE
        <3>1. Owed(c) /\ Covered(c)
            BY <1>5, <2>1 DEF Owed, JInv, EffectInv, Covers, NonIdempotent
        <3>2. Types /\ run.status = "RUNNING"
            BY HolderWorks
        <3>3. c \in Confirmed \/ TracedBy(c, p0, i0)
            BY <1>1, <3>1, <3>2, HolderCovers
        <3> QED
            BY <1>2, <1>4, <2>1, <3>3
    <2> QED
        BY <2>1 DEF Unowed
<1> QED
    BY <1>1, <1>2, <1>3, <1>5, WriteJInv

LEMMA CheckpointModelJInv ==
    ASSUME IInv, FreshIds, JInv, NEW r \in Runners, CheckpointModel(r)
    PROVE  JInv'
<1>1. PICK i0, n : i0 = loc[r].step /\ n = loc[r].out
    OBVIOUS
<1>2. PICK m : m = Cardinality(Checkpointed("MODEL"))
    OBVIOUS
<1>3. PICK U : U = {<<m + 1, k>> : k \in 1..n}
    OBVIOUS
<1>4. /\ Fenced(r) /\ loc'[r].ver = loc[r].ver /\ i0 \in DOMAIN steps /\ m \in Nat
      /\ n \in 0..MaxCalls
      /\ Edited(i0, steps[i0].status, steps[i0].atts, n)
      /\ \/ Moves(r, "cancelRun", 0, {}, "idle", NoOut)
         \/ Moves(r, "succeed", 0, {}, "idle", NoOut)
         \/ n # 0 /\ Moves(r, "tool", 0, U, "idle", NoOut)
    BY <1>1, <1>2, <1>3, CheckpointModelDoes
<1>5. /\ UNCHANGED <<run, lease, torn, effects, grants, resolutions>>
      /\ pc[r] = "checkpointModel"
    BY DEF CheckpointModel, callVars, countVars
<1>6. Types /\ ModelAt(i0) /\ pc[r] \in Working \ UnsafePlaces
    BY <1>1, <1>4, <1>5, ModelCallFacts DEF ModelPlaces
<1>7. Journal /\ run.reason # "UNCERTAIN_NON_IDEMPOTENT"
    BY <1>4, <1>6, HolderWorks
<1>8. n \in Nat
    BY <1>4, BoundsAssumption
<1>9. /\ Journal' /\ OpenModels' = {} /\ RunningTools' = {} /\ Confirmed' = Confirmed
      /\ Unconfirmed' = U
    BY <1>2, <1>3, <1>4, <1>5, <1>6, <1>7, <1>8, ModelCheckpointJournal
<1>10. RunningTools = {} /\ Confirmed \subseteq Confirmed' /\ steps' \in Seq(StepRecords)
    BY <1>4, <1>6, <1>9 DEF ModelAt, Edited
<1>11. CASE n # 0 /\ Moves(r, "tool", 0, U, "idle", NoOut)
    <2>1. U \in SUBSET (Nat \X Nat)
        BY <1>3, <1>4, <1>8
    <2>2. <<m + 1, 1>> \in U
        BY <1>3, <1>8, <1>11
    <2> QED
        BY <1>4, <1>5, <1>6, <1>9, <1>10, <1>11, <2>1, <2>2, NextToolJInv
<1>12. CASE \/ Moves(r, "cancelRun", 0, {}, "idle", NoOut)
            \/ Moves(r, "succeed", 0, {}, "idle", NoOut)
    BY <1>4, <1>5, <1>6, <1>9, <1>10, <1>12, ModelWriteJInv
<1> QED
    BY <1>4, <1>11, <1>12

------------------------------------------------------------------------------
(* Tool Steps. *)

\* The calls a Tool Step may have left to execute.
Left(todo) == todo = Unconfirmed \/ (resolutions # 0 /\ todo = {First(Unconfirmed)})

Dispatching == {"beginAttempt", "dispatchTool", "toolActed", "toolIdle"}

\* The call at p0 may set the target's status to s and go on at p.
ToolMove(p0, i, s, p, todo, next) ==
    /\ p0 \in Working /\ OpenModels = {} /\ Target(i) /\ RunningTools \subseteq {i}
    /\ p \in ToolPlaces \cup {"unconfirmTool", "enterWaiting", "recordFailedStep", "failRun",
                             "cancelRun"}
    /\ p \in ToolPlaces => Left(todo)
    /\ p \in Dispatching => s = "RUNNING"
    /\ p \in {"confirm", "recordToolAttempt", "checkpointTool", "enterWaiting"} => s # "RUNNING"
    /\ (p \notin ToolPlaces /\ next = "replay") =>
            (todo = Unconfirmed /\ Effect # "NON_IDEMPOTENT")
    /\ (NonIdempotent /\ steps[i].call \in Calls /\ Owed(steps[i].call)) =>
            /\ (i \in RunningTools \/ p0 \in UnsafePlaces) =>
                    (s = "RUNNING" \/ p \in UnsafePlaces \cup {"failRun", "cancelRun"})
            /\ p \notin {"tool", "beginAttempt", "dispatchTool", "toolIdle"}

\* A write to the target.
LEMMA ToolEditJInv ==
    ASSUME IInv, FreshIds, JInv, NEW r \in Runners, Fenced(r), loc'[r].ver = loc[r].ver,
           UNCHANGED <<run, lease, torn, effects, grants, resolutions>>,
           NEW i, i = loc[r].step, i \in DOMAIN steps,
           NEW s, NEW a, Edited(i, s, a, steps[i].out),
           NEW p, NEW todo, NEW next, NEW out, Moves(r, p, i, todo, next, out),
           NEW p0, p0 = pc[r], ToolMove(p0, i, s, p, todo, next)
    PROVE  JInv'
<1> DEFINE c == steps[i].call
<1>0. /\ p0 \in Working /\ OpenModels = {} /\ Target(i) /\ RunningTools \subseteq {i}
      /\ p \in ToolPlaces \cup {"unconfirmTool", "enterWaiting", "recordFailedStep", "failRun",
                               "cancelRun"}
      /\ p \in ToolPlaces => Left(todo)
      /\ p \in Dispatching => s = "RUNNING"
      /\ p \in {"confirm", "recordToolAttempt", "checkpointTool", "enterWaiting"} => s # "RUNNING"
      /\ (p \notin ToolPlaces /\ next = "replay") =>
            (todo = Unconfirmed /\ Effect # "NON_IDEMPOTENT")
      /\ (NonIdempotent /\ c \in Calls /\ Owed(c)) =>
            /\ (i \in RunningTools \/ p0 \in UnsafePlaces) =>
                    (s = "RUNNING" \/ p \in UnsafePlaces \cup {"failRun", "cancelRun"})
            /\ p \notin {"tool", "beginAttempt", "dispatchTool", "toolIdle"}
    BY DEF ToolMove
<1>1. Types /\ Journal /\ run.reason # "UNCERTAIN_NON_IDEMPOTENT"
    BY <1>0, HolderWorks
<1>2. /\ Journal' /\ SameCalls /\ Target(i)' /\ OpenModels' = {}
      /\ s = "RUNNING" => RunningTools' = {i}
      /\ s # "RUNNING" => RunningTools' = {}
      /\ steps'[i].call = c
    BY <1>0, <1>1, ToolEditJournal
<1>3. i # 0 /\ RunningTools' \subseteq {i}
    BY <1>1, <1>2, AttemptFacts
<1>4. Unconfirmed # {} /\ Unconfirmed' = Unconfirmed /\ c = First(Unconfirmed)
    BY <1>0, <1>2 DEF SameCalls, Target
<1>5. WorkAt(p, i, todo, next)'
    <2>1. p \in ToolPlaces => ToolAt(i, todo)'
        BY <1>0, <1>2, <1>3, <1>4 DEF ToolAt, Left
    <2>2. p \notin ToolPlaces => BrokenAt(i, todo, next)'
        BY <1>0, <1>2, <1>3, <1>4 DEF BrokenAt
    <2>3. p \notin ModelPlaces
        BY <1>0 DEF ToolPlaces, ModelPlaces
    <2>4. p \notin {"reopen", "RETRY_STEP", "CONFIRM_STEP", "dispatchModel", "modelInFlight"}
        BY <1>0 DEF ToolPlaces
    <2> QED
        BY <1>0, <1>2, <2>1, <2>2, <2>3, <2>4 DEF WorkAt, Dispatching, ToolPlaces
<1>6. Confirmed \subseteq Confirmed'
    BY <1>2 DEF SameCalls
<1>8. ASSUME NonIdempotent, NEW d \in Calls, Owed(d), TracedBy(d, p0, i)
      PROVE  TracedBy(d, p, i)'
    <2>1. d = c /\ (i \in RunningTools \/ p0 \in UnsafePlaces)
        BY <1>0, <1>8 DEF TracedBy, UnsafeAt, Working
    <2>2. s = "RUNNING" \/ p \in UnsafePlaces \cup {"failRun", "cancelRun"}
        BY <1>0, <1>8, <2>1
    <2>3. i \in RunningTools' \/ UnsafeAt(p, i)'
        BY <1>2, <2>2 DEF UnsafeAt, Target
    <2> QED
        BY <1>2, <2>1, <2>3 DEF TracedBy
<1>9. ASSUME NonIdempotent PROVE Unowed(p)'
    <2>1. \A d : Owed(d)' <=> Owed(d)
        BY DEF Owed
    <2>2. First(Unconfirmed') = c /\ steps'[i].call = c
        BY <1>2, <1>4
    <2> QED
        BY <1>0, <1>9, <2>1, <2>2 DEF Unowed
<1> QED
    BY <1>0, <1>2, <1>5, <1>6, <1>8, <1>9, WriteJInv

\* What a call on a Tool Step starts from.
LEMMA ToolCallFacts ==
    ASSUME IInv, JInv, NEW r \in Runners, Fenced(r), pc[r] \in ToolPlaces,
           NEW i, i = loc[r].step, NEW todo, todo = loc[r].todo
    PROVE  /\ Types /\ Journal /\ pc[r] \in Working /\ run.reason # "UNCERTAIN_NON_IDEMPOTENT"
           /\ OpenModels = {} /\ Unconfirmed # {} /\ Left(todo)
           /\ i = 0 => RunningTools = {}
           /\ i # 0 => (Target(i) /\ RunningTools \subseteq {i} /\ steps[i].call = First(todo))
           /\ pc[r] \in Dispatching => i \in RunningTools
           /\ pc[r] \in {"confirm", "recordToolAttempt", "checkpointTool"} => RunningTools = {}
           /\ First(todo) = First(Unconfirmed) /\ First(todo) \in Unconfirmed
           /\ (NonIdempotent /\ pc[r] \in {"tool", "beginAttempt", "dispatchTool", "toolIdle"}
                /\ First(todo) \in Calls) => ~Owed(First(todo))
<1>1. pc[r] \in Working
    BY DEF Working, ToolPlaces
<1>2. PICK p0, n0 : p0 = pc[r] /\ n0 = loc[r].next
    OBVIOUS
<1>3. /\ WorkAt(p0, i, todo, n0) /\ Types /\ Journal /\ run.reason # "UNCERTAIN_NON_IDEMPOTENT"
      /\ NonIdempotent => Unowed(p0)
    BY <1>1, <1>2, HolderWorks
<1>4. /\ ToolAt(i, todo) /\ (pc[r] \in Dispatching => i \in RunningTools)
      /\ pc[r] \in {"confirm", "recordToolAttempt", "checkpointTool"} => RunningTools = {}
    BY <1>2, <1>3 DEF WorkAt, Dispatching
<1>5. First(todo) = First(Unconfirmed) /\ First(todo) \in Unconfirmed
    BY <1>3, <1>4, UnconfirmedFacts DEF ToolAt
<1>6. /\ OpenModels = {} /\ Unconfirmed # {} /\ Left(todo)
      /\ i = 0 => RunningTools = {}
      /\ i # 0 => (Target(i) /\ RunningTools \subseteq {i} /\ steps[i].call = First(todo))
    BY <1>4, <1>5 DEF ToolAt, Left, Target
<1>7. (NonIdempotent /\ pc[r] \in {"tool", "beginAttempt", "dispatchTool", "toolIdle"}
                /\ First(todo) \in Calls) => ~Owed(First(todo))
    BY <1>2, <1>3, <1>5 DEF Unowed
<1> QED
    BY <1>1, <1>3, <1>4, <1>5, <1>6, <1>7

LEMMA BeginToolStepJInv ==
    ASSUME IInv, FreshIds, JInv, NEW r \in Runners, BeginToolStep(r)
    PROVE  JInv'
<1>1. PICK i0, t0 : i0 = loc[r].step /\ t0 = loc[r].todo
    OBVIOUS
<1>2. PICK n, c : n = Len(steps) + 1 /\ c = First(t0)
    OBVIOUS
<1>3. /\ Fenced(r) /\ loc'[r].ver = loc[r].ver
      /\ \/ /\ i0 = 0 /\ Appended("TOOL", "RUNNING", c, <<>>)
            /\ Moves(r, "beginAttempt", n, t0, "idle", NoOut)
         \/ /\ i0 \in DOMAIN steps
            /\ Edited(i0, "RUNNING", steps[i0].atts, steps[i0].out)
            /\ Moves(r, "beginAttempt", i0, t0, "idle", NoOut)
    BY <1>1, <1>2, BeginToolStepDoes
<1>4. /\ UNCHANGED <<run, lease, torn, effects, grants, resolutions>> /\ pc[r] = "tool"
    BY DEF BeginToolStep, callVars, countVars
<1>5. /\ Types /\ Journal /\ pc[r] \in Working /\ run.reason # "UNCERTAIN_NON_IDEMPOTENT"
      /\ OpenModels = {} /\ Unconfirmed # {} /\ Left(t0)
      /\ i0 = 0 => RunningTools = {}
      /\ i0 # 0 => (Target(i0) /\ RunningTools \subseteq {i0} /\ steps[i0].call = c)
      /\ c = First(Unconfirmed)
      /\ (NonIdempotent /\ c \in Calls) => ~Owed(c)
    BY <1>1, <1>2, <1>3, <1>4, ToolCallFacts DEF ToolPlaces
<1>6. CASE /\ i0 = 0 /\ Appended("TOOL", "RUNNING", c, <<>>)
           /\ Moves(r, "beginAttempt", n, t0, "idle", NoOut)
    <2>1. /\ Journal' /\ SameCalls /\ OpenModels' = {} /\ RunningTools' = {n}
          /\ Target(n)' /\ n # 0
        BY <1>2, <1>4, <1>5, <1>6, ToolAppendJournal
    <2>2. WorkAt("beginAttempt", n, t0, "idle")'
        <3>1. ToolAt(n, t0)'
            BY <1>4, <1>5, <2>1 DEF ToolAt, Left, SameCalls
        <3> QED
            BY <2>1, <3>1 DEF WorkAt, ModelPlaces
    <2>3. Confirmed \subseteq Confirmed' /\ Unconfirmed' = Unconfirmed
        BY <2>1 DEF SameCalls
    <2>4. \A d : ~TracedBy(d, "tool", 0)
        BY <1>5, <1>6 DEF TracedBy, UnsafeAt, UnsafePlaces
    <2>5. NonIdempotent => Unowed("beginAttempt")'
        <3>1. First(Unconfirmed') = c /\ \A d : Owed(d)' <=> Owed(d)
            BY <1>4, <1>5, <2>3 DEF Owed
        <3> QED
            BY <1>5, <3>1 DEF Unowed
    <2>6. /\ UNCHANGED <<run, lease, torn, effects, grants>>
          /\ "tool" = pc[r] /\ "tool" \in Working /\ 0 = loc[r].step
        BY <1>1, <1>4, <1>5, <1>6
    <2> QED
        BY <1>3, <1>6, <2>1, <2>2, <2>3, <2>4, <2>5, <2>6, WriteJInv
<1>7. CASE /\ i0 \in DOMAIN steps
           /\ Edited(i0, "RUNNING", steps[i0].atts, steps[i0].out)
           /\ Moves(r, "beginAttempt", i0, t0, "idle", NoOut)
    <2>1. i0 # 0
        BY <1>5, <1>7, AttemptFacts
    <2>2. PICK p, s, a : /\ p = "beginAttempt" /\ s = "RUNNING" /\ a = steps[i0].atts
                         /\ Edited(i0, s, a, steps[i0].out) /\ Moves(r, p, i0, t0, "idle", NoOut)
        BY <1>7
    <2>3. ToolMove("tool", i0, s, p, t0, "idle")
        BY <1>4, <1>5, <2>1, <2>2 DEF ToolMove, ToolPlaces, Dispatching
    <2> QED
        BY <1>1, <1>3, <1>4, <1>7, <2>2, <2>3, ToolEditJInv
<1> QED
    BY <1>3, <1>6, <1>7

LEMMA BeginToolAttemptJInv ==
    ASSUME IInv, FreshIds, JInv, NEW r \in Runners, BeginToolAttempt(r)
    PROVE  JInv'
<1>1. PICK i0, t0, n0 : i0 = loc[r].step /\ t0 = loc[r].todo /\ n0 = loc[r].next
    OBVIOUS
<1>2. PICK a, c : a = Append(steps[i0].atts, "RUNNING") /\ c = First(t0)
    OBVIOUS
<1>3. /\ Fenced(r) /\ loc'[r].ver = loc[r].ver /\ i0 \in DOMAIN steps
      /\ Edited(i0, steps[i0].status, a, steps[i0].out)
      /\ Moves(r, "dispatchTool", i0, t0, n0, loc[r].out)
    BY <1>1, <1>2, BeginToolAttemptDoes
<1>4. /\ UNCHANGED <<run, lease, torn, effects, grants, resolutions>> /\ pc[r] = "beginAttempt"
    BY DEF BeginToolAttempt, callVars, countVars
<1>5. /\ Types /\ pc[r] \in Working /\ OpenModels = {} /\ Left(t0)
      /\ i0 # 0 => (Target(i0) /\ RunningTools \subseteq {i0} /\ steps[i0].call = c)
      /\ i0 \in RunningTools
      /\ (NonIdempotent /\ c \in Calls) => ~Owed(c)
    BY <1>1, <1>2, <1>3, <1>4, ToolCallFacts DEF ToolPlaces, Dispatching
<1>6. i0 # 0 /\ steps[i0].status = "RUNNING"
    BY <1>3, <1>5, AttemptFacts DEF RunningTools
<1>7. PICK p, s : /\ p = "dispatchTool" /\ s = steps[i0].status
                  /\ Edited(i0, s, a, steps[i0].out) /\ Moves(r, p, i0, t0, n0, loc[r].out)
    BY <1>3
<1>8. ToolMove("beginAttempt", i0, s, p, t0, n0)
    BY <1>4, <1>5, <1>6, <1>7 DEF ToolMove, ToolPlaces, Dispatching
<1> QED
    BY <1>1, <1>3, <1>4, <1>7, <1>8, ToolEditJInv

\* The effect happens only while no other is owed, and leaves its trace.
LEMMA InvokeToolJInv ==
    ASSUME IInv, FreshIds, JInv, NEW r \in Runners, NEW happens \in BOOLEAN, InvokeTool(r, happens)
    PROVE  JInv'
<1>1. PICK i0, t0, n0 : i0 = loc[r].step /\ t0 = loc[r].todo /\ n0 = loc[r].next
    OBVIOUS
<1>2. PICK c, k : c = First(t0) /\ k = IF happens THEN 1 ELSE 0
    OBVIOUS
<1>3. PICK p \in {"toolActed", "toolIdle"} :
            (happens <=> p = "toolActed") /\ Moves(r, p, i0, t0, n0, loc[r].out)
    BY <1>1, InvokeToolDoes
<1>4. /\ Fenced(r) /\ loc'[r].ver = loc[r].ver
      /\ UNCHANGED <<run, lease, torn, grants, steps, resolutions>> /\ pc[r] = "dispatchTool"
      /\ effects' = [effects EXCEPT ![c] = effects[c] + k]
    BY <1>1, <1>2 DEF InvokeTool, countVars
<1>5. /\ Types /\ Journal /\ pc[r] \in Working /\ OpenModels = {} /\ Left(t0) /\ Unconfirmed # {}
      /\ i0 # 0 => (Target(i0) /\ RunningTools \subseteq {i0} /\ steps[i0].call = c)
      /\ i0 \in RunningTools /\ c = First(Unconfirmed)
      /\ (NonIdempotent /\ c \in Calls) => ~Owed(c)
    BY <1>1, <1>2, <1>4, ToolCallFacts DEF ToolPlaces, Dispatching
<1>6. i0 # 0
    BY <1>5, AttemptFacts DEF RunningTools, StepsOf
<1>7. SameView
    BY <1>4, ViewStays
<1>8. Journal'
    BY <1>4, <1>5, JournalStays DEF Types
<1>9. WorkAt(p, i0, t0, n0)'
    <2>1. ToolAt(i0, t0)' /\ i0 \in RunningTools'
        BY <1>4, <1>5, <1>6, <1>7 DEF ToolAt, SameView, SameCalls, Left
    <2> QED
        BY <2>1 DEF WorkAt, ModelPlaces
<1>10. effects \in [Calls -> Nat] /\ grants \in [Calls -> Nat] /\ k \in Nat /\ k <= 1
    BY <1>2 DEF JInv, EffectTypes
<1>11. /\ effects' \in [Calls -> Nat]
       /\ \A d \in Calls : d # c => effects'[d] = effects[d]
       /\ c \in Calls => effects'[c] = effects[c] + k
    <2>1. effects' = [effects EXCEPT ![c] = effects[c] + k]
        BY <1>4
    <2>2. CASE c \in Calls
        <3>1. PICK m : m = effects[c] + k
            OBVIOUS
        <3>2. m \in Nat
            BY <1>10, <2>2, <3>1
        <3>3. effects' = [effects EXCEPT ![c] = m]
            BY <2>1, <3>1
        <3> QED
            BY <1>10, <2>2, <3>1, <3>2, <3>3
    <2>3. CASE c \notin Calls
        <3>1. effects' = effects
            BY <1>10, <2>1, <2>3
        <3> QED
            BY <1>10, <2>3, <3>1
    <2> QED
        BY <2>2, <2>3
<1>12. EffectTypes'
    BY <1>4, <1>11 DEF JInv, EffectTypes
<1>13. \A d \in Calls : d # c => (Owed(d)' <=> Owed(d))
    BY <1>4, <1>11 DEF Owed
<1>14. ASSUME NonIdempotent PROVE AtMostOnce'
    <2>1. \A d \in Calls : d # c => effects'[d] <= 1 + grants'[d]
        BY <1>4, <1>11, <1>14 DEF JInv, EffectInv, NonIdempotent, AtMostOnce
    <2>2. c \in Calls => effects'[c] <= 1 + grants'[c]
        <3> SUFFICES ASSUME c \in Calls PROVE effects'[c] <= 1 + grants'[c]
            OBVIOUS
        <3>1. effects[c] \in Nat /\ grants[c] \in Nat /\ ~(effects[c] > grants[c])
            BY <1>5, <1>10, <1>14 DEF Owed
        <3>2. effects'[c] = effects[c] + k /\ grants'[c] = grants[c]
            BY <1>4, <1>11
        <3> QED
            BY <1>10, <3>1, <3>2
    <2> QED
        BY <2>1, <2>2 DEF AtMostOnce
<1>15. ASSUME NonIdempotent, NEW d \in Calls, Owed(d)'
       PROVE  d \in Confirmed' \/ TracedBy(d, p, i0)'
    <2>1. CASE d = c
        BY <1>4, <1>5, <1>6, <1>7, <2>1 DEF TracedBy, SameView
    <2>2. CASE d # c
        <3>1. Owed(d) /\ Covered(d)
            BY <1>13, <1>15, <2>2 DEF JInv, EffectInv, Covers, NonIdempotent
        <3>2. run.status = "RUNNING"
            BY <1>4, <1>5, HolderWorks
        <3>3. d \in Confirmed \/ TracedBy(d, "dispatchTool", i0)
            BY <1>1, <1>4, <1>5, <3>1, <3>2, HolderCovers
        <3> QED
            BY <1>4, <1>7, <3>3 DEF TracedBy, UnsafeAt, UnsafePlaces, SameView, SameCalls
    <2> QED
        BY <2>1, <2>2
<1>16. ASSUME NonIdempotent PROVE Unowed(p)'
    <2>1. ASSUME c \in Calls, p = "toolIdle" PROVE ~Owed(c)'
        <3>1. k = 0 /\ effects[c] \in Nat
            BY <1>2, <1>3, <1>10, <2>1
        <3>2. effects'[c] = effects[c] /\ grants'[c] = grants[c]
            BY <1>4, <1>11, <2>1, <3>1
        <3> QED
            BY <1>5, <1>16, <2>1, <3>2 DEF Owed
    <2>2. First(Unconfirmed') = c
        BY <1>5, <1>7 DEF SameView, SameCalls
    <2> QED
        BY <1>3, <2>1, <2>2 DEF Unowed
<1>17. UNCHANGED <<run, lease, torn>> /\ run.status = "RUNNING"
    BY <1>4, <1>5, HolderWorks
<1> QED
    BY <1>3, <1>4, <1>8, <1>9, <1>12, <1>14, <1>15, <1>16, <1>17, CallJInv

LEMMA ToolReturnsJInv ==
    ASSUME IInv, FreshIds, JInv, NEW r \in Runners, ToolReturns(r)
    PROVE  JInv'
<1>1. PICK p0, i0, t0, n0 : p0 = pc[r] /\ i0 = loc[r].step /\ t0 = loc[r].todo /\ n0 = loc[r].next
    OBVIOUS
<1>2. PICK p, s, a : p = "recordToolAttempt" /\ s = "SUCCEEDED" /\ a = steps[i0].atts
    OBVIOUS
<1>3. /\ Fenced(r) /\ loc'[r].ver = loc[r].ver /\ i0 \in DOMAIN steps
      /\ Edited(i0, s, a, steps[i0].out) /\ Moves(r, p, i0, t0, n0, loc[r].out)
    BY <1>1, <1>2, ToolReturnsDoes
<1>4. /\ UNCHANGED <<run, lease, torn, effects, grants, resolutions>>
      /\ p0 \in {"toolActed", "confirm"}
    BY <1>1 DEF ToolReturns, callVars, countVars
<1>5. /\ Types /\ p0 \in Working /\ OpenModels = {} /\ Left(t0)
      /\ i0 # 0 => (Target(i0) /\ RunningTools \subseteq {i0})
    BY <1>1, <1>3, <1>4, ToolCallFacts DEF ToolPlaces
<1>6. i0 # 0
    BY <1>3, <1>5, AttemptFacts
<1>7. ToolMove(p0, i0, s, p, t0, n0)
    BY <1>2, <1>5, <1>6 DEF ToolMove, ToolPlaces, Dispatching, UnsafePlaces
<1> QED
    BY <1>1, <1>3, <1>4, <1>7, ToolEditJInv

LEMMA RecordToolAttemptJInv ==
    ASSUME IInv, FreshIds, JInv, NEW r \in Runners, RecordToolAttempt(r)
    PROVE  JInv'
<1>1. PICK p0, i0, t0, n0 : p0 = pc[r] /\ i0 = loc[r].step /\ t0 = loc[r].todo /\ n0 = loc[r].next
    OBVIOUS
<1>2. PICK p, s, a : /\ p = "checkpointTool" /\ s = "SUCCEEDED"
                     /\ a = SetAttempt(steps[i0].atts, "SUCCEEDED")
    OBVIOUS
<1>3. /\ Fenced(r) /\ loc'[r].ver = loc[r].ver /\ i0 \in DOMAIN steps
      /\ Edited(i0, s, a, steps[i0].out) /\ Moves(r, p, i0, t0, n0, loc[r].out)
    BY <1>1, <1>2, RecordToolAttemptDoes
<1>4. /\ UNCHANGED <<run, lease, torn, effects, grants, resolutions>>
      /\ p0 = "recordToolAttempt"
    BY <1>1 DEF RecordToolAttempt, callVars, countVars
<1>5. /\ Types /\ p0 \in Working /\ OpenModels = {} /\ Left(t0)
      /\ i0 # 0 => (Target(i0) /\ RunningTools \subseteq {i0})
    <2>1. Fenced(r) /\ pc[r] \in ToolPlaces /\ p0 = pc[r]
        BY <1>1, <1>3, <1>4 DEF ToolPlaces
    <2> QED
        BY <1>1, <2>1, ToolCallFacts
<1>6. i0 # 0
    BY <1>3, <1>5, AttemptFacts
<1>7. ToolMove(p0, i0, s, p, t0, n0)
    BY <1>2, <1>5, <1>6 DEF ToolMove, ToolPlaces, Dispatching, UnsafePlaces
<1> QED
    BY <1>1, <1>3, <1>4, <1>7, ToolEditJInv

LEMMA CheckpointToolJInv ==
    ASSUME IInv, FreshIds, JInv, NEW r \in Runners, CheckpointTool(r)
    PROVE  JInv'
<1>1. PICK p0, i0, t0 : p0 = pc[r] /\ i0 = loc[r].step /\ t0 = loc[r].todo
    OBVIOUS
<1>2. PICK c, rest : c = steps[i0].call /\ rest = t0 \ {First(t0)}
    OBVIOUS
<1>3. /\ Fenced(r) /\ loc'[r].ver = loc[r].ver /\ i0 \in DOMAIN steps
      /\ Edited(i0, steps[i0].status, steps[i0].atts, 0)
      /\ \/ rest = {} /\ Moves(r, "model", 0, {}, "idle", NoOut)
         \/ rest # {} /\ Moves(r, "tool", 0, rest, "idle", NoOut)
    BY <1>1, <1>2, CheckpointToolDoes
<1>4. /\ UNCHANGED <<run, lease, torn, effects, grants, resolutions>> /\ p0 = "checkpointTool"
    BY <1>1 DEF CheckpointTool, callVars, countVars
<1>5. /\ Types /\ Journal /\ p0 \in Working /\ run.reason # "UNCERTAIN_NON_IDEMPOTENT"
      /\ OpenModels = {} /\ RunningTools = {} /\ Left(t0) /\ Unconfirmed # {}
      /\ i0 # 0 => (Target(i0) /\ c = First(t0))
      /\ First(t0) = First(Unconfirmed)
    <2>1. Fenced(r) /\ pc[r] \in ToolPlaces /\ p0 = pc[r] /\ pc[r] = "checkpointTool"
        BY <1>1, <1>3, <1>4 DEF ToolPlaces
    <2> QED
        BY <1>1, <1>2, <2>1, ToolCallFacts
<1>6. i0 # 0
    BY <1>3, <1>5, AttemptFacts
<1>7. /\ Journal' /\ OpenModels' = {} /\ RunningTools' = {}
      /\ Confirmed' = Confirmed \cup {c}
      /\ Unconfirmed' = Unconfirmed \ {First(Unconfirmed)}
    BY <1>2, <1>3, <1>4, <1>5, <1>6, ToolCheckpointJournal
<1>8. Confirmed \subseteq Confirmed' /\ c \in Confirmed'
    BY <1>7
<1>9. /\ rest # {} => rest = Unconfirmed'
      /\ (rest = {} /\ resolutions' = 0) => Unconfirmed' = {}
    BY <1>2, <1>4, <1>5, <1>7 DEF Left
<1>10. UNCHANGED <<run, lease, torn, effects, grants>>
    BY <1>4
<1>11. CASE rest = {} /\ Moves(r, "model", 0, {}, "idle", NoOut)
    <2>1. WorkAt("model", 0, {}, "idle")'
        <3>1. ModelAt(0)'
            BY <1>7, <1>9, <1>11 DEF ModelAt
        <3> QED
            BY <3>1 DEF WorkAt, ToolPlaces
    <2>2. \A d : TracedBy(d, p0, i0) => d \in Confirmed'
        BY <1>2, <1>5, <1>8 DEF TracedBy
    <2>3. Unowed("model")'
        BY DEF Unowed
    <2> QED
        BY <1>1, <1>3, <1>5, <1>7, <1>8, <1>10, <1>11, <2>1, <2>2, <2>3, WriteJInv
<1>12. CASE rest # {} /\ Moves(r, "tool", 0, rest, "idle", NoOut)
    <2>1. rest \in SUBSET (Nat \X Nat)
        BY <1>1, <1>2, <1>3, HolderKnows
    <2>2. steps[loc[r].step].call \in Confirmed' /\ pc[r] \in Working
        BY <1>1, <1>2, <1>5, <1>8
    <2> QED
        BY <1>3, <1>5, <1>7, <1>8, <1>9, <1>10, <1>12, <2>1, <2>2, NextToolJInv
<1> QED
    BY <1>3, <1>11, <1>12

LEMMA ToolFailsJInv ==
    ASSUME IInv, FreshIds, JInv, NEW r \in Runners,
           NEW f \in {"TRANSIENT", "PERMANENT", "UNCERTAIN"}, ToolFails(r, f)
    PROVE  JInv'
<1>1. PICK p0, i0, t0 : p0 = pc[r] /\ i0 = loc[r].step /\ t0 = loc[r].todo
    OBVIOUS
<1>2. PICK s, a : s = steps[i0].status /\ a = SetAttempt(steps[i0].atts, f)
    OBVIOUS
<1>3. PICK p, todo, next :
            /\ Moves(r, p, i0, todo, next, NoOut)
            /\ \/ p = "recordFailedStep" /\ next = "enterWaiting"
               \/ /\ f # "UNCERTAIN" \/ Effect # "NON_IDEMPOTENT"
                  /\ p = "recordFailedStep" /\ next \in {"failRun", "cancelRun"}
               \/ f = "TRANSIENT" /\ p = "tool" /\ todo = t0 /\ next = "idle"
    BY <1>1, ToolFailsDoes
<1>4. /\ Fenced(r) /\ loc'[r].ver = loc[r].ver /\ i0 \in DOMAIN steps
      /\ Edited(i0, s, a, steps[i0].out)
      /\ p0 = "toolIdle" \/ (p0 = "toolActed" /\ f # "TRANSIENT")
    BY <1>1, <1>2, ToolFailsDoes DEF InFlight
<1>5. UNCHANGED <<run, lease, torn, effects, grants, resolutions>>
    BY DEF ToolFails, callVars, countVars
<1>6. /\ Types /\ p0 \in Working /\ OpenModels = {} /\ Left(t0) /\ i0 \in RunningTools
      /\ i0 # 0 => (Target(i0) /\ RunningTools \subseteq {i0} /\ steps[i0].call = First(t0))
      /\ (NonIdempotent /\ p0 = "toolIdle" /\ First(t0) \in Calls) => ~Owed(First(t0))
    <2>1. Fenced(r) /\ pc[r] \in ToolPlaces /\ p0 = pc[r] /\ pc[r] \in Dispatching
        BY <1>1, <1>4 DEF ToolPlaces, Dispatching
    <2> QED
        BY <1>1, <2>1, ToolCallFacts
<1>7. i0 # 0 /\ s = "RUNNING"
    BY <1>2, <1>4, <1>6, AttemptFacts DEF RunningTools
<1>8. ToolMove(p0, i0, s, p, todo, next)
    <2>1. (NonIdempotent /\ steps[i0].call \in Calls /\ Owed(steps[i0].call)) => p # "tool"
        BY <1>3, <1>4, <1>6, <1>7 DEF NonIdempotent
    <2>2. p \in {"recordFailedStep", "tool"} /\ next # "replay" /\ (p = "tool" => Left(todo))
          /\ (next = "enterWaiting" => p = "recordFailedStep")
        BY <1>3, <1>6
    <2> QED
        BY <1>6, <1>7, <2>1, <2>2 DEF ToolMove, ToolPlaces, Dispatching
<1> QED
    BY <1>1, <1>3, <1>4, <1>5, <1>8, ToolEditJInv

\* What a call that gives up a Tool Step starts from.
LEMMA BrokenFacts ==
    ASSUME Types, NEW i, NEW todo, NEW next, BrokenAt(i, todo, next)
    PROVE  /\ OpenModels = {} /\ Target(i) /\ RunningTools \subseteq {i}
           /\ next = "replay" => (todo = Unconfirmed /\ Effect # "NON_IDEMPOTENT")
           /\ i \in DOMAIN steps /\ i \in StepsOf("TOOL") /\ i # 0
<1>1. i \in DOMAIN steps /\ i \in StepsOf("TOOL")
    BY DEF BrokenAt, Target, StepsOf
<1> QED
    BY <1>1, AttemptFacts DEF BrokenAt

LEMMA UnconfirmToolJInv ==
    ASSUME IInv, FreshIds, JInv, NEW r \in Runners, UnconfirmTool(r)
    PROVE  JInv'
<1>1. PICK p0, i0, t0, n0 : p0 = pc[r] /\ i0 = loc[r].step /\ t0 = loc[r].todo /\ n0 = loc[r].next
    OBVIOUS
<1>2. PICK p, s, a : /\ p = "recordFailedStep" /\ s = steps[i0].status
                     /\ a = SetAttempt(steps[i0].atts, "UNCERTAIN")
    OBVIOUS
<1>3. /\ Fenced(r) /\ loc'[r].ver = loc[r].ver /\ i0 \in DOMAIN steps
      /\ n0 \in {"enterWaiting", "replay"}
      /\ Edited(i0, s, a, steps[i0].out) /\ Moves(r, p, i0, t0, n0, loc[r].out)
    BY <1>1, <1>2, UnconfirmToolDoes
<1>4. /\ UNCHANGED <<run, lease, torn, effects, grants, resolutions>> /\ p0 = "unconfirmTool"
    BY <1>1 DEF UnconfirmTool, callVars, countVars
<1>5. Types /\ WorkAt(p0, i0, t0, n0)
    BY <1>1, <1>3, HolderWorks
<1>6. /\ OpenModels = {} /\ Target(i0) /\ RunningTools \subseteq {i0}
      /\ n0 = "replay" => (t0 = Unconfirmed /\ Effect # "NON_IDEMPOTENT")
    <2>1. BrokenAt(i0, t0, n0)
        BY <1>4, <1>5 DEF WorkAt
    <2> QED
        BY <1>5, <2>1, BrokenFacts
<1>7. i0 \in RunningTools => s = "RUNNING"
    BY <1>2 DEF RunningTools
<1>8. ToolMove(p0, i0, s, p, t0, n0)
    BY <1>2, <1>3, <1>4, <1>6, <1>7 DEF ToolMove, ToolPlaces, Dispatching, UnsafePlaces, Working
<1> QED
    BY <1>1, <1>3, <1>4, <1>8, ToolEditJInv

\* _record_failed_step of a Model Step, or of one that was never created.
LEMMA RecordFailedModelJInv ==
    ASSUME IInv, FreshIds, JInv, NEW r \in Runners, RecordFailedStep(r),
           loc[r].next \in {"failRun", "cancelRun"}, ModelAt(loc[r].step)
    PROVE  JInv'
<1>1. PICK p0, i0, n0 : p0 = pc[r] /\ i0 = loc[r].step /\ n0 = loc[r].next
    OBVIOUS
<1>2. PICK n : n = Len(steps) + 1
    OBVIOUS
<1>3. /\ Fenced(r) /\ loc'[r].ver = loc[r].ver
      /\ \/ i0 = 0 /\ Appended("MODEL", "FAILED", NoCall, <<>>)
         \/ i0 \in DOMAIN steps /\ Edited(i0, "FAILED", steps[i0].atts, steps[i0].out)
      /\ Moves(r, n0, i0, {}, "idle", NoOut)
    BY <1>1, RecordFailedStepDoes
<1>4. /\ UNCHANGED <<run, lease, torn, effects, grants, resolutions>> /\ p0 = "recordFailedStep"
    BY <1>1 DEF RecordFailedStep, callVars, countVars
<1>5. pc[r] \in Working \ UnsafePlaces /\ n0 \in {"failRun", "cancelRun"} /\ ModelAt(i0)
    BY <1>1, <1>4 DEF Working, UnsafePlaces
<1>6. Types /\ Journal /\ run.reason # "UNCERTAIN_NON_IDEMPOTENT"
    BY <1>3, <1>5, HolderWorks
<1>7. CASE i0 = 0 /\ Appended("MODEL", "FAILED", NoCall, <<>>)
    <2>1. Journal' /\ SameCalls /\ RunningTools' = {}
        <3>1. PICK s, a, c : s # "SUCCEEDED" /\ Appended("MODEL", s, c, a)
            BY <1>7
        <3> QED
            BY <1>2, <1>4, <1>5, <1>6, <1>7, <3>1, ModelAppendJournal
    <2>2. steps' \in Seq(StepRecords) /\ Confirmed \subseteq Confirmed' /\ RunningTools = {}
        BY <1>5, <1>7, <2>1 DEF Appended, SameCalls, ModelAt
    <2> QED
        BY <1>3, <1>4, <1>5, <2>1, <2>2, ModelWriteJInv
<1>8. CASE i0 \in DOMAIN steps /\ Edited(i0, "FAILED", steps[i0].atts, steps[i0].out)
    <2>1. PICK s, a : s # "SUCCEEDED" /\ Edited(i0, s, a, steps[i0].out)
        BY <1>8
    <2> QED
        BY <1>3, <1>4, <1>5, <1>8, <2>1, ModelEditJInv
<1> QED
    BY <1>3, <1>7, <1>8

LEMMA RecordFailedToolJInv ==
    ASSUME IInv, FreshIds, JInv, NEW r \in Runners, RecordFailedStep(r),
           BrokenAt(loc[r].step, loc[r].todo, loc[r].next)
    PROVE  JInv'
<1>1. PICK p0, i0, t0, n0 : p0 = pc[r] /\ i0 = loc[r].step /\ t0 = loc[r].todo /\ n0 = loc[r].next
    OBVIOUS
<1>2. /\ UNCHANGED <<run, lease, torn, effects, grants, resolutions>> /\ p0 = "recordFailedStep"
      /\ Fenced(r)
    BY <1>1 DEF RecordFailedStep, callVars, countVars
<1>3. Types /\ (NonIdempotent => Unowed(p0))
    BY <1>1, <1>2, HolderWorks
<1>4. /\ OpenModels = {} /\ Target(i0) /\ RunningTools \subseteq {i0}
      /\ n0 = "replay" => (t0 = Unconfirmed /\ Effect # "NON_IDEMPOTENT")
      /\ i0 \in DOMAIN steps /\ i0 \in StepsOf("TOOL") /\ i0 # 0
    BY <1>1, <1>3, BrokenFacts
<1>5. PICK p, todo, next, s, a :
            /\ s = "FAILED" /\ a = steps[i0].atts
            /\ Edited(i0, s, a, steps[i0].out) /\ Moves(r, p, i0, todo, next, NoOut)
            /\ \/ n0 = "replay" /\ p = "recordFailedStep" /\ next = "failRun"
               \/ n0 = "replay" /\ p = "tool" /\ todo = t0 /\ next = "idle"
               \/ n0 \in {"failRun", "cancelRun", "enterWaiting"} /\ p = n0 /\ next = "idle"
    <2>1. Edited(i0, "FAILED", steps[i0].atts, steps[i0].out)
        BY <1>1, <1>4, RecordFailedStepDoes
    <2>2. \/ n0 = "replay" /\ Moves(r, "recordFailedStep", i0, {}, "failRun", NoOut)
          \/ n0 = "replay" /\ Moves(r, "tool", i0, t0, "idle", NoOut)
          \/ /\ n0 \in {"failRun", "cancelRun", "enterWaiting"}
             /\ Moves(r, n0, i0, {}, "idle", NoOut)
        BY <1>1, RecordFailedStepDoes
    <2> QED
        BY <2>1, <2>2
<1>6. loc'[r].ver = loc[r].ver
    BY RecordFailedStepDoes
<1>7. ToolMove(p0, i0, s, p, todo, next)
    <2>1. NonIdempotent => p \in {"enterWaiting", "failRun", "cancelRun"}
        BY <1>4, <1>5 DEF NonIdempotent
    <2>2. p \in {"recordFailedStep", "tool", "failRun", "cancelRun", "enterWaiting"}
          /\ next # "replay" /\ (p = "tool" => todo = Unconfirmed)
        BY <1>4, <1>5
    <2> QED
        BY <1>2, <1>4, <1>5, <2>1, <2>2
            DEF ToolMove, ToolPlaces, Dispatching, UnsafePlaces, Working, Left
<1> QED
    BY <1>1, <1>2, <1>4, <1>5, <1>6, <1>7, ToolEditJInv

LEMMA RecordFailedStepJInv ==
    ASSUME IInv, FreshIds, JInv, NEW r \in Runners, RecordFailedStep(r)
    PROVE  JInv'
<1>1. Fenced(r) /\ pc[r] = "recordFailedStep"
    BY DEF RecordFailedStep
<1>2. \/ loc[r].next \in {"failRun", "cancelRun"} /\ ModelAt(loc[r].step)
      \/ BrokenAt(loc[r].step, loc[r].todo, loc[r].next)
    <2>1. WorkAt(pc[r], loc[r].step, loc[r].todo, loc[r].next)
        BY <1>1 DEF JInv, Works
    <2> QED
        BY <1>1, <2>1 DEF WorkAt
<1> QED
    BY <1>2, RecordFailedModelJInv, RecordFailedToolJInv

------------------------------------------------------------------------------
(* Where a call resumes. *)

\* A call may go on there, whoever was let through before.
Fits(p, i, todo, next) ==
    WorkAt(p, i, todo, next) /\ (NonIdempotent => Unowed(p))

\* The journal alone has the trace of every effect.
JournalTells ==
    NonIdempotent =>
        \A c \in Calls : Owed(c) => (c \in Confirmed \/ \E j \in RunningTools : steps[j].call = c)

LEMMA ModelFits ==
    ASSUME Types, NEW i, ModelAt(i)
    PROVE  /\ Fits("model", i, {}, "idle") /\ Fits("unconfirmModel", i, {}, "idle")
           /\ Fits("recordFailedStep", i, {}, "failRun")
<1>1. WorkAt("model", i, {}, "idle") /\ WorkAt("unconfirmModel", i, {}, "idle")
      /\ WorkAt("recordFailedStep", i, {}, "failRun")
    BY DEF WorkAt, ModelPlaces, ToolPlaces
<1>2. i \notin StepsOf("TOOL")
    <2>1. 0 \notin DOMAIN steps
        BY DEF Types
    <2> QED
        BY <2>1 DEF ModelAt, StepsOf
<1>3. Unowed("model") /\ Unowed("unconfirmModel")
      /\ Unowed("recordFailedStep")
    BY <1>2 DEF Unowed
<1> QED
    BY <1>1, <1>3 DEF Fits

LEMMA EndFits ==
    ASSUME NEW p \in {"failRun", "cancelRun", "succeed", "start", "definitionUnavailable", "release"},
           NEW i, NEW todo, NEW next
    PROVE  Fits(p, i, todo, next)
BY DEF Fits, WorkAt, ModelPlaces, ToolPlaces, Unowed

\* With an unconfirmed call left and no Model Step open.
LEMMA ToolFits ==
    ASSUME Types, FreshIds, Journal, JournalTells, OpenModels = {}, Unconfirmed # {}
    PROVE  /\ RunningTools = {} => Fits("tool", 0, Unconfirmed, "idle")
           /\ \A i \in RunningTools :
                /\ Fits("unconfirmTool", i, {}, "enterWaiting")
                /\ Fits("recordFailedStep", i, {}, "enterWaiting")
                /\ Effect # "NON_IDEMPOTENT" =>
                    /\ Fits("unconfirmTool", i, Unconfirmed, "replay")
                    /\ Fits("recordFailedStep", i, {}, "failRun")
                    /\ Fits("tool", i, Unconfirmed, "idle")
<1>1. ASSUME RunningTools = {} PROVE Fits("tool", 0, Unconfirmed, "idle")
    <2>1. ToolAt(0, Unconfirmed)
        BY <1>1 DEF ToolAt
    <2>2. WorkAt("tool", 0, Unconfirmed, "idle")
        BY <2>1 DEF WorkAt, ModelPlaces
    <2>3. First(Unconfirmed) \notin Confirmed
        BY UnconfirmedFacts, FreshUnconfirmed
    <2>4. NonIdempotent => Unowed("tool")
        BY <1>1, <2>3 DEF Unowed, JournalTells
    <2> QED
        BY <2>2, <2>4 DEF Fits
<1>2. ASSUME NEW i \in RunningTools
      PROVE  /\ Fits("unconfirmTool", i, {}, "enterWaiting")
             /\ Fits("recordFailedStep", i, {}, "enterWaiting")
             /\ Effect # "NON_IDEMPOTENT" =>
                    /\ Fits("unconfirmTool", i, Unconfirmed, "replay")
                    /\ Fits("recordFailedStep", i, {}, "failRun")
                    /\ Fits("tool", i, Unconfirmed, "idle")
    <2>1. Target(i) /\ RunningTools \subseteq {i}
        BY DEF Journal
    <2>2. /\ BrokenAt(i, {}, "enterWaiting") /\ BrokenAt(i, {}, "failRun")
          /\ Effect # "NON_IDEMPOTENT" => BrokenAt(i, Unconfirmed, "replay")
        BY <2>1 DEF BrokenAt
    <2>3. ToolAt(i, Unconfirmed)
        <3>1. i # 0
            BY AttemptFacts DEF RunningTools, StepsOf
        <3> QED
            BY <2>1, <3>1 DEF ToolAt
    <2>4. /\ WorkAt("unconfirmTool", i, {}, "enterWaiting")
          /\ WorkAt("recordFailedStep", i, {}, "enterWaiting")
          /\ WorkAt("recordFailedStep", i, {}, "failRun")
        BY <2>2 DEF WorkAt, ModelPlaces, ToolPlaces
    <2>5. Effect # "NON_IDEMPOTENT" => WorkAt("unconfirmTool", i, Unconfirmed, "replay")
        BY <2>2 DEF WorkAt, ModelPlaces, ToolPlaces
    <2>6. WorkAt("tool", i, Unconfirmed, "idle")
        BY <2>3 DEF WorkAt, ModelPlaces
    <2>7. Unowed("unconfirmTool") /\ Unowed("recordFailedStep")
        BY DEF Unowed
    <2> QED
        BY <2>4, <2>5, <2>6, <2>7 DEF Fits, NonIdempotent
<1> QED
    BY <1>1, <1>2

LEMMA ResumePointFits ==
    ASSUME Types, FreshIds, Journal, JournalTells
    PROVE  Fits(ResumePoint.pc, ResumePoint.step, ResumePoint.todo, ResumePoint.next)
<1> DEFINE runningM == {i \in StepsOf("MODEL") : steps[i].status = "RUNNING"}
           last == LastOf(StepsOf("MODEL"))
           Good(at) == Fits(at.pc, at.step, at.todo, at.next)
<1>1. PICK n \in Nat : n = Len(steps) /\ DOMAIN steps = 1..n
    BY DEF Types
<1>2. /\ OpenModels \in SUBSET (1..n) /\ runningM \in SUBSET (1..n)
      /\ RunningTools \in SUBSET (1..n) /\ StepsOf("MODEL") \in SUBSET (1..n)
    BY <1>1 DEF StepsOf, OpenModels, RunningTools
<1>3. /\ LastOf(OpenModels) = 0 <=> OpenModels = {}
      /\ LastOf(OpenModels) # 0 => LastOf(OpenModels) \in OpenModels
      /\ LastOf(runningM) # 0 => LastOf(runningM) \in runningM
      /\ \A x \in runningM : x <= LastOf(runningM)
      /\ LastOf(RunningTools) = 0 <=> RunningTools = {}
      /\ LastOf(RunningTools) # 0 => LastOf(RunningTools) \in RunningTools
      /\ last = 0 <=> StepsOf("MODEL") = {}
      /\ last # 0 => last \in StepsOf("MODEL")
      /\ \A x \in StepsOf("MODEL") : x <= last
    <2> HIDE DEF runningM
    <2> QED
        BY <1>1, <1>2, LastOfFacts
<1>4. \A p, i, todo, next : Fits(p, i, todo, next) => Good(At(p, i, todo, next))
    BY AtFields
<1>5. ASSUME NEW i, ModelAt(i)
      PROVE  Good(ModelEntry(i)) /\ Good(ModelRecovery(i)) /\ Good(At("unconfirmModel", i, {}, "idle"))
    <2> HIDE DEF Good
    <2>1. /\ Good(At("model", i, {}, "idle")) /\ Good(At("unconfirmModel", i, {}, "idle"))
          /\ Good(At("recordFailedStep", i, {}, "failRun"))
        BY <1>4, <1>5, ModelFits
    <2> QED
        BY <2>1, ModelEntryGoes, ModelRecoveryGoes
<1>6. ASSUME LastOf(OpenModels) # 0 PROVE ModelAt(LastOf(OpenModels))
    <2>1. PICK i \in OpenModels : i = LastOf(OpenModels)
        BY <1>3, <1>6
    <2>2. i \in StepsOf("MODEL") /\ steps[i].out = NoOut
        BY <2>1 DEF OpenModels, Checkpointed
    <2>3. /\ RunningTools = {} /\ (resolutions = 0 => Unconfirmed = {})
          /\ \A j \in StepsOf("MODEL") : j <= i
        BY <2>1 DEF Journal
    <2>4. i # 0
        BY <1>6, <2>1
    <2> QED
        BY <2>1, <2>2, <2>3, <2>4 DEF ModelAt
<1>7. Unconfirmed = {} => RunningTools = {}
    BY DEF Journal, Target
<1>8. ASSUME OpenModels = {}, Checkpointed("MODEL") = {},
             ~(last # 0 /\ steps[last].status = "FAILED")
      PROVE  ModelAt(LastOf(runningM))
    <2>1. Unconfirmed = {} /\ RunningTools = {}
        BY <1>7, <1>8, LastCallsType DEF LastCalls
    <2>2. CASE LastOf(runningM) = 0
        BY <1>8, <2>1, <2>2 DEF ModelAt
    <2>3. CASE LastOf(runningM) # 0
        <3>1. PICK i \in runningM : i = LastOf(runningM)
            BY <1>3, <2>3
        <3>2. i \in StepsOf("MODEL") /\ i \notin Checkpointed("MODEL")
            BY <1>8, <3>1
        <3>3. last \in StepsOf("MODEL") /\ last # 0
            BY <1>3, <3>2
        <3>4. last \in DOMAIN steps /\ steps[last].status # "FAILED" /\ steps[last].status # "SUCCEEDED"
            BY <1>8, <3>3 DEF Journal, StepsOf
        <3>5. steps[last].status \in Statuses
            BY <3>4, AttemptFacts, StepFields
        <3>6. last \in runningM
            BY <3>3, <3>4, <3>5 DEF Statuses
        <3>7. last <= i /\ i <= last /\ i \in Nat /\ last \in Nat
            BY <1>2, <1>3, <3>1, <3>2, <3>3, <3>6
        <3>8. i = last
            BY <3>7
        <3>9. steps[i].out = NoOut
            BY <3>2 DEF Checkpointed
        <3> QED
            BY <1>3, <2>1, <2>3, <3>1, <3>2, <3>8, <3>9 DEF ModelAt
    <2> QED
        BY <2>2, <2>3
<1>9. ASSUME OpenModels = {}, Unconfirmed = {} PROVE ModelAt(0)
    BY <1>7, <1>9 DEF ModelAt
<1>10. Good(Goto("failRun")) /\ Good(Goto("succeed"))
    <2> HIDE DEF Good
    <2> QED
        BY <1>4, EndFits DEF Goto
<1>11. ASSUME OpenModels = {}, Unconfirmed # {} PROVE Good(ResumeTools(LastOf(RunningTools)))
    <2>1. PICK i : i = LastOf(RunningTools)
        OBVIOUS
    <2> HIDE DEF Good
    <2>2. CASE i = 0
        <3>1. ResumeTools(i) = ToolEntry(i, Unconfirmed, FALSE)
            BY <2>2 DEF ResumeTools
        <3>2. ToolEntry(0, Unconfirmed, FALSE) = At("tool", 0, Unconfirmed, "idle")
            BY ToolEntryGoes
        <3>3. Good(At("tool", 0, Unconfirmed, "idle"))
            BY <1>3, <1>4, <1>11, <2>1, <2>2, ToolFits
        <3> QED
            BY <2>1, <2>2, <3>1, <3>2, <3>3
    <2>3. CASE i # 0
        <3>1. i \in RunningTools
            BY <1>3, <2>1, <2>3
        <3>2. /\ Fits("unconfirmTool", i, {}, "enterWaiting")
              /\ Fits("recordFailedStep", i, {}, "enterWaiting")
              /\ Effect # "NON_IDEMPOTENT" =>
                    /\ Fits("unconfirmTool", i, Unconfirmed, "replay")
                    /\ Fits("recordFailedStep", i, {}, "failRun")
                    /\ Fits("tool", i, Unconfirmed, "idle")
            BY <1>11, <3>1, ToolFits
        <3>3. CASE Effect = "NON_IDEMPOTENT"
            <4>1. ResumeTools(i) = IF EndsIn(i, {"RUNNING"}) \/ ~HasAttempt(i, FailedAttempts)
                                   THEN At("unconfirmTool", i, {}, "enterWaiting")
                                   ELSE At("recordFailedStep", i, {}, "enterWaiting")
                BY <2>3, <3>3 DEF ResumeTools, FailStep
            <4> QED
                BY <1>4, <2>1, <3>2, <4>1
        <3>4. CASE Effect # "NON_IDEMPOTENT"
            <4>1. ResumeTools(i) = IF EndsIn(i, {"RUNNING"})
                                   THEN At("unconfirmTool", i, Unconfirmed, "replay")
                                   ELSE ToolEntry(i, Unconfirmed, FALSE)
                BY <2>3, <3>4 DEF ResumeTools
            <4>2. \/ ToolEntry(i, Unconfirmed, FALSE) = At("recordFailedStep", i, {}, "failRun")
                  \/ ToolEntry(i, Unconfirmed, FALSE) = At("tool", i, Unconfirmed, "idle")
                BY ToolEntryGoes
            <4> QED
                BY <1>4, <2>1, <3>2, <3>4, <4>1, <4>2
        <3> QED
            BY <3>3, <3>4
    <2> QED
        BY <2>2, <2>3
<1>12. Good(ResumePoint)
    <2> HIDE DEF Good
    <2>1. ResumePoint =
            IF LastOf(OpenModels) # 0
            THEN IF EndsIn(LastOf(OpenModels), {"RUNNING", "SUCCEEDED"})
                 THEN At("unconfirmModel", LastOf(OpenModels), {}, "idle")
                 ELSE ModelRecovery(LastOf(OpenModels))
            ELSE IF last # 0 /\ steps[last].status = "FAILED" THEN Goto("failRun")
            ELSE IF Checkpointed("MODEL") = {} THEN ModelEntry(LastOf(runningM))
            ELSE IF LastCalls = {} THEN Goto("succeed")
            ELSE IF Unconfirmed = {} THEN ModelEntry(0)
            ELSE ResumeTools(LastOf(RunningTools))
        BY DEF ResumePoint, OpenModels, Received, RunningTools
    <2> HIDE DEF runningM, last
    <2> QED
        BY <1>3, <1>5, <1>6, <1>8, <1>9, <1>10, <1>11, <2>1
<1> QED
    BY <1>12

------------------------------------------------------------------------------
(* Steps that leave journal, record and effects alone. *)

LEMMA WorkStays ==
    ASSUME steps' = steps, resolutions' = resolutions, NEW p, NEW i, NEW todo, NEW next,
           WorkAt(p, i, todo, next),
           run' = run \/ p \notin {"reopen", "RETRY_STEP", "CONFIRM_STEP"}
    PROVE  WorkAt(p, i, todo, next)'
<1>1. SameView
    BY ViewStays
<1>2. /\ RunningTools' = RunningTools /\ OpenModels' = OpenModels
      /\ Unconfirmed' = Unconfirmed /\ (Target(i)' <=> Target(i))
      /\ StepsOf("MODEL")' = StepsOf("MODEL")
    BY <1>1 DEF SameView, SameCalls
<1>3. /\ ModelAt(i)' <=> ModelAt(i)
      /\ ToolAt(i, todo)' <=> ToolAt(i, todo)
      /\ BrokenAt(i, todo, next)' <=> BrokenAt(i, todo, next)
    BY <1>2 DEF ModelAt, ToolAt, BrokenAt
<1> QED
    BY <1>2, <1>3 DEF WorkAt

LEMMA UnowedStays ==
    ASSUME steps' = steps, UNCHANGED <<effects, grants>>, NEW p, NEW i, NEW next,
           Unowed(p)
    PROVE  Unowed(p)'
<1>1. Unconfirmed' = Unconfirmed /\ StepsOf("TOOL")' = StepsOf("TOOL")
    BY ViewStays DEF SameView, SameCalls
<1>2. \A c : Owed(c)' <=> Owed(c)
    BY DEF Owed
<1> QED
    BY <1>1, <1>2 DEF Unowed

\* No call is let through that was not, and none that was in an UnsafeWindow is shut
\* out without the tear being noted.
LEMMA QuietJInv ==
    ASSUME IInv, JInv, UNCHANGED <<run, steps, effects, grants, resolutions>>,
           torn' \in BOOLEAN,
           \A q \in Runners : Fenced(q)' =>
                /\ Fenced(q) /\ pc'[q] = pc[q] /\ loc'[q].step = loc[q].step
                /\ loc'[q].todo = loc[q].todo /\ loc'[q].next = loc[q].next,
           torn' \/ (~torn /\ \A q \in Runners :
                (Fenced(q) /\ UnsafeWindow(q)) =>
                    (Fenced(q)' /\ pc'[q] = pc[q] /\ loc'[q].step = loc[q].step))
    PROVE  JInv'
<1>1. Journal'
    BY JournalStays DEF JInv, IInv, Types
<1>2. Unstarted' /\ EffectTypes'
    BY DEF JInv, Unstarted, EffectTypes
<1>3. ASSUME NEW q \in Runners, Fenced(q)'
      PROVE  WorkAt(pc[q], loc[q].step, loc[q].todo, loc[q].next)'
    <2>1. PICK p, i, todo, next :
                p = pc[q] /\ i = loc[q].step /\ todo = loc[q].todo /\ next = loc[q].next
        OBVIOUS
    <2>2. /\ Fenced(q) /\ pc'[q] = p /\ loc'[q].step = i /\ loc'[q].todo = todo
          /\ loc'[q].next = next
        BY <1>3, <2>1
    <2>3. WorkAt(p, i, todo, next)
        BY <2>1, <2>2 DEF JInv, Works
    <2>4. WorkAt(p, i, todo, next)'
        BY <2>3, WorkStays
    <2> QED
        BY <2>2, <2>4
<1>4. ASSUME NonIdempotent' PROVE AtMostOnce' /\ Covers' /\ Unoweds'
    <2>1. /\ NonIdempotent
          /\ \A q \in Runners : (Fenced(q) /\ UnsafeWindow(q)) =>
                    (Fenced(q)' /\ pc'[q] = pc[q] /\ loc'[q].step = loc[q].step)
        BY <1>4 DEF NonIdempotent
    <2>2. AtMostOnce /\ Covers /\ Unoweds
        BY <2>1 DEF JInv, EffectInv, NonIdempotent
    <2>3. AtMostOnce'
        BY <2>2 DEF AtMostOnce
    <2>4. ASSUME NEW c \in Calls, Owed(c)' PROVE Covered(c)'
        <3>1. Covered(c)
            BY <2>2, <2>4 DEF Covers, Owed
        <3>2. Confirmed' = Confirmed /\ RunningTools' = RunningTools
            BY ViewStays DEF SameView, SameCalls
        <3>3. Traced(c) => Traced(c)'
            BY <2>1, <3>2, ViewStays DEF Traced, UnsafeAt, UnsafePlaces, UnsafeWindow, SameView
        <3> QED
            BY <3>1, <3>2, <3>3 DEF Covered
    <2>5. ASSUME NEW q \in Runners, Fenced(q)' PROVE Unowed(pc[q])'
        <3>1. PICK p, i, next : p = pc[q] /\ i = loc[q].step /\ next = loc[q].next
            OBVIOUS
        <3>2. Fenced(q) /\ pc'[q] = p /\ loc'[q].step = i /\ loc'[q].next = next
            BY <2>5, <3>1
        <3>3. Unowed(p)
            BY <2>2, <3>1, <3>2 DEF Unoweds
        <3>4. Unowed(p)'
            BY <3>3, UnowedStays
        <3> QED
            BY <3>2, <3>4
    <2> QED
        BY <2>3, <2>4, <2>5 DEF Covers, Unoweds
<1> QED
    BY <1>1, <1>2, <1>3, <1>4 DEF JInv, Works, EffectInv, NonIdempotent

\* A call ends; whoever else is let through stays so.
LEMMA CallEndJInv ==
    ASSUME IInv, JInv, NEW r \in Runners, NEW p \in {"idle", "dead"}, Ends(r, p),
           UNCHANGED <<run, steps, effects, grants, resolutions>>, torn' \in BOOLEAN,
           lease' = lease \/ (lease' = [owner |-> NoRunner, live |-> FALSE] /\ lease.owner = r),
           torn' \/ (~torn /\ ~(Fenced(r) /\ UnsafeWindow(r)))
    PROVE  JInv'
<1>1. ASSUME NEW q \in Runners, Fenced(q)'
      PROVE  Fenced(q) /\ pc'[q] = pc[q] /\ loc'[q] = loc[q]
    <2>1. q # r
        <3>1. run'.version # 0
            BY DEF IInv, Types
        <3> QED
            BY <1>1, <3>1, NoLocType DEF Fenced, Ends
    <2>2. lease' = lease
        <3>1. lease'.live = TRUE
            BY <1>1 DEF Fenced
        <3> QED
            BY <3>1
    <2> QED
        BY <1>1, <2>1, <2>2 DEF Fenced, Ends, Others
<1>2. ASSUME NEW q \in Runners, Fenced(q), q # r
      PROVE  Fenced(q)' /\ pc'[q] = pc[q] /\ loc'[q] = loc[q]
    <2>1. pc'[q] = pc[q] /\ loc'[q] = loc[q]
        BY <1>2 DEF Ends, Others
    <2>2. lease.owner = q
        BY <1>2 DEF Fenced
    <2>3. lease' = lease
        BY <1>2, <2>2
    <2> QED
        BY <1>2, <2>1, <2>3 DEF Fenced
<1>3. torn' \/ (~torn /\ \A q \in Runners :
            (Fenced(q) /\ UnsafeWindow(q)) =>
                (Fenced(q)' /\ pc'[q] = pc[q] /\ loc'[q].step = loc[q].step))
    BY <1>2
<1>4. \A q \in Runners : Fenced(q)' =>
            /\ Fenced(q) /\ pc'[q] = pc[q] /\ loc'[q].step = loc[q].step
            /\ loc'[q].todo = loc[q].todo /\ loc'[q].next = loc[q].next
    BY <1>1
<1> QED
    BY <1>3, <1>4, QuietJInv

LEMMA CallOverJInv ==
    ASSUME IInv, JInv, NEW r \in Runners, ReleaseLease(r) \/ Refused(r) \/ Crash(r)
    PROVE  JInv'
<1>1. PICK p \in {"idle", "dead"} : pc' = [pc EXCEPT ![r] = p] /\ loc' = [loc EXCEPT ![r] = NoLoc]
    BY DEF ReleaseLease, Refused, Crash
<1>2. p \in PCs
    BY DEF PCs
<1>3. Ends(r, p)
    BY <1>1, <1>2, Ended DEF IInv, Types
<1>4. /\ UNCHANGED <<run, steps, effects, grants, resolutions>>
      /\ lease' = lease \/ (lease' = [owner |-> NoRunner, live |-> FALSE] /\ lease.owner = r)
    <2>1. CASE ReleaseLease(r)
        BY <2>1 DEF ReleaseLease, countVars, callVars
    <2>2. CASE Refused(r)
        BY <2>2 DEF Refused, countVars, callVars
    <2>3. CASE Crash(r)
        BY <2>3 DEF Crash, countVars, callVars
    <2> QED
        BY <2>1, <2>2, <2>3
<1>5. torn' \in BOOLEAN /\ (torn' \/ (~torn /\ ~(Fenced(r) /\ UnsafeWindow(r))))
    <2>0. torn \in BOOLEAN
        BY DEF JInv, EffectTypes
    <2>1. CASE ReleaseLease(r)
        <3>1. torn' = torn /\ pc[r] = "release"
            BY <2>1 DEF ReleaseLease, countVars
        <3> QED
            BY <2>0, <3>1 DEF UnsafeWindow
    <2>2. CASE Refused(r)
        <3>1. torn' = torn /\ ~Fenced(r)
            BY <2>2 DEF Refused, countVars
        <3> QED
            BY <2>0, <3>1
    <2>3. CASE Crash(r)
        <3>1. torn' = (torn \/ UnsafeWindow(r))
            BY <2>3 DEF Crash
        <3> QED
            BY <2>0, <3>1
    <2> QED
        BY <2>1, <2>2, <2>3
<1> QED
    BY <1>3, <1>4, <1>5, CallEndJInv

LEMMA RestartJInv ==
    ASSUME IInv, JInv, NEW r \in Runners, Restart(r)
    PROVE  JInv'
<1>1. loc[r] = NoLoc /\ pc' = [pc EXCEPT ![r] = "idle"] /\ loc' = loc
    BY DEF Restart, IInv, IdleClean
<1>2. Ends(r, "idle")
    BY <1>1 DEF Ends, Others, PCs, IInv, Types
<1>3. UNCHANGED <<run, lease, steps, effects, grants, resolutions, torn>> /\ pc[r] = "dead"
    BY DEF Restart, countVars, callVars
<1>4. torn \in BOOLEAN /\ ~UnsafeWindow(r)
    BY <1>3 DEF JInv, EffectTypes, UnsafeWindow
<1> QED
    BY <1>2, <1>3, <1>4, CallEndJInv

LEMMA ExpireJInv ==
    ASSUME IInv, JInv, Expire \/ Overrun
    PROVE  JInv'
<1>1. /\ lease' = [lease EXCEPT !.live = FALSE] /\ UNCHANGED <<pc, loc>>
      /\ UNCHANGED <<run, steps, effects, grants, resolutions>>
    BY DEF Expire, Overrun, countVars, callVars
<1>2. lease'.live = FALSE
    <2>1. lease \in [owner : Runners \cup {NoRunner}, live : BOOLEAN]
        BY DEF IInv, Types
    <2> QED
        BY <1>1, <2>1
<1>3. ASSUME NEW q \in Runners PROVE ~Fenced(q)'
    <2>1. ASSUME Fenced(q)' PROVE FALSE
        <3>1. lease'.live = TRUE
            BY <2>1 DEF Fenced
        <3> QED
            BY <1>2, <3>1
    <2> QED
        BY <2>1
<1>4. torn \in BOOLEAN
    BY DEF JInv, EffectTypes
<1>5. torn' \in BOOLEAN /\ (torn' \/ (~torn /\ \A q \in Runners : ~(Fenced(q) /\ UnsafeWindow(q))))
    <2>1. \A q \in Runners : Fenced(q) => lease.owner = q
        BY DEF Fenced
    <2>2. CASE Expire
        <3>1. torn' = torn /\ pc[lease.owner] \in {"idle", "dead"}
            BY <2>2 DEF Expire, countVars
        <3> QED
            BY <1>4, <2>1, <3>1 DEF UnsafeWindow
    <2>3. CASE Overrun
        <3>1. torn' = (torn \/ UnsafeWindow(lease.owner))
            BY <2>3 DEF Overrun
        <3> QED
            BY <1>4, <2>1, <3>1
    <2> QED
        BY <2>2, <2>3
<1> QED
    BY <1>1, <1>3, <1>5, QuietJInv

LEMMA RequestCancelJInv ==
    ASSUME IInv, JInv, NEW r \in Runners, RequestCancel(r)
    PROVE  JInv'
<1>1. /\ loc'[r].ver = loc[r].ver /\ loc'[r].step = loc[r].step
      /\ loc'[r].todo = loc[r].todo /\ loc'[r].next = loc[r].next
      /\ \A q \in Runners \ {r} : loc'[q] = loc[q]
    BY RequestCancelDoes
<1>2. UNCHANGED <<run, lease, steps, pc, effects, grants, resolutions, torn>>
    BY DEF RequestCancel, callVars
<1>3. ASSUME NEW q \in Runners
      PROVE  /\ Fenced(q)' <=> Fenced(q)
             /\ pc'[q] = pc[q] /\ loc'[q].step = loc[q].step
             /\ loc'[q].todo = loc[q].todo /\ loc'[q].next = loc[q].next
    <2>1. loc'[q].ver = loc[q].ver /\ loc'[q].step = loc[q].step
          /\ loc'[q].todo = loc[q].todo /\ loc'[q].next = loc[q].next
        <3>1. CASE q = r
            BY <1>1, <3>1
        <3>2. CASE q # r
            BY <1>1, <3>2
        <3> QED
            BY <3>1, <3>2
    <2> QED
        BY <1>2, <2>1 DEF Fenced
<1>4. torn \in BOOLEAN
    BY DEF JInv, EffectTypes
<1> QED
    BY <1>2, <1>3, <1>4, QuietJInv

LEMMA SameCallsStayJInv ==
    ASSUME IInv, JInv,
           UNCHANGED <<run, lease, steps, pc, loc, effects, grants, resolutions, torn>>
    PROVE  JInv'
<1>1. \A q \in Runners : (Fenced(q)' <=> Fenced(q)) /\ pc'[q] = pc[q] /\ loc'[q] = loc[q]
    BY DEF Fenced
<1>2. torn \in BOOLEAN
    BY DEF JInv, EffectTypes
<1> QED
    BY <1>1, <1>2, QuietJInv

------------------------------------------------------------------------------
(* Calls that acquire the lease. *)

LEMMA TellsUnlessWaiting ==
    ASSUME JInv, run.status \notin TERMINAL_STATUSES, run.reason # "UNCERTAIN_NON_IDEMPOTENT",
           \A q \in Runners : Fenced(q) => ~UnsafeWindow(q)
    PROVE  JournalTells
<1> SUFFICES ASSUME NonIdempotent, NEW c \in Calls, Owed(c)
             PROVE  c \in Confirmed \/ \E j \in RunningTools : steps[j].call = c
    BY DEF JournalTells
<1>1. Covered(c)
    BY DEF JInv, EffectInv, NonIdempotent, Covers
<1> QED
    BY <1>1 DEF Covered, Traced, UnsafeAt, UnsafePlaces, UnsafeWindow

LEMMA AcquireJInv ==
    ASSUME IInv, JInv, NEW r \in Runners, NEW quiet \in BOOLEAN, NEW at, Place(at),
           Acquire(r, quiet, at), UNCHANGED <<run, steps, effects, grants, torn>>,
           resolutions' \in Nat, resolutions' >= resolutions,
           NEW p, p = at.pc, NEW i, i = at.step, NEW todo, todo = at.todo, NEW next, next = at.next,
           WorkAt(p, i, todo, next)', NonIdempotent => Unowed(p)
    PROVE  JInv'
<1>1. /\ pc'[r] = p /\ loc'[r].step = i /\ loc'[r].todo = todo /\ loc'[r].next = next
      /\ lease' = [owner |-> r, live |-> TRUE] /\ loc'[r].ver = run.version
    BY Acquired DEF IInv
<1>2. Fenced(r)'
    BY <1>1 DEF Fenced
<1>3. Journal' /\ Unstarted' /\ EffectTypes'
    <2>1. resolutions \in Nat
        BY DEF IInv, Types
    <2>2. Journal'
        BY <2>1, JournalStays DEF JInv
    <2> QED
        BY <2>2 DEF JInv, Unstarted, EffectTypes
<1>4. \A q \in Runners : ~Fenced(q)
    BY NobodyHolds DEF IInv, Acquire
<1>5. ASSUME NonIdempotent' PROVE AtMostOnce' /\ Covers' /\ Unowed(p)'
    <2>1. NonIdempotent
        BY <1>5 DEF NonIdempotent
    <2>2. AtMostOnce /\ Covers
        BY <2>1 DEF JInv, EffectInv, NonIdempotent
    <2>3. AtMostOnce'
        BY <2>2 DEF AtMostOnce
    <2>4. Confirmed' = Confirmed /\ RunningTools' = RunningTools
        BY ViewStays DEF SameView, SameCalls
    <2>5. ASSUME NEW c \in Calls, Owed(c)' PROVE Covered(c)'
        <3>1. Covered(c)
            BY <2>2, <2>5 DEF Covers, Owed
        <3> QED
            BY <1>4, <2>4, <3>1 DEF Covered, Traced
    <2>6. Unowed(p)'
        BY <2>1, UnowedStays
    <2> QED
        BY <2>3, <2>5, <2>6 DEF Covers
<1> QED
    BY <1>1, <1>2, <1>3, <1>5, HolderJInv

\* ... to go where the journal has nothing to say.
LEMMA AcquireGotoJInv ==
    ASSUME IInv, JInv, NEW r \in Runners, NEW quiet \in BOOLEAN,
           NEW p \in {"start", "definitionUnavailable", "failRun", "cancelRun", "reopen"},
           Acquire(r, quiet, Goto(p)),
           UNCHANGED <<run, steps, effects, grants, torn, resolutions>>,
           p = "reopen" => run.reason = "DEFINITION_UNAVAILABLE"
    PROVE  JInv'
<1>1. PICK at : at = Goto(p)
    OBVIOUS
<1>2. at.pc = p /\ at.step = 0 /\ at.todo = {} /\ at.next = "idle" /\ Place(at)
    BY <1>1, AtFields DEF Goto, PCs, Nexts
<1>3. WorkAt(p, 0, {}, "idle")' /\ Unowed(p)
    BY DEF WorkAt, ModelPlaces, ToolPlaces, Unowed
<1>4. resolutions' \in Nat /\ resolutions' >= resolutions
    BY DEF IInv, Types
<1>5. Acquire(r, quiet, at)
    BY <1>1
<1> QED
    BY <1>2, <1>3, <1>4, <1>5, AcquireJInv

LEMMA StartRunJInv ==
    ASSUME IInv, JInv, NEW r \in Runners,
           StartRun(r) \/ ResumeUndefined(r) \/ ResumeDefined(r)
    PROVE  JInv'
<1>1. UNCHANGED <<run, steps, effects, grants, torn, resolutions>>
    BY DEF StartRun, ResumeUndefined, ResumeDefined, countVars, callVars
<1>2. CASE StartRun(r)
    BY <1>1, <1>2, AcquireGotoJInv DEF StartRun
<1>3. CASE ResumeUndefined(r)
    BY <1>1, <1>3, AcquireGotoJInv DEF ResumeUndefined
<1>4. CASE ResumeDefined(r)
    BY <1>1, <1>4, AcquireGotoJInv DEF ResumeDefined
<1> QED
    BY <1>2, <1>3, <1>4

LEMMA ResolveEndJInv ==
    ASSUME IInv, JInv, NEW r \in Runners, ResolveEnd(r)
    PROVE  JInv'
<1>1. PICK action \in {"FAIL_RUN", "CANCEL_RUN"} :
            Acquire(r, TRUE, Goto(IF action = "FAIL_RUN" THEN "failRun" ELSE "cancelRun"))
    BY DEF ResolveEnd
<1>2. PICK p : p = IF action = "FAIL_RUN" THEN "failRun" ELSE "cancelRun"
    OBVIOUS
<1>3. p \in {"failRun", "cancelRun"} /\ Acquire(r, TRUE, Goto(p))
    BY <1>1, <1>2
<1>4. UNCHANGED <<run, steps, effects, grants, torn, resolutions>>
    BY DEF ResolveEnd, countVars, callVars
<1> QED
    BY <1>3, <1>4, AcquireGotoJInv

LEMMA CancelCreatedJInv ==
    ASSUME IInv, JInv, NEW r \in Runners, CancelCreated(r)
    PROVE  JInv'
<1>1. UNCHANGED <<run, steps, effects, grants, torn, resolutions>>
    BY DEF CancelCreated, callVars
<1>2. CASE Acquire(r, TRUE, Goto("cancelRun"))
    BY <1>1, <1>2, AcquireGotoJInv
<1>3. CASE UNCHANGED <<lease, pc, loc>>
    BY <1>1, <1>3, SameCallsStayJInv
<1> QED
    BY <1>2, <1>3 DEF CancelCreated

LEMMA ResumeRunJInv ==
    ASSUME IInv, FreshIds, JInv, NEW r \in Runners, ResumeRun(r)
    PROVE  JInv'
<1>1. /\ run.status = "RUNNING" /\ UNCHANGED <<run, steps, effects, grants, torn, resolutions>>
      /\ pc[r] = "idle" /\ LeaseAvailable(r)
    BY DEF ResumeRun, countVars, callVars, Acquire
<1>2. CASE r \notin Capable
    <2>1. Acquire(r, FALSE, Goto("definitionUnavailable"))
        BY <1>2 DEF ResumeRun
    <2> QED
        BY <1>1, <2>1, AcquireGotoJInv
<1>3. CASE r \in Capable
    <2>1. PICK at : at = ResumePoint
        OBVIOUS
    <2>2. Acquire(r, FALSE, at)
        BY <1>3, <2>1 DEF ResumeRun
    <2>3. Place(at) /\ at.pc \in ResumePlaces
        BY <2>1, ResumePointDuty
    <2>4. PICK p, i, todo, next : p = at.pc /\ i = at.step /\ todo = at.todo /\ next = at.next
        OBVIOUS
    <2>5. JournalTells
        <3>1. \A q \in Runners : ~Fenced(q)
            BY <1>1, NobodyHolds DEF IInv
        <3>2. run.status \notin TERMINAL_STATUSES /\ run.reason # "UNCERTAIN_NON_IDEMPOTENT"
            BY <1>1 DEF TERMINAL_STATUSES, IInv, Types, NoReason
        <3> QED
            BY <3>1, <3>2, TellsUnlessWaiting
    <2>6. Fits(p, i, todo, next)
        BY <2>1, <2>4, <2>5, ResumePointFits DEF IInv, JInv
    <2>7. WorkAt(p, i, todo, next) /\ (NonIdempotent => Unowed(p))
        BY <2>6 DEF Fits
    <2>8. WorkAt(p, i, todo, next)'
        BY <1>1, <2>7, WorkStays
    <2>9. resolutions' \in Nat /\ resolutions' >= resolutions
        BY <1>1 DEF IInv, Types
    <2> QED
        BY <1>1, <2>2, <2>3, <2>4, <2>7, <2>8, <2>9, AcquireJInv
<1> QED
    BY <1>2, <1>3

LEMMA ResolveUncertainJInv ==
    ASSUME IInv, FreshIds, JInv, NEW r \in Runners, ResolveUncertain(r)
    PROVE  JInv'
<1>1. /\ run.status = "WAITING" /\ UNCHANGED <<run, steps, effects, grants, torn>>
      /\ Unconfirmed # {} /\ resolutions' = resolutions + 1
    BY DEF ResolveUncertain, callVars
<1>2. PICK p \in AllowedResolutions(run.reason) \cap {"RETRY_STEP", "CONFIRM_STEP"} :
            Acquire(r, TRUE, At(p, run.wstep, {First(Unconfirmed)}, "idle"))
    BY DEF ResolveUncertain
<1>3. run.reason = "UNCERTAIN_NON_IDEMPOTENT"
    <2>1. run.reason \in WaitingReasons \cup {NoReason}
        BY DEF IInv, Types
    <2> QED
        BY <1>2, <2>1 DEF AllowedResolutions, WaitingReasons, NoReason
<1>4. PICK i, td : i = run.wstep /\ td = {First(Unconfirmed)}
    OBVIOUS
<1>5. i \in Nat /\ td \in SUBSET (Nat \X Nat)
    <2>1. Unconfirmed \in SUBSET (Nat \X Nat)
        BY LastCallsType DEF IInv
    <2> QED
        BY <1>1, <1>4, <2>1, FirstFacts DEF IInv, Types
<1>6. PICK at : at = At(p, i, td, "idle")
    OBVIOUS
<1>7. Place(at) /\ at.pc = p /\ at.step = i /\ at.todo = td /\ at.next = "idle"
    BY <1>5, <1>6, AtFields DEF PCs, Nexts
<1>8. resolutions' \in Nat /\ resolutions' >= resolutions /\ resolutions' # 0
    BY <1>1 DEF IInv, Types
<1>9. Unconfirmed' = Unconfirmed
    BY <1>1, ViewStays DEF SameView, SameCalls
<1>10. WorkAt(p, i, td, "idle")'
    BY <1>1, <1>3, <1>4, <1>8, <1>9 DEF WorkAt, ModelPlaces, ToolPlaces
<1>11. Unowed(p)
    BY DEF Unowed
<1>12. Acquire(r, TRUE, at)
    BY <1>2, <1>4, <1>6
<1> QED
    BY <1>1, <1>7, <1>8, <1>10, <1>11, <1>12, AcquireJInv

------------------------------------------------------------------------------
(* Transitions of the Run. *)

\* ... after which the call goes on.
LEMMA TransitionMoveJInv ==
    ASSUME IInv, JInv, NEW r \in Runners, NEW status, status # "CREATED",
           NEW at, Place(at), at.pc # "idle", Transition(r, status, NoReason, 0, at),
           UNCHANGED <<lease, steps, torn, resolutions>>, EffectTypes',
           NEW p, p = at.pc, NEW i, i = at.step, NEW todo, todo = at.todo, NEW next, next = at.next,
           WorkAt(p, i, todo, next), p \notin {"reopen", "RETRY_STEP", "CONFIRM_STEP"},
           NonIdempotent =>
                /\ AtMostOnce' /\ Unowed(p)'
                /\ \A c \in Calls : Owed(c)' =>
                        (c \in Confirmed \/ status \in TERMINAL_STATUSES \/ TracedBy(c, p, i))
    PROVE  JInv'
<1>1. /\ Fenced(r) /\ loc'[r].ver = run.version + 1
      /\ run' = [status |-> status, version |-> run.version + 1, reason |-> NoReason, wstep |-> 0]
      /\ Moves(r, p, i, todo, next, loc[r].out)
    BY Transitioned DEF IInv
<1>2. /\ run'.status = status /\ run'.reason # "UNCERTAIN_NON_IDEMPOTENT"
      /\ run'.version = run.version + 1
    BY <1>1 DEF NoReason
<1>3. /\ pc'[r] = p /\ loc'[r].step = i /\ loc'[r].todo = todo /\ loc'[r].next = next
      /\ lease' = [owner |-> r, live |-> TRUE] /\ Fenced(r)'
    <2>1. pc'[r] = p /\ loc'[r].step = i /\ loc'[r].todo = todo /\ loc'[r].next = next
        BY <1>1 DEF Moves
    <2>2. lease' = [owner |-> r, live |-> TRUE]
        BY <1>1, HolderHasLease
    <2>3. loc'[r].ver = run'.version
        BY <1>1, <1>2
    <2> QED
        BY <2>1, <2>2, <2>3 DEF Fenced
<1>4. SameView
    BY ViewStays
<1>5. Journal' /\ Unstarted'
    BY <1>2, <1>4 DEF JInv, Journal, Unstarted, SameView, SameCalls
<1>6. WorkAt(p, i, todo, next)'
    BY WorkStays
<1>7. ASSUME NonIdempotent', NEW c \in Calls, Owed(c)' PROVE Covered(c)'
    <2>1. c \in Confirmed \/ status \in TERMINAL_STATUSES \/ TracedBy(c, p, i)
        BY <1>7 DEF NonIdempotent
    <2>2. TracedBy(c, p, i) => TracedBy(c, p, i)'
        BY <1>4 DEF TracedBy, UnsafeAt, SameView
    <2>3. c \in Confirmed => c \in Confirmed'
        BY <1>4 DEF SameView, SameCalls
    <2>4. CASE status \in TERMINAL_STATUSES
        BY <1>2, <2>4 DEF Covered
    <2>5. CASE c \in Confirmed \/ TracedBy(c, p, i)
        BY <1>3, <2>2, <2>3, <2>5, HolderCoversNext
    <2> QED
        BY <2>1, <2>4, <2>5
<1>8. NonIdempotent' => (AtMostOnce' /\ Covers' /\ Unowed(p)')
    BY <1>7 DEF NonIdempotent, Covers
<1> QED
    BY <1>3, <1>5, <1>6, <1>8, HolderJInv

\* ... which end the Run.
LEMMA EndJInv ==
    ASSUME IInv, JInv, NEW r \in Runners, FailRun(r) \/ MaybeCancel(r) \/ FinalizeOutput(r)
    PROVE  JInv'
<1>1. UNCHANGED <<lease, steps, effects, grants, torn, resolutions>>
    BY DEF FailRun, MaybeCancel, FinalizeOutput, countVars, callVars
<1>2. PICK status \in TERMINAL_STATUSES : Transition(r, status, NoReason, 0, Goto("release"))
    BY DEF FailRun, MaybeCancel, FinalizeOutput, TERMINAL_STATUSES
<1>3. PICK at : at = Goto("release")
    OBVIOUS
<1>4. at.pc = "release" /\ at.step = 0 /\ at.todo = {} /\ at.next = "idle" /\ Place(at)
    BY <1>3, AtFields DEF Goto, PCs, Nexts
<1>5. WorkAt("release", 0, {}, "idle") /\ Unowed("release")'
    BY DEF WorkAt, ModelPlaces, ToolPlaces, Unowed
<1>6. EffectTypes' /\ (NonIdempotent => AtMostOnce')
    BY <1>1 DEF JInv, EffectTypes, EffectInv, NonIdempotent, AtMostOnce
<1>7. status # "CREATED"
    BY DEF TERMINAL_STATUSES
<1>8. Transition(r, status, NoReason, 0, at)
    BY <1>2, <1>3
<1> QED
    BY <1>1, <1>4, <1>5, <1>6, <1>7, <1>8, TransitionMoveJInv

\* ... to WAITING, which end the call.
LEMMA TransitionWaitJInv ==
    ASSUME IInv, JInv, NEW r \in Runners, NEW reason, NEW w,
           Transition(r, "WAITING", reason, w, Goto("idle")),
           UNCHANGED <<lease, steps, effects, grants, torn, resolutions>>,
           reason = "UNCERTAIN_NON_IDEMPOTENT" =>
                (Target(w) /\ RunningTools = {} /\ OpenModels = {}),
           NonIdempotent =>
                \A c \in Calls : Owed(c) =>
                    \/ c \in Confirmed
                    \/ \E j \in RunningTools : steps[j].call = c
                    \/ reason = "UNCERTAIN_NON_IDEMPOTENT" /\ steps[w].call = c
    PROVE  JInv'
<1>1. PICK at : at = Goto("idle")
    OBVIOUS
<1>2. at.pc = "idle" /\ Place(at)
    BY <1>1, AtFields DEF Goto, PCs, Nexts
<1>3. /\ Fenced(r) /\ Ends(r, "idle")
      /\ run' = [status |-> "WAITING", version |-> run.version + 1, reason |-> reason, wstep |-> w]
    BY <1>1, <1>2, Transitioned DEF IInv
<1>4. PICK v \in Nat : v = run.version /\ run'.version = v + 1
    BY <1>3 DEF IInv, Types
<1>5. run'.status = "WAITING" /\ run'.reason = reason /\ run'.wstep = w
    BY <1>3
<1>6. ASSUME NEW q \in Runners, Fenced(q)' PROVE FALSE
    <2>1. q = r
        BY <1>3, <1>6, OneHolderNext, HolderHasLease
    <2>2. loc'[r].ver = 0
        BY <1>3, NoLocType DEF Ends
    <2>3. loc'[r].ver = v + 1
        BY <1>4, <1>6, <2>1 DEF Fenced
    <2> QED
        BY <2>2, <2>3
<1>7. SameView
    BY ViewStays
<1>8. Journal' /\ Unstarted'
    BY <1>5, <1>7 DEF JInv, Journal, Unstarted, SameView, SameCalls
<1>9. EffectTypes' /\ (NonIdempotent => AtMostOnce')
    BY DEF JInv, EffectTypes, EffectInv, NonIdempotent, AtMostOnce
<1>10. ASSUME NonIdempotent', NEW c \in Calls, Owed(c)' PROVE Covered(c)'
    <2>1. \/ c \in Confirmed
          \/ \E j \in RunningTools : steps[j].call = c
          \/ reason = "UNCERTAIN_NON_IDEMPOTENT" /\ steps[w].call = c
        BY <1>10 DEF NonIdempotent, Owed
    <2>2. Confirmed' = Confirmed /\ RunningTools' = RunningTools
        BY <1>7 DEF SameView, SameCalls
    <2> QED
        BY <1>5, <2>1, <2>2 DEF Covered, Traced
<1>11. Works' /\ Unoweds'
    BY <1>6 DEF Works, Unoweds
<1>12. EffectInv'
    BY <1>9, <1>10, <1>11 DEF EffectInv, NonIdempotent, Covers
<1> QED
    BY <1>8, <1>9, <1>11, <1>12 DEF JInv

LEMMA EnterWaitingDefinitionUnavailableJInv ==
    ASSUME IInv, JInv, NEW r \in Runners, EnterWaitingDefinitionUnavailable(r)
    PROVE  JInv'
<1>1. /\ Transition(r, "WAITING", "DEFINITION_UNAVAILABLE", 0, Goto("idle"))
      /\ UNCHANGED <<lease, steps, effects, grants, torn, resolutions>>
      /\ pc[r] = "definitionUnavailable" /\ Fenced(r)
    BY DEF EnterWaitingDefinitionUnavailable, callVars, countVars, Transition
<1>2. run.status \in {"CREATED", "RUNNING"} /\ Types
    BY <1>1, HolderKnows DEF StatusAt
<1>3. run.status \notin TERMINAL_STATUSES /\ run.reason # "UNCERTAIN_NON_IDEMPOTENT"
    BY <1>2 DEF TERMINAL_STATUSES, Types, NoReason
<1>4. \A q \in Runners : Fenced(q) => ~UnsafeWindow(q)
    BY <1>1, OneHolder, HolderHasLease DEF UnsafeWindow
<1>5. JournalTells
    BY <1>3, <1>4, TellsUnlessWaiting
<1>6. NonIdempotent => \A c \in Calls : Owed(c) =>
                    \/ c \in Confirmed
                    \/ \E j \in RunningTools : steps[j].call = c
    BY <1>5 DEF JournalTells
<1>7. PICK reason : reason = "DEFINITION_UNAVAILABLE"
    OBVIOUS
<1>8. reason # "UNCERTAIN_NON_IDEMPOTENT" /\ Transition(r, "WAITING", reason, 0, Goto("idle"))
    BY <1>1, <1>7
<1> QED
    BY <1>1, <1>6, <1>8, TransitionWaitJInv

LEMMA EnterWaitingUncertainJInv ==
    ASSUME IInv, JInv, NEW r \in Runners, EnterWaitingUncertain(r)
    PROVE  JInv'
<1>1. PICK w, todo, next, p : w = loc[r].step /\ todo = loc[r].todo /\ next = loc[r].next /\ p = pc[r]
    OBVIOUS
<1>2. /\ Transition(r, "WAITING", "UNCERTAIN_NON_IDEMPOTENT", w, Goto("idle"))
      /\ UNCHANGED <<lease, steps, effects, grants, torn, resolutions>>
      /\ p = "enterWaiting" /\ Fenced(r)
    BY <1>1 DEF EnterWaitingUncertain, callVars, countVars, Transition
<1>3. /\ WorkAt(p, w, todo, next) /\ Types /\ (p \in Working => run.status = "RUNNING")
      /\ NonIdempotent => Covers
    BY <1>1, <1>2, HolderWorks
<1>4. Target(w) /\ RunningTools = {} /\ OpenModels = {}
    BY <1>2, <1>3 DEF WorkAt, BrokenAt
<1>5. ASSUME NonIdempotent, NEW c \in Calls, Owed(c)
      PROVE  c \in Confirmed \/ steps[w].call = c
    <2>1. Covered(c)
        BY <1>3, <1>5 DEF Covers
    <2>2. run.status = "RUNNING"
        BY <1>2, <1>3 DEF Working
    <2>3. c \in Confirmed \/ TracedBy(c, p, w)
        BY <1>1, <1>2, <1>3, <2>1, <2>2, HolderCovers
    <2> QED
        BY <1>4, <2>3 DEF TracedBy
<1> QED
    BY <1>2, <1>4, <1>5, TransitionWaitJInv

LEMMA StartJInv ==
    ASSUME IInv, FreshIds, JInv, NEW r \in Runners, Start(r)
    PROVE  JInv'
<1>1. PICK at : at = At("model", 0, {}, "idle")
    OBVIOUS
<1>2. /\ Transition(r, "RUNNING", NoReason, 0, at) /\ pc[r] = "start" /\ Fenced(r)
      /\ UNCHANGED <<lease, steps, effects, grants, torn, resolutions>>
    BY <1>1, ModelEntryGoes DEF Start, countVars, callVars, Transition
<1>3. at.pc = "model" /\ at.step = 0 /\ at.todo = {} /\ at.next = "idle" /\ Place(at)
    BY <1>1, AtFields DEF PCs, Nexts
<1>4. run.status = "CREATED" /\ Types
    BY <1>2, HolderKnows DEF StatusAt
<1>5. steps = <<>>
    BY <1>4 DEF JInv, Unstarted
<1>6. DOMAIN steps = {}
    BY <1>5
<1>7. /\ StepsOf("MODEL") = {} /\ RunningTools = {} /\ OpenModels = {}
      /\ Checkpointed("MODEL") = {}
    BY <1>6 DEF StepsOf, Checkpointed, RunningTools, OpenModels
<1>8. Unconfirmed = {}
    BY <1>7 DEF Unconfirmed, LastCalls
<1>9. ModelAt(0)
    BY <1>7, <1>8 DEF ModelAt
<1>10. WorkAt("model", 0, {}, "idle") /\ (NonIdempotent => Unowed("model"))
    BY <1>4, <1>9, ModelFits DEF Fits
<1>11. Unowed("model")'
    BY DEF Unowed
<1>12. JournalTells
    <2>1. run.status \notin TERMINAL_STATUSES /\ run.reason # "UNCERTAIN_NON_IDEMPOTENT"
        BY <1>4 DEF TERMINAL_STATUSES, Types, NoReason
    <2>2. \A q \in Runners : Fenced(q) => ~UnsafeWindow(q)
        BY <1>2, OneHolder, HolderHasLease DEF UnsafeWindow
    <2> QED
        BY <2>1, <2>2, TellsUnlessWaiting
<1>13. ASSUME NonIdempotent, NEW c \in Calls, Owed(c)'
       PROVE  c \in Confirmed \/ TracedBy(c, "model", 0)
    BY <1>2, <1>12, <1>13 DEF JournalTells, TracedBy, Owed
<1>14. EffectTypes' /\ (NonIdempotent => AtMostOnce')
    BY <1>2 DEF JInv, EffectTypes, EffectInv, NonIdempotent, AtMostOnce
<1> QED
    BY <1>2, <1>3, <1>10, <1>11, <1>13, <1>14, TransitionMoveJInv

LEMMA ReopenJInv ==
    ASSUME IInv, FreshIds, JInv, NEW r \in Runners, Reopen(r)
    PROVE  JInv'
<1>1. PICK at : at = ResumePoint
    OBVIOUS
<1>2. /\ Transition(r, "RUNNING", NoReason, 0, at) /\ pc[r] = "reopen" /\ Fenced(r)
      /\ UNCHANGED <<lease, steps, effects, grants, torn, resolutions>>
    BY <1>1 DEF Reopen, countVars, callVars, Transition
<1>3. Place(at) /\ at.pc \in ResumePlaces
    BY <1>1, ResumePointDuty
<1>4. PICK p, i, todo, next : p = at.pc /\ i = at.step /\ todo = at.todo /\ next = at.next
    OBVIOUS
<1>5. p # "idle" /\ p \notin {"reopen", "RETRY_STEP", "CONFIRM_STEP"}
    BY <1>3, <1>4 DEF ResumePlaces
<1>6. run.reason = "DEFINITION_UNAVAILABLE" /\ run.status = "WAITING"
    <2>1. WorkAt(pc[r], loc[r].step, loc[r].todo, loc[r].next)
        BY <1>2 DEF JInv, Works
    <2>2. StatusAt(pc[r])
        BY <1>2, HolderKnows
    <2> QED
        BY <1>2, <2>1, <2>2 DEF WorkAt, StatusAt
<1>7. JournalTells
    <2>1. run.status \notin TERMINAL_STATUSES /\ run.reason # "UNCERTAIN_NON_IDEMPOTENT"
        BY <1>6 DEF TERMINAL_STATUSES
    <2>2. \A q \in Runners : Fenced(q) => ~UnsafeWindow(q)
        BY <1>2, OneHolder, HolderHasLease DEF UnsafeWindow
    <2> QED
        BY <2>1, <2>2, TellsUnlessWaiting
<1>8. Fits(p, i, todo, next)
    BY <1>1, <1>4, <1>7, ResumePointFits DEF IInv, JInv
<1>9. WorkAt(p, i, todo, next) /\ (NonIdempotent => Unowed(p))
    BY <1>8 DEF Fits
<1>10. NonIdempotent => Unowed(p)'
    BY <1>2, <1>9, UnowedStays
<1>11. ASSUME NonIdempotent, NEW c \in Calls, Owed(c)'
       PROVE  c \in Confirmed \/ TracedBy(c, p, i)
    BY <1>2, <1>7, <1>11 DEF JournalTells, TracedBy, Owed
<1>12. EffectTypes' /\ (NonIdempotent => AtMostOnce')
    BY <1>2 DEF JInv, EffectTypes, EffectInv, NonIdempotent, AtMostOnce
<1> QED
    BY <1>2, <1>3, <1>4, <1>5, <1>9, <1>10, <1>11, <1>12, TransitionMoveJInv

\* A granted call is not owed any more; a confirmed one is traced by the call.
LEMMA ReopenResolvedJInv ==
    ASSUME IInv, FreshIds, JInv, NEW r \in Runners, ReopenResolved(r)
    PROVE  JInv'
<1>1. PICK p0, i, td, nx : p0 = pc[r] /\ i = loc[r].step /\ td = loc[r].todo /\ nx = loc[r].next
    OBVIOUS
<1>2. PICK p : p = (IF p0 = "RETRY_STEP" THEN "tool" ELSE "confirm")
    OBVIOUS
<1>3. PICK c, k : c = First(td) /\ k = (IF p0 = "RETRY_STEP" THEN 1 ELSE 0)
    OBVIOUS
<1>4. PICK at : at = At(p, i, td, "idle")
    OBVIOUS
<1>5. /\ Transition(r, "RUNNING", NoReason, 0, at) /\ p0 \in {"RETRY_STEP", "CONFIRM_STEP"}
      /\ UNCHANGED <<lease, steps, effects, torn, resolutions>> /\ Fenced(r)
      /\ grants' = [grants EXCEPT ![c] = @ + k]
    BY <1>1, <1>2, <1>3, <1>4 DEF ReopenResolved, countVars, Transition
<1>6. /\ WorkAt(p0, i, td, nx) /\ Types /\ Journal /\ EffectTypes /\ StatusAt(p0)
      /\ NonIdempotent => (Covers /\ AtMostOnce)
    BY <1>1, <1>5, HolderWorks
<1>7. /\ run.reason = "UNCERTAIN_NON_IDEMPOTENT" /\ i = run.wstep /\ run.status = "WAITING"
      /\ td = {First(Unconfirmed)} /\ resolutions # 0
    BY <1>5, <1>6 DEF WorkAt, StatusAt
<1>8. Target(i) /\ RunningTools = {} /\ OpenModels = {}
    BY <1>6, <1>7 DEF Journal
<1>9. /\ Unconfirmed # {} /\ steps[i].call = First(Unconfirmed) /\ i \in DOMAIN steps /\ i # 0
      /\ i \in Nat
    BY <1>6, <1>8, AttemptFacts DEF Target, StepsOf
<1>10. c = First(Unconfirmed) /\ td \in SUBSET (Nat \X Nat)
    BY <1>3, <1>6, <1>7, <1>9, UnconfirmedFacts
<1>11. /\ at.pc = p /\ at.step = i /\ at.todo = td /\ at.next = "idle" /\ Place(at)
       /\ p \in {"tool", "confirm"}
    BY <1>2, <1>4, <1>9, <1>10, AtFields DEF PCs, Nexts
<1>12. WorkAt(p, i, td, "idle")
    <2>1. ToolAt(i, td)
        BY <1>7, <1>8, <1>9 DEF ToolAt
    <2> QED
        BY <1>8, <1>11, <2>1 DEF WorkAt, ModelPlaces
<1>13. k \in Nat /\ (p = "tool" => k = 1)
    BY <1>2, <1>3
<1>14. /\ EffectTypes' /\ \A d \in Calls : grants'[d] \in Nat /\ grants[d] \in Nat /\ effects[d] \in Nat
       /\ \A d \in Calls : grants'[d] = IF d = c THEN grants[d] + k ELSE grants[d]
    <2>1. effects \in [Calls -> Nat] /\ grants \in [Calls -> Nat] /\ torn \in BOOLEAN
        BY <1>6 DEF EffectTypes
    <2>2. PICK x : x = grants[c] + k
        OBVIOUS
    <2>3. grants' = [grants EXCEPT ![c] = x]
        BY <1>5, <2>2
    <2>4. c \in Calls => x \in Nat
        <3>1. c \in Calls => grants[c] \in Nat
            BY <2>1
        <3> QED
            BY <1>13, <2>2, <3>1
    <2>5. grants' \in [Calls -> Nat] /\ \A d \in Calls : grants'[d] = IF d = c THEN x ELSE grants[d]
        BY <2>1, <2>3, <2>4
    <2>6. EffectTypes'
        BY <1>5, <2>1, <2>5 DEF EffectTypes
    <2>7. \A d \in Calls : grants'[d] \in Nat /\ grants[d] \in Nat /\ effects[d] \in Nat
        BY <2>1, <2>5
    <2> QED
        BY <2>2, <2>5, <2>6, <2>7
<1>15. ASSUME NonIdempotent, NEW d \in Calls
       PROVE  /\ effects'[d] <= 1 + grants'[d] /\ (Owed(d)' => Owed(d))
              /\ (d = c /\ p = "tool") => ~Owed(d)'
    <2>1. effects[d] <= 1 + grants[d]
        BY <1>6, <1>15 DEF AtMostOnce
    <2>2. PICK e, g, h \in Nat : e = effects[d] /\ g = grants[d] /\ h = grants'[d]
        BY <1>14
    <2>3. e <= 1 + g /\ (h = g \/ h = g + k) /\ (d = c => h = g + k)
        BY <1>14, <2>1, <2>2
    <2>4. e <= 1 + h /\ (e > h => e > g) /\ ((d = c /\ p = "tool") => ~(e > h))
        BY <1>13, <2>3
    <2> QED
        BY <1>5, <2>2, <2>4 DEF Owed
<1>16. NonIdempotent => AtMostOnce'
    BY <1>15 DEF AtMostOnce
<1>17. NonIdempotent => Unowed(p)'
    <2>1. Unconfirmed' = Unconfirmed
        BY <1>5, ViewStays DEF SameView, SameCalls
    <2> QED
        BY <1>10, <1>11, <1>15, <2>1 DEF Unowed
<1>18. ASSUME NonIdempotent, NEW d \in Calls, Owed(d)'
       PROVE  d \in Confirmed \/ TracedBy(d, p, i)
    <2>1. Covered(d)
        BY <1>6, <1>15, <1>18 DEF Covers
    <2>2. run.status \notin TERMINAL_STATUSES
        BY <1>7 DEF TERMINAL_STATUSES
    <2>3. \A q \in Runners : Fenced(q) => ~UnsafeWindow(q)
        BY <1>1, <1>5, OneHolder, HolderHasLease DEF UnsafeWindow
    <2>4. d \in Confirmed \/ steps[i].call = d
        BY <1>7, <1>8, <2>1, <2>2, <2>3 DEF Covered, Traced, UnsafeAt, UnsafePlaces, UnsafeWindow
    <2>5. steps[i].call = d => p = "confirm"
        BY <1>9, <1>10, <1>11, <1>15, <1>18
    <2> QED
        BY <2>4, <2>5 DEF TracedBy, UnsafeAt, UnsafePlaces
<1>19. p # "idle" /\ p \notin {"reopen", "RETRY_STEP", "CONFIRM_STEP"}
    BY <1>11
<1>20. EffectTypes'
    BY <1>14
<1> QED
    BY <1>5, <1>11, <1>12, <1>16, <1>17, <1>18, <1>19, <1>20, TransitionMoveJInv

------------------------------------------------------------------------------
(* The invariant. *)

LEMMA InitJInv == Init => JInv
<1> SUFFICES ASSUME Init PROVE JInv
    OBVIOUS
<1>1. DOMAIN steps = {} /\ steps = <<>>
    BY DEF Init
<1>2. StepsOf("MODEL") = {} /\ StepsOf("TOOL") = {} /\ RunningTools = {} /\ OpenModels = {}
    BY <1>1 DEF StepsOf, RunningTools, OpenModels
<1>3. run.reason # "UNCERTAIN_NON_IDEMPOTENT"
    BY DEF Init, NoReason
<1>4. Journal /\ Unstarted
    BY <1>1, <1>2, <1>3 DEF Journal, Unstarted
<1>5. \A q \in Runners : ~Fenced(q)
    <2>1. IInv
        BY InitIInv
    <2> QED
        BY <2>1, IdleUnfenced DEF Init, IInv
<1>6. Works /\ Unoweds
    BY <1>5 DEF Works, Unoweds
<1>7. effects \in [Calls -> Nat] /\ grants \in [Calls -> Nat] /\ torn \in BOOLEAN
    BY DEF Init
<1>8. \A c \in Calls : effects[c] = 0 /\ grants[c] = 0
    BY DEF Init
<1>9. AtMostOnce /\ Covers
    BY <1>8 DEF AtMostOnce, Covers, Owed
<1> QED
    BY <1>4, <1>6, <1>7, <1>9 DEF JInv, EffectTypes, EffectInv

LEMMA StutterJInv == IInv /\ JInv /\ UNCHANGED vars => JInv'
<1> SUFFICES ASSUME IInv, JInv, UNCHANGED vars PROVE JInv'
    OBVIOUS
<1>1. UNCHANGED <<run, lease, steps, pc, loc, effects, grants, resolutions, torn>>
    BY DEF vars
<1> QED
    BY <1>1, SameCallsStayJInv

LEMMA NextJInv == IInv /\ FreshIds /\ JInv /\ Next => JInv'
<1> SUFFICES ASSUME IInv, FreshIds, JInv, Next PROVE JInv'
    OBVIOUS
<1>1. CASE Expire \/ Overrun
    BY <1>1, ExpireJInv
<1>2. ASSUME NEW r \in Runners, Drive(r) PROVE JInv'
    BY <1>2, StartRunJInv, ResumeRunJInv DEF Drive
<1>3. ASSUME NEW r \in Runners, Disturb(r) PROVE JInv'
    BY <1>3, StartRunJInv, ResolveEndJInv, ResolveUncertainJInv, CancelCreatedJInv,
       RequestCancelJInv, CallOverJInv, RestartJInv DEF Disturb
<1>4. ASSUME NEW r \in Runners, Advance(r) PROVE JInv'
    <2>1. CASE Start(r) \/ EnterWaitingDefinitionUnavailable(r) \/ Reopen(r) \/ ReopenResolved(r)
        BY <2>1, StartJInv, EnterWaitingDefinitionUnavailableJInv, ReopenJInv,
           ReopenResolvedJInv
    <2>2. CASE ReserveModelAttempt(r) \/ DispatchModel(r) \/ RecordModelAttempt(r)
               \/ CheckpointModel(r) \/ UnconfirmModel(r)
        BY <2>2, ReserveJInv, DispatchModelJInv, RecordModelAttemptJInv,
           CheckpointModelJInv, UnconfirmModelJInv
    <2>3. CASE (\E n \in 0..MaxCalls : ModelReturns(r, n))
               \/ (\E f \in {"TRANSIENT", "PERMANENT"} : ModelFails(r, f))
        BY <2>3, ModelReturnsJInv, ModelFailsJInv
    <2>4. CASE BeginToolStep(r) \/ BeginToolAttempt(r) \/ ToolReturns(r) \/ RecordToolAttempt(r)
               \/ CheckpointTool(r) \/ UnconfirmTool(r) \/ RecordFailedStep(r)
        BY <2>4, BeginToolStepJInv, BeginToolAttemptJInv, ToolReturnsJInv,
           RecordToolAttemptJInv, CheckpointToolJInv, UnconfirmToolJInv,
           RecordFailedStepJInv
    <2>5. CASE (\E happens \in BOOLEAN : InvokeTool(r, happens))
               \/ (\E f \in {"TRANSIENT", "PERMANENT", "UNCERTAIN"} : ToolFails(r, f))
        BY <2>5, InvokeToolJInv, ToolFailsJInv
    <2>6. CASE EnterWaitingUncertain(r) \/ FailRun(r) \/ MaybeCancel(r) \/ FinalizeOutput(r)
               \/ ReleaseLease(r) \/ Refused(r)
        BY <2>6, EnterWaitingUncertainJInv, EndJInv, CallOverJInv
    <2> QED
        BY <1>4, <2>1, <2>2, <2>3, <2>4, <2>5, <2>6 DEF Advance
<1> QED
    BY <1>1, <1>2, <1>3, <1>4 DEF Next

LEMMA JournalInvariant == Spec => [](IInv /\ FreshJInv)
<1>1. Init => FreshJInv
    BY InitJInv DEF FreshJInv
<1>2. IInv /\ FreshJInv /\ [Next]_vars => FreshJInv'
    BY NextJInv, StutterJInv DEF FreshJInv
<1> QED
    BY <1>1, <1>2, Invariant, PTL DEF Spec

------------------------------------------------------------------------------
(* The theorems. *)

\* If the model never reuses a call_id, the effect of a NON_IDEMPOTENT call
\* happens at most once plus once for every RETRY_STEP an application asked for,
\* through any number of Runners, crashes, lost leases, takeovers, resumptions and
\* resolutions, as long as none of them strikes between two writes of an
\* UnsafeWindow.
THEOREM EffectAtMostOnceHolds == FreshIds => (Spec => []EffectAtMostOnce)
<1>1. FreshIds /\ FreshJInv => EffectAtMostOnce
    BY DEF FreshJInv, JInv, EffectInv, AtMostOnce, EffectAtMostOnce
<1> HAVE FreshIds
<1>2. FreshJInv => EffectAtMostOnce
    BY <1>1
<1> QED
    BY <1>2, JournalInvariant, PTL

\* A Run that waits on an uncertain effect names, in every state, the Step of the
\* first unconfirmed call, the one resolve_run would retry or confirm, and that
\* Step has no Checkpoint.
THEOREM WaitingStepIsTargetHolds == FreshIds => (Spec => []WaitingStepIsTarget)
<1>1. FreshIds /\ FreshJInv => WaitingStepIsTarget
    BY DEF FreshJInv, JInv, Journal, Target, WaitingStepIsTarget
<1> HAVE FreshIds
<1>2. FreshJInv => WaitingStepIsTarget
    BY <1>1
<1> QED
    BY <1>2, JournalInvariant, PTL

\* The model is in flight only with the outcome of every call of its last response
\* in a Tool Checkpoint, as long as no RETRY_STEP or CONFIRM_STEP narrowed what a
\* call executes.
THEOREM AllCallsAnsweredUnresolvedHolds == FreshIds => (Spec => []AllCallsAnsweredUnresolved)
<1>1. ASSUME FreshIds, FreshJInv PROVE AllCallsAnsweredUnresolved
    <2> SUFFICES ASSUME resolutions = 0, NEW r \in Runners, pc[r] = "modelInFlight", Fenced(r),
                        NEW c \in LastCalls
                 PROVE  \E i \in Checkpointed("TOOL") : steps[i].call = c
        BY DEF AllCallsAnsweredUnresolved, AllCallsAnswered
    <2>1. WorkAt(pc[r], loc[r].step, loc[r].todo, loc[r].next)
        BY <1>1 DEF FreshJInv, JInv, Works
    <2>2. Unconfirmed = {}
        BY <2>1 DEF WorkAt, ModelPlaces, ModelAt
    <2>3. c \in Confirmed
        BY <1>1, <2>2, FreshUnconfirmed
    <2> QED
        BY <2>3 DEF Confirmed
<1> HAVE FreshIds
<1>2. FreshJInv => AllCallsAnsweredUnresolved
    BY <1>1
<1> QED
    BY <1>2, JournalInvariant, PTL

LEMMA EffectsChange ==
    ASSUME Next
    PROVE  effects' = effects \/ \E r \in Runners, happens \in BOOLEAN : InvokeTool(r, happens)
<1>1. CASE Expire \/ Overrun
    BY <1>1 DEF Expire, Overrun, callVars
<1>2. ASSUME NEW r \in Runners, Drive(r) PROVE effects' = effects
    BY <1>2 DEF Drive, StartRun, ResumeRun, ResumeDefined, callVars
<1>3. ASSUME NEW r \in Runners, Disturb(r) PROVE effects' = effects
    BY <1>3 DEF Disturb, ResumeUndefined, ResolveEnd, ResolveUncertain, CancelCreated,
       RequestCancel, Crash, Restart, callVars
<1>4. ASSUME NEW r \in Runners, Advance(r)
      PROVE  effects' = effects \/ \E happens \in BOOLEAN : InvokeTool(r, happens)
    BY <1>4 DEF Advance, Start, EnterWaitingDefinitionUnavailable, Reopen, ReserveModelAttempt,
       DispatchModel, ModelReturns, RecordModelAttempt, CheckpointModel, ModelFails,
       UnconfirmModel, BeginToolStep, BeginToolAttempt, ToolReturns, RecordToolAttempt,
       CheckpointTool, ToolFails, UnconfirmTool, RecordFailedStep, EnterWaitingUncertain,
       FailRun, MaybeCancel, FinalizeOutput, ReleaseLease, Refused, ReopenResolved, callVars
<1> QED
    BY <1>1, <1>2, <1>3, <1>4 DEF Next

\* A call whose outcome is in a Tool Checkpoint is never dispatched again, by no
\* Runner, late or new, of whatever Effect the Tool is and whatever fault strikes.
THEOREM ConfirmedNeverRedispatchedHolds == FreshIds => (Spec => ConfirmedNeverRedispatched)
<1> HAVE FreshIds
<1>1. ASSUME IInv, FreshJInv, [Next]_vars
      PROVE  [\A c \in Calls : effects'[c] > effects[c] =>
                    \A i \in Checkpointed("TOOL") : steps[i].call # c]_vars
    <2>1. CASE UNCHANGED vars
        BY <2>1
    <2>2. CASE Next
        <3> SUFFICES ASSUME NEW c \in Calls, effects'[c] > effects[c]
                     PROVE  c \notin Confirmed
            BY DEF Confirmed
        <3>1. effects[c] \in Nat /\ JInv
            BY <1>1 DEF FreshJInv, JInv, EffectTypes
        <3>2. effects' # effects
            BY <3>1
        <3>3. PICK r \in Runners, happens \in BOOLEAN : InvokeTool(r, happens)
            BY <2>2, <3>2, EffectsChange
        <3>4. PICK i0, t0, n0, d : i0 = loc[r].step /\ t0 = loc[r].todo /\ n0 = loc[r].next /\ d = First(t0)
            OBVIOUS
        <3>5. Fenced(r) /\ pc[r] = "dispatchTool" /\ \A b \in Calls : b # d => effects'[b] = effects[b]
            <4>1. effects \in [Calls -> Nat]
                BY <3>1 DEF JInv, EffectTypes
            <4>2. PICK x : effects' = [effects EXCEPT ![d] = x]
                BY <3>3, <3>4 DEF InvokeTool
            <4> QED
                BY <3>3, <4>1, <4>2 DEF InvokeTool
        <3>6. c = d
            BY <3>1, <3>5
        <3>7. Types /\ Unconfirmed # {} /\ d = First(Unconfirmed)
            <4>1. WorkAt("dispatchTool", i0, t0, n0) /\ Types
                BY <1>1, <3>1, <3>4, <3>5 DEF JInv, Works, IInv
            <4>2. Unconfirmed # {} /\ (t0 = Unconfirmed \/ t0 = {First(Unconfirmed)})
                BY <4>1 DEF WorkAt, ToolPlaces, ToolAt
            <4> QED
                BY <3>4, <4>1, <4>2, UnconfirmedFacts
        <3> QED
            BY <3>6, <3>7, UnconfirmedFacts, FreshUnconfirmed
    <2> QED
        BY <1>1, <2>1, <2>2
<1> QED
    BY <1>1, JournalInvariant, PTL DEF Spec, ConfirmedNeverRedispatched

=============================================================================
