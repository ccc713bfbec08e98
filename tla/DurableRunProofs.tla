-------------------------- MODULE DurableRunProofs --------------------------
(***************************************************************************)
(* Proofs about DurableRun for any number of Runners, rounds, calls,       *)
(* faults, resolutions and cancellations: no call asks for a transition    *)
(* outside the table, a call that was asked to cancel does not let the Run *)
(* succeed, and the attempts of a Step stay within the frozen maximum.     *)
(*                                                                         *)
(* The store lets at most one call through.  So what the journal must      *)
(* satisfy is said of every state, and what the call that is let through   *)
(* knows of it is said of that call (Duties): every other call may be as   *)
(* stale as it likes.                                                      *)
(***************************************************************************)
EXTENDS DurableRun, TLAPS, FiniteSetTheorems

Nexts == {"idle", "failRun", "cancelRun", "enterWaiting", "replay"}
StepRecords ==
    [type : {"MODEL", "TOOL"}, status : {"RUNNING", "SUCCEEDED", "FAILED"},
     call : Nat \X Nat, atts : Seq(AttemptStates), out : Int]
Locals ==
    [ver : Nat, step : Nat, todo : SUBSET (Nat \X Nat), next : Nexts, out : Int,
     quiet : BOOLEAN, asked : BOOLEAN]

Types ==
    /\ run \in [status : RunStatuses, version : Nat \ {0},
                reason : WaitingReasons \cup {NoReason}, wstep : Nat]
    /\ run.reason # NoReason => run.status = "WAITING"
    /\ lease \in [owner : Runners \cup {NoRunner}, live : BOOLEAN]
    /\ steps \in Seq(StepRecords)
    /\ pc \in [Runners -> PCs] /\ loc \in [Runners -> Locals]
    /\ cancel \in [Runners -> BOOLEAN]
    /\ resolutions \in Nat

\* A Runner without a call knows nothing, so no store lets it through.
IdleClean == \A r \in Runners : pc[r] \in {"idle", "dead"} => loc[r] = NoLoc

\* A request to cancel stands until the call ends, and does not reach the calls
\* that decide from the journal alone that the Run has succeeded.
Asked ==
    \A r \in Runners : loc[r].asked => cancel[r] /\ pc[r] \notin {"reopen", "succeed"}

------------------------------------------------------------------------------
(* Attempts. *)

Cap == IF MaxAttempts = 0 THEN 1 ELSE MaxAttempts

\* There is such a Step and it may have another attempt; its newest attempt is
\* running; its newest attempt did not succeed.
Room(i) == i \in DOMAIN steps /\ Len(steps[i].atts) < Cap + resolutions
InFlight(i) == i \in DOMAIN steps /\ EndsIn(i, {"RUNNING"})
Unfinished(i) == i \in DOMAIN steps /\ ~EndsIn(i, {"SUCCEEDED"})

\* A Step that is RUNNING has not succeeded yet, and a Run waits on one that has not.
AttemptsHonest ==
    /\ \A i \in DOMAIN steps : steps[i].status = "RUNNING" => Unfinished(i)
    /\ run.reason = "UNCERTAIN_NON_IDEMPOTENT" => Unfinished(run.wstep)

\* What the call at p, on Step i, may do to the Step's attempts.
BudgetAt(p, i, next) ==
    /\ p = "model" => (i = 0 \/ Room(i))
    /\ p = "tool" => (i = 0 \/ (Room(i) /\ Unfinished(i)))
    /\ p \in {"beginAttempt", "confirm", "RETRY_STEP", "CONFIRM_STEP"} =>
        (Room(i) /\ Unfinished(i))
    /\ p \in {"dispatchModel", "modelInFlight", "dispatchTool", "toolActed", "toolIdle"} =>
        InFlight(i)
    /\ p = "recordModelAttempt" => (InFlight(i) /\ steps[i].status = "SUCCEEDED")
    /\ p = "recordToolAttempt" =>
        ((InFlight(i) \/ Room(i)) /\ steps[i].status = "SUCCEEDED")
    /\ p \in {"checkpointModel", "checkpointTool"} => i \in DOMAIN steps
    /\ p = "unconfirmModel" => (i \in DOMAIN steps /\ steps[i].atts # <<>>)
    /\ p = "unconfirmTool" =>
        /\ next \in {"enterWaiting", "replay"}
        /\ InFlight(i) \/ (i \in DOMAIN steps /\ steps[i].atts = <<>>)
    /\ p = "recordFailedStep" =>
        /\ next # "idle"
        /\ (i = 0 /\ next = "failRun") \/ i \in DOMAIN steps
        /\ next \in {"enterWaiting", "replay"} => Unfinished(i)
    /\ p = "enterWaiting" => Unfinished(i)

------------------------------------------------------------------------------
(* The status of the Run under a call. *)

Working ==
    {"model", "dispatchModel", "modelInFlight", "recordModelAttempt", "checkpointModel",
     "unconfirmModel", "tool", "beginAttempt", "dispatchTool", "toolActed", "toolIdle",
     "confirm", "recordToolAttempt", "checkpointTool", "unconfirmTool", "recordFailedStep",
     "enterWaiting", "succeed"}

StatusAt(p) ==
    /\ p \notin {"idle", "dead"}
    /\ p = "start" => run.status = "CREATED"
    /\ p = "definitionUnavailable" => run.status \in {"CREATED", "RUNNING"}
    /\ p \in Working => run.status = "RUNNING"
    /\ p \in {"reopen", "RETRY_STEP", "CONFIRM_STEP"} => run.status = "WAITING"
    /\ p = "failRun" => run.status \in {"RUNNING", "WAITING"}
    /\ p = "cancelRun" => run.status \in {"CREATED", "RUNNING", "WAITING"}
    /\ p = "release" => run.status \in TERMINAL_STATUSES

\* The response in hand, and the call a Step is to be created for.
HandAt(p, i, todo, out) ==
    /\ p \in {"recordModelAttempt", "checkpointModel"} => out \in 0..MaxCalls
    /\ p = "tool" /\ i = 0 => todo # {}

Duty(r) ==
    /\ StatusAt(pc[r])
    /\ BudgetAt(pc[r], loc[r].step, loc[r].next)
    /\ HandAt(pc[r], loc[r].step, loc[r].todo, loc[r].out)

Duties == \A r \in Runners : Fenced(r) => Duty(r)

IInv == Types /\ IdleClean /\ Asked /\ AttemptsHonest /\ StepBudget /\ Duties

------------------------------------------------------------------------------
(* The last of some Steps. *)

LEMMA LeastNat ==
    ASSUME NEW T \in SUBSET Nat, T # {}
    PROVE  \E x \in T : \A y \in T : x <= y
<1> DEFINE Less == {ss \in Nat \X Nat : ss[1] < ss[2]}
<1>1. IsWellFoundedOn(Less, Nat)
    BY NatLessThanWellFounded DEF OpToRel
<1>2. PICK x \in T : \A y \in T : ~(<<y, x>> \in Less)
    <2> HIDE DEF Less
    <2> QED
        BY <1>1, WFMin
<1>3. ASSUME NEW y \in T PROVE x <= y
    <2>1. x \in Nat /\ y \in Nat /\ <<y, x>> \in Nat \X Nat
        OBVIOUS
    <2>2. ~(y < x)
        BY <1>2, <2>1
    <2> QED
        BY <2>1, <2>2
<1> QED
    BY <1>3

LEMMA LastOfFacts ==
    ASSUME NEW n \in Nat, NEW S \in SUBSET (1..n)
    PROVE  /\ LastOf(S) \in 0..n
           /\ LastOf(S) = 0 <=> S = {}
           /\ S # {} => (LastOf(S) \in S /\ LastOf(S) = Max(S))
           /\ \A x \in S : x <= LastOf(S)
<1>1. CASE S = {}
    BY <1>1 DEF LastOf
<1>2. CASE S # {}
    <2> DEFINE T == {n - x : x \in S}
    <2>1. T \in SUBSET Nat /\ T # {}
        <3>1. \A x \in S : n - x \in Nat
            OBVIOUS
        <3> QED
            BY <1>2, <3>1
    <2>2. PICK t \in T : \A y \in T : t <= y
        BY <2>1, LeastNat
    <2>3. PICK x \in S : t = n - x
        BY <2>2
    <2>4. \A y \in S : x >= y
        BY <2>2, <2>3
    <2>5. Max(S) \in S /\ \A y \in S : Max(S) >= y
        BY <2>4 DEF Max
    <2>6. PICK m : m = Max(S)
        OBVIOUS
    <2>7. LastOf(S) = m
        BY <1>2, <2>6 DEF LastOf
    <2>8. m \in 1..n
        BY <2>5, <2>6
    <2> QED
        BY <1>2, <2>5, <2>6, <2>7, <2>8
<1> QED
    BY <1>1, <1>2

------------------------------------------------------------------------------
(* What the writes do. *)

Statuses == {"RUNNING", "SUCCEEDED", "FAILED"}

\* Step i of the journal has a new status, attempts and Checkpoint.
Edited(i, status, atts, out) ==
    /\ steps' \in Seq(StepRecords)
    /\ DOMAIN steps' = DOMAIN steps /\ Len(steps') = Len(steps)
    /\ \A j \in DOMAIN steps \ {i} : steps'[j] = steps[j]
    /\ steps'[i].type = steps[i].type /\ steps'[i].call = steps[i].call
    /\ steps'[i].status = status /\ steps'[i].atts = atts /\ steps'[i].out = out

\* The journal has one more Step.
Appended(type, status, call, atts) ==
    /\ steps' \in Seq(StepRecords)
    /\ DOMAIN steps' = DOMAIN steps \cup {Len(steps) + 1} /\ Len(steps') = Len(steps) + 1
    /\ Len(steps) + 1 \in Nat \ {0} /\ Len(steps) + 1 \notin DOMAIN steps
    /\ \A j \in DOMAIN steps : steps'[j] = steps[j] /\ j < Len(steps) + 1
    /\ steps'[Len(steps) + 1].type = type /\ steps'[Len(steps) + 1].call = call
    /\ steps'[Len(steps) + 1].status = status /\ steps'[Len(steps) + 1].atts = atts
    /\ steps'[Len(steps) + 1].out = NoOut

LEMMA StepFields ==
    ASSUME NEW x \in StepRecords
    PROVE  /\ x.type \in {"MODEL", "TOOL"} /\ x.status \in Statuses
           /\ x.call \in Nat \X Nat /\ x.atts \in Seq(AttemptStates) /\ x.out \in Int
           /\ x = [type |-> x.type, status |-> x.status, call |-> x.call, atts |-> x.atts,
                   out |-> x.out]
BY DEF StepRecords, Statuses

LEMMA StepEdits ==
    ASSUME NEW x \in StepRecords, NEW v
    PROVE  /\ [x EXCEPT !.status = v] = [type |-> x.type, status |-> v, call |-> x.call,
                                         atts |-> x.atts, out |-> x.out]
           /\ [x EXCEPT !.atts = v] = [type |-> x.type, status |-> x.status, call |-> x.call,
                                       atts |-> v, out |-> x.out]
           /\ [x EXCEPT !.out = v] = [type |-> x.type, status |-> x.status, call |-> x.call,
                                      atts |-> x.atts, out |-> v]
<1>1. PICK t, s, c, a, o : x = [type |-> t, status |-> s, call |-> c, atts |-> a, out |-> o]
    BY StepFields
<1>2. x.type = t /\ x.status = s /\ x.call = c /\ x.atts = a /\ x.out = o
    BY <1>1
<1>3. [x EXCEPT !.status = v] = [type |-> t, status |-> v, call |-> c, atts |-> a, out |-> o]
    BY <1>1
<1>4. [x EXCEPT !.atts = v] = [type |-> t, status |-> s, call |-> c, atts |-> v, out |-> o]
    BY <1>1
<1>5. [x EXCEPT !.out = v] = [type |-> t, status |-> s, call |-> c, atts |-> a, out |-> v]
    BY <1>1
<1> QED
    BY <1>2, <1>3, <1>4, <1>5

LEMMA StepMade ==
    ASSUME NEW t \in {"MODEL", "TOOL"}, NEW s \in Statuses, NEW c \in Nat \X Nat,
           NEW a \in Seq(AttemptStates), NEW o \in Int
    PROVE  [type |-> t, status |-> s, call |-> c, atts |-> a, out |-> o] \in StepRecords
BY DEF StepRecords, Statuses

\* A journal with one Step replaced.
LEMMA StepReplaced ==
    ASSUME steps \in Seq(StepRecords), NEW i \in DOMAIN steps, NEW x,
           NEW s \in Statuses, NEW a \in Seq(AttemptStates), NEW o \in Int,
           x = [type |-> steps[i].type, status |-> s, call |-> steps[i].call, atts |-> a,
                out |-> o],
           steps' = [steps EXCEPT ![i] = x]
    PROVE  Edited(i, s, a, o)
<1>1. steps[i] \in StepRecords
    OBVIOUS
<1>2. x \in StepRecords
    BY <1>1, StepFields, StepMade
<1>3. /\ x.type = steps[i].type /\ x.call = steps[i].call
      /\ x.status = s /\ x.atts = a /\ x.out = o
    OBVIOUS
<1>4. /\ steps' \in Seq(StepRecords) /\ DOMAIN steps' = DOMAIN steps /\ Len(steps') = Len(steps)
      /\ steps'[i] = x /\ \A j \in DOMAIN steps \ {i} : steps'[j] = steps[j]
    <2> HIDE <1>3
    <2> QED
        BY <1>2
<1> QED
    BY <1>3, <1>4 DEF Edited

LEMMA StatusSet ==
    ASSUME steps \in Seq(StepRecords), NEW i \in DOMAIN steps, NEW s \in Statuses,
           steps' = [steps EXCEPT ![i].status = s]
    PROVE  Edited(i, s, steps[i].atts, steps[i].out)
<1>1. PICK x : x = [steps[i] EXCEPT !.status = s]
    OBVIOUS
<1>2. steps' = [steps EXCEPT ![i] = x]
    BY <1>1
<1>3. steps[i] \in StepRecords
    OBVIOUS
<1>4. x = [type |-> steps[i].type, status |-> s, call |-> steps[i].call,
           atts |-> steps[i].atts, out |-> steps[i].out]
    BY <1>1, <1>3, StepEdits
<1> QED
    BY <1>2, <1>3, <1>4, StepFields, StepReplaced

LEMMA AttsSet ==
    ASSUME steps \in Seq(StepRecords), NEW i \in DOMAIN steps, NEW a \in Seq(AttemptStates),
           steps' = [steps EXCEPT ![i].atts = a]
    PROVE  Edited(i, steps[i].status, a, steps[i].out)
<1>1. PICK x : x = [steps[i] EXCEPT !.atts = a]
    OBVIOUS
<1>2. steps' = [steps EXCEPT ![i] = x]
    BY <1>1
<1>3. steps[i] \in StepRecords
    OBVIOUS
<1>4. x = [type |-> steps[i].type, status |-> steps[i].status, call |-> steps[i].call,
           atts |-> a, out |-> steps[i].out]
    BY <1>1, <1>3, StepEdits
<1> QED
    BY <1>2, <1>3, <1>4, StepFields, StepReplaced

LEMMA OutSet ==
    ASSUME steps \in Seq(StepRecords), NEW i \in DOMAIN steps, NEW o \in Int,
           steps' = [steps EXCEPT ![i].out = o]
    PROVE  Edited(i, steps[i].status, steps[i].atts, o)
<1>1. PICK x : x = [steps[i] EXCEPT !.out = o]
    OBVIOUS
<1>2. steps' = [steps EXCEPT ![i] = x]
    BY <1>1
<1>3. steps[i] \in StepRecords
    OBVIOUS
<1>4. x = [type |-> steps[i].type, status |-> steps[i].status, call |-> steps[i].call,
           atts |-> steps[i].atts, out |-> o]
    BY <1>1, <1>3, StepEdits
<1> QED
    BY <1>2, <1>3, <1>4, StepFields, StepReplaced

LEMMA StepAppended ==
    ASSUME steps \in Seq(StepRecords), NEW t \in {"MODEL", "TOOL"}, NEW s \in Statuses,
           NEW c \in Nat \X Nat, NEW a \in Seq(AttemptStates),
           steps' = Append(steps, [type |-> t, status |-> s, call |-> c, atts |-> a,
                                   out |-> NoOut])
    PROVE  Appended(t, s, c, a)
<1>1. PICK x : x = [type |-> t, status |-> s, call |-> c, atts |-> a, out |-> NoOut]
    OBVIOUS
<1>2. x \in StepRecords
    BY <1>1, StepMade DEF NoOut
<1>3. x.type = t /\ x.status = s /\ x.call = c /\ x.atts = a /\ x.out = NoOut
    BY <1>1
<1>4. PICK n : n = Len(steps) + 1
    OBVIOUS
<1>5. /\ steps' \in Seq(StepRecords) /\ DOMAIN steps' = DOMAIN steps \cup {n}
      /\ Len(steps') = n /\ n \in Nat \ {0} /\ n \notin DOMAIN steps
      /\ steps'[n] = x /\ \A j \in DOMAIN steps : steps'[j] = steps[j] /\ j < n
    <2>1. steps' = Append(steps, x)
        BY <1>1
    <2> QED
        BY <1>2, <1>4, <2>1
<1> QED
    BY <1>3, <1>4, <1>5 DEF Appended

\* reserve_model_attempt on a Step that is there.
LEMMA AttemptReserved ==
    ASSUME steps \in Seq(StepRecords), NEW i \in DOMAIN steps,
           steps' = [steps EXCEPT ![i].status = "RUNNING", ![i].atts = Append(@, "RUNNING")]
    PROVE  Edited(i, "RUNNING", Append(steps[i].atts, "RUNNING"), steps[i].out)
<1>1. steps[i] \in StepRecords
    OBVIOUS
<1>2. PICK x : x = [steps[i] EXCEPT !.status = "RUNNING"]
    OBVIOUS
<1>3. x = [type |-> steps[i].type, status |-> "RUNNING", call |-> steps[i].call,
           atts |-> steps[i].atts, out |-> steps[i].out]
    BY <1>1, <1>2, StepEdits
<1>4. x \in StepRecords /\ x.atts = steps[i].atts
    BY <1>1, <1>3, StepFields, StepMade DEF Statuses
<1>5. PICK mid : mid = [steps EXCEPT ![i] = x]
    OBVIOUS
<1>6. mid \in Seq(StepRecords) /\ DOMAIN mid = DOMAIN steps /\ mid[i] = x
    BY <1>4, <1>5
<1>7. steps' = [mid EXCEPT ![i].atts = Append(@, "RUNNING")]
    BY <1>2, <1>5
<1>8. PICK a : a = Append(steps[i].atts, "RUNNING")
    OBVIOUS
<1>9. a \in Seq(AttemptStates)
    BY <1>1, <1>8, StepFields DEF AttemptStates
<1>10. PICK y : y = [x EXCEPT !.atts = a]
    OBVIOUS
<1>11. y = [type |-> steps[i].type, status |-> "RUNNING", call |-> steps[i].call,
            atts |-> a, out |-> steps[i].out]
    BY <1>3, <1>4, <1>10, StepEdits
<1>12. steps' = [mid EXCEPT ![i] = y]
    BY <1>4, <1>6, <1>7, <1>8, <1>10
<1>13. steps' = [steps EXCEPT ![i] = y]
    BY <1>5, <1>6, <1>12
<1> QED
    BY <1>1, <1>8, <1>9, <1>11, <1>13, StepFields, StepReplaced DEF Statuses

\* SetAttempt ends the running attempt, or adds one that has ended.
LEMMA AttemptSet ==
    ASSUME NEW a \in Seq(AttemptStates), NEW s \in AttemptStates
    PROVE  /\ SetAttempt(a, s) \in Seq(AttemptStates) /\ SetAttempt(a, s) # <<>>
           /\ SetAttempt(a, s)[Len(SetAttempt(a, s))] = s
           /\ (a # <<>> /\ a[Len(a)] = "RUNNING") => Len(SetAttempt(a, s)) = Len(a)
           /\ Len(SetAttempt(a, s)) \in {Len(a), Len(a) + 1}
           /\ \A j \in 1..Len(a) : j < Len(a) => SetAttempt(a, s)[j] = a[j]
           /\ \A j \in 1..Len(SetAttempt(a, s)) :
                SetAttempt(a, s)[j] = s \/ (j \in 1..Len(a) /\ SetAttempt(a, s)[j] = a[j])
<1>1. CASE a # <<>> /\ a[Len(a)] = "RUNNING"
    <2>1. SetAttempt(a, s) = [a EXCEPT ![Len(a)] = s]
        BY <1>1 DEF SetAttempt
    <2>2. Len(a) \in 1..Len(a)
        BY <1>1
    <2> QED
        BY <1>1, <2>1, <2>2
<1>2. CASE ~(a # <<>> /\ a[Len(a)] = "RUNNING")
    <2>1. SetAttempt(a, s) = Append(a, s)
        BY <1>2 DEF SetAttempt
    <2> QED
        BY <1>2, <2>1
<1> QED
    BY <1>1, <1>2

------------------------------------------------------------------------------
(* What the steps do to the calls. *)

\* All calls but one are where they were.
Others(r) == \A q \in Runners \ {r} : pc'[q] = pc[q] /\ loc'[q] = loc[q]

\* The call of r goes on.
Moves(r, p, i, todo, next, out) ==
    /\ pc' \in [Runners -> PCs] /\ loc' \in [Runners -> Locals] /\ Others(r)
    /\ pc'[r] = p
    /\ loc'[r].step = i /\ loc'[r].todo = todo /\ loc'[r].next = next /\ loc'[r].out = out
    /\ loc'[r].asked = loc[r].asked

\* The call of r ends.
Ends(r, p) ==
    /\ pc' \in [Runners -> PCs] /\ loc' \in [Runners -> Locals] /\ Others(r)
    /\ pc'[r] = p /\ loc'[r] = NoLoc

\* A place a call may go to.
Place(at) ==
    at.pc \in PCs /\ at.step \in Nat /\ at.todo \in SUBSET (Nat \X Nat) /\ at.next \in Nexts

LEMMA AtFields ==
    ASSUME NEW p, NEW i, NEW t, NEW n
    PROVE  /\ At(p, i, t, n).pc = p /\ At(p, i, t, n).step = i
           /\ At(p, i, t, n).todo = t /\ At(p, i, t, n).next = n
           /\ (p \in PCs /\ i \in Nat /\ t \in SUBSET (Nat \X Nat) /\ n \in Nexts) =>
                Place(At(p, i, t, n))
BY DEF At, Place

LEMMA LocalFields ==
    ASSUME NEW l \in Locals
    PROVE  /\ l.ver \in Nat /\ l.step \in Nat /\ l.todo \in SUBSET (Nat \X Nat)
           /\ l.next \in Nexts /\ l.out \in Int /\ l.quiet \in BOOLEAN /\ l.asked \in BOOLEAN
           /\ l = [ver |-> l.ver, step |-> l.step, todo |-> l.todo, next |-> l.next,
                   out |-> l.out, quiet |-> l.quiet, asked |-> l.asked]
BY DEF Locals

LEMMA LocalMade ==
    ASSUME NEW v \in Nat, NEW i \in Nat, NEW t \in SUBSET (Nat \X Nat), NEW n \in Nexts,
           NEW o \in Int, NEW q \in BOOLEAN, NEW a \in BOOLEAN
    PROVE  [ver |-> v, step |-> i, todo |-> t, next |-> n, out |-> o, quiet |-> q,
            asked |-> a] \in Locals
BY DEF Locals

LEMMA LocalEdits ==
    ASSUME NEW v, NEW i, NEW t, NEW n, NEW o, NEW q, NEW a, NEW l, NEW x,
           l = [ver |-> v, step |-> i, todo |-> t, next |-> n, out |-> o, quiet |-> q,
                asked |-> a]
    PROVE  /\ [l EXCEPT !.ver = x] = [ver |-> x, step |-> i, todo |-> t, next |-> n, out |-> o,
                                      quiet |-> q, asked |-> a]
           /\ [l EXCEPT !.step = x] = [ver |-> v, step |-> x, todo |-> t, next |-> n, out |-> o,
                                       quiet |-> q, asked |-> a]
           /\ [l EXCEPT !.todo = x] = [ver |-> v, step |-> i, todo |-> x, next |-> n, out |-> o,
                                       quiet |-> q, asked |-> a]
           /\ [l EXCEPT !.next = x] = [ver |-> v, step |-> i, todo |-> t, next |-> x, out |-> o,
                                       quiet |-> q, asked |-> a]
           /\ [l EXCEPT !.out = x] = [ver |-> v, step |-> i, todo |-> t, next |-> n, out |-> x,
                                      quiet |-> q, asked |-> a]
           /\ [l EXCEPT !.asked = x] = [ver |-> v, step |-> i, todo |-> t, next |-> n,
                                        out |-> o, quiet |-> q, asked |-> x]
<1>1. [l EXCEPT !.ver = x] = [ver |-> x, step |-> i, todo |-> t, next |-> n, out |-> o,
                              quiet |-> q, asked |-> a]
    OBVIOUS
<1>2. [l EXCEPT !.step = x] = [ver |-> v, step |-> x, todo |-> t, next |-> n, out |-> o,
                               quiet |-> q, asked |-> a]
    OBVIOUS
<1>3. [l EXCEPT !.todo = x] = [ver |-> v, step |-> i, todo |-> x, next |-> n, out |-> o,
                               quiet |-> q, asked |-> a]
    OBVIOUS
<1>4. [l EXCEPT !.next = x] = [ver |-> v, step |-> i, todo |-> t, next |-> x, out |-> o,
                               quiet |-> q, asked |-> a]
    OBVIOUS
<1>5. [l EXCEPT !.out = x] = [ver |-> v, step |-> i, todo |-> t, next |-> n, out |-> x,
                              quiet |-> q, asked |-> a]
    OBVIOUS
<1>6. [l EXCEPT !.asked = x] = [ver |-> v, step |-> i, todo |-> t, next |-> n, out |-> o,
                                quiet |-> q, asked |-> x]
    OBVIOUS
<1> QED
    BY <1>1, <1>2, <1>3, <1>4, <1>5, <1>6

\* The locals of one call are replaced.
LEMMA LocalReplaced ==
    ASSUME pc \in [Runners -> PCs], loc \in [Runners -> Locals], NEW r \in Runners,
           NEW p \in PCs, NEW l \in Locals,
           pc' = [pc EXCEPT ![r] = p], loc' = [loc EXCEPT ![r] = l]
    PROVE  /\ pc' \in [Runners -> PCs] /\ loc' \in [Runners -> Locals] /\ Others(r)
           /\ pc'[r] = p /\ loc'[r] = l
BY DEF Others

LEMMA Continued ==
    ASSUME pc \in [Runners -> PCs], loc \in [Runners -> Locals], NEW r \in Runners, NEW at,
           Place(at),
           Continue(r, at)
    PROVE  Moves(r, at.pc, at.step, at.todo, at.next, NoOut) /\ loc'[r].ver = loc[r].ver
<1>1. PICK v, i, t, n, o, q, a :
            /\ v \in Nat /\ q \in BOOLEAN /\ a \in BOOLEAN
            /\ loc[r].ver = v /\ loc[r].asked = a
            /\ loc[r] = [ver |-> v, step |-> i, todo |-> t, next |-> n, out |-> o, quiet |-> q,
                         asked |-> a]
    <2>1. loc[r] \in Locals
        OBVIOUS
    <2> QED
        BY <2>1, LocalFields
<1>2. PICK l1 : l1 = [loc[r] EXCEPT !.step = at.step]
    OBVIOUS
<1>3. PICK l2 : l2 = [l1 EXCEPT !.todo = at.todo]
    OBVIOUS
<1>4. PICK l3 : l3 = [l2 EXCEPT !.next = at.next]
    OBVIOUS
<1>5. PICK l : l = [l3 EXCEPT !.out = NoOut]
    OBVIOUS
<1>6. l1 = [ver |-> v, step |-> at.step, todo |-> t, next |-> n, out |-> o, quiet |-> q,
            asked |-> a]
    <2>1. PICK l0 : l0 = loc[r]
        OBVIOUS
    <2>2. l0 = [ver |-> v, step |-> i, todo |-> t, next |-> n, out |-> o, quiet |-> q,
                asked |-> a]
        BY <1>1, <2>1
    <2>3. l1 = [l0 EXCEPT !.step = at.step]
        BY <1>2, <2>1
    <2> QED
        BY <2>2, <2>3, LocalEdits
<1>7. l2 = [ver |-> v, step |-> at.step, todo |-> at.todo, next |-> n, out |-> o, quiet |-> q,
            asked |-> a]
    BY <1>6, <1>3, LocalEdits
<1>8. l3 = [ver |-> v, step |-> at.step, todo |-> at.todo, next |-> at.next, out |-> o,
            quiet |-> q, asked |-> a]
    BY <1>7, <1>4, LocalEdits
<1>9. l = [ver |-> v, step |-> at.step, todo |-> at.todo, next |-> at.next, out |-> NoOut,
           quiet |-> q, asked |-> a]
    BY <1>8, <1>5, LocalEdits
<1>10. l \in Locals
    <2>1. at.step \in Nat /\ at.todo \in SUBSET (Nat \X Nat) /\ at.next \in Nexts
        BY DEF Place
    <2>2. NoOut \in Int
        BY DEF NoOut
    <2>3. [ver |-> v, step |-> at.step, todo |-> at.todo, next |-> at.next, out |-> NoOut,
           quiet |-> q, asked |-> a] \in Locals
        BY <1>1, <2>1, <2>2, LocalMade
    <2> QED
        BY <1>9, <2>3
<1>11. loc' = [loc EXCEPT ![r] = l]
    BY <1>2, <1>3, <1>4, <1>5 DEF Continue
<1>12. pc' = [pc EXCEPT ![r] = at.pc]
    BY DEF Continue
<1>13. /\ pc' \in [Runners -> PCs] /\ loc' \in [Runners -> Locals] /\ Others(r)
       /\ pc'[r] = at.pc /\ loc'[r] = l
    BY <1>10, <1>11, <1>12, LocalReplaced DEF Place
<1>14. /\ l.step = at.step /\ l.todo = at.todo /\ l.next = at.next /\ l.out = NoOut
       /\ l.ver = v /\ l.asked = a
    BY <1>9
<1> QED
    BY <1>1, <1>13, <1>14 DEF Moves

LEMMA ContinuedAt ==
    ASSUME pc \in [Runners -> PCs], loc \in [Runners -> Locals], NEW r \in Runners,
           NEW p \in PCs, NEW i \in Nat, NEW t \in SUBSET (Nat \X Nat), NEW n \in Nexts,
           Continue(r, At(p, i, t, n))
    PROVE  Moves(r, p, i, t, n, NoOut) /\ loc'[r].ver = loc[r].ver
<1>1. PICK at : at = At(p, i, t, n)
    OBVIOUS
<1>2. Place(at) /\ at.pc = p /\ at.step = i /\ at.todo = t /\ at.next = n
    BY <1>1, AtFields
<1>3. Continue(r, at)
    BY <1>1
<1>4. Moves(r, at.pc, at.step, at.todo, at.next, NoOut) /\ loc'[r].ver = loc[r].ver
    BY <1>2, <1>3, Continued
<1> QED
    BY <1>2, <1>4

\* A step that leaves the Step and the calls of a call as they are.
LEMMA Moved ==
    ASSUME pc \in [Runners -> PCs], loc \in [Runners -> Locals], NEW r \in Runners,
           NEW p \in PCs, pc' = [pc EXCEPT ![r] = p], loc' = loc
    PROVE  /\ Moves(r, p, loc[r].step, loc[r].todo, loc[r].next, loc[r].out)
           /\ loc'[r].ver = loc[r].ver
BY DEF Moves, Others

LEMMA MovedWithResponse ==
    ASSUME pc \in [Runners -> PCs], loc \in [Runners -> Locals], NEW r \in Runners,
           NEW p \in PCs, NEW n \in Int,
           pc' = [pc EXCEPT ![r] = p], loc' = [loc EXCEPT ![r].out = n]
    PROVE  Moves(r, p, loc[r].step, loc[r].todo, loc[r].next, n) /\ loc'[r].ver = loc[r].ver
<1>1. PICK l0 : l0 = loc[r]
    OBVIOUS
<1>2. PICK l : l = [l0 EXCEPT !.out = n]
    OBVIOUS
<1>3. l0 \in Locals
    BY <1>1
<1>4. l = [ver |-> l0.ver, step |-> l0.step, todo |-> l0.todo, next |-> l0.next, out |-> n,
           quiet |-> l0.quiet, asked |-> l0.asked]
    <2>1. l0 = [ver |-> l0.ver, step |-> l0.step, todo |-> l0.todo, next |-> l0.next,
                out |-> l0.out, quiet |-> l0.quiet, asked |-> l0.asked]
        BY <1>3, LocalFields
    <2> QED
        BY <1>2, <2>1, LocalEdits
<1>5. l \in Locals
    BY <1>3, <1>4, LocalFields, LocalMade
<1>6. loc' = [loc EXCEPT ![r] = l]
    BY <1>1, <1>2
<1>7. /\ pc' \in [Runners -> PCs] /\ loc' \in [Runners -> Locals] /\ Others(r)
      /\ pc'[r] = p /\ loc'[r] = l
    BY <1>5, <1>6, LocalReplaced
<1>8. /\ l.step = l0.step /\ l.todo = l0.todo /\ l.next = l0.next /\ l.out = n
      /\ l.ver = l0.ver /\ l.asked = l0.asked
    BY <1>4
<1> QED
    BY <1>1, <1>7, <1>8 DEF Moves

LEMMA NoLocType == NoLoc \in Locals /\ ~NoLoc.asked /\ NoLoc.ver = 0
BY DEF NoLoc, Locals, Nexts, NoOut

LEMMA Ended ==
    ASSUME pc \in [Runners -> PCs], loc \in [Runners -> Locals], NEW r \in Runners,
           NEW p \in PCs, pc' = [pc EXCEPT ![r] = p], loc' = [loc EXCEPT ![r] = NoLoc]
    PROVE  Ends(r, p)
BY NoLocType, LocalReplaced DEF Ends

LEMMA Acquired ==
    ASSUME Types, NEW r \in Runners, NEW quiet \in BOOLEAN, NEW at, Place(at),
           Acquire(r, quiet, at)
    PROVE  /\ pc' \in [Runners -> PCs] /\ loc' \in [Runners -> Locals] /\ Others(r)
           /\ pc'[r] = at.pc
           /\ loc'[r].step = at.step /\ loc'[r].todo = at.todo /\ loc'[r].next = at.next
           /\ loc'[r].out = NoOut /\ loc'[r].ver = run.version /\ loc'[r].asked = FALSE
           /\ lease' = [owner |-> r, live |-> TRUE]
<1>1. PICK l : l = [ver |-> run.version, step |-> at.step, todo |-> at.todo, next |-> at.next,
                    out |-> NoOut, quiet |-> quiet, asked |-> FALSE]
    OBVIOUS
<1>2. run.version \in Nat
    BY DEF Types
<1>3. l \in Locals
    <2>1. at.step \in Nat /\ at.todo \in SUBSET (Nat \X Nat) /\ at.next \in Nexts
        BY DEF Place
    <2>2. NoOut \in Int /\ FALSE \in BOOLEAN
        BY DEF NoOut
    <2> QED
        BY <1>1, <1>2, <2>1, <2>2, LocalMade
<1>4. loc' = [loc EXCEPT ![r] = l] /\ pc' = [pc EXCEPT ![r] = at.pc]
    BY <1>1 DEF Acquire
<1>5. /\ pc' \in [Runners -> PCs] /\ loc' \in [Runners -> Locals] /\ Others(r)
      /\ pc'[r] = at.pc /\ loc'[r] = l
    BY <1>3, <1>4, LocalReplaced DEF Place, Types
<1>6. /\ l.step = at.step /\ l.todo = at.todo /\ l.next = at.next /\ l.out = NoOut
      /\ l.ver = run.version /\ l.asked = FALSE
    BY <1>1
<1> QED
    BY <1>5, <1>6 DEF Acquire

LEMMA Transitioned ==
    ASSUME Types, NEW r \in Runners, NEW status, NEW reason, NEW wstep, NEW at, Place(at),
           Transition(r, status, reason, wstep, at)
    PROVE  /\ Fenced(r)
           /\ run' = [status |-> status, version |-> run.version + 1, reason |-> reason,
                      wstep |-> wstep]
           /\ at.pc = "idle" => Ends(r, "idle")
           /\ at.pc # "idle" =>
                /\ Moves(r, at.pc, at.step, at.todo, at.next, loc[r].out)
                /\ loc'[r].ver = run.version + 1
<1>1. Fenced(r) /\ run' = [status |-> status, version |-> run.version + 1, reason |-> reason,
                           wstep |-> wstep]
    BY DEF Transition
<1>2. pc' = [pc EXCEPT ![r] = at.pc] /\ at.pc \in PCs
    BY DEF Transition, Place
<1>3. CASE at.pc = "idle"
    <2>1. loc' = [loc EXCEPT ![r] = NoLoc]
        BY <1>3 DEF Transition
    <2> QED
        BY <1>1, <1>2, <1>3, <2>1, Ended DEF Types
<1>4. CASE at.pc # "idle"
    <2>1. PICK v : v = run.version + 1
        OBVIOUS
    <2>2. v \in Nat
        <3>1. run.version \in Nat
            BY DEF Types
        <3> QED
            BY <2>1, <3>1
    <2>3. PICK l0 : l0 = loc[r]
        OBVIOUS
    <2>4. l0 \in Locals
        BY <2>3 DEF Types
    <2>5. PICK l1 : l1 = [l0 EXCEPT !.ver = v]
        OBVIOUS
    <2>6. PICK l2 : l2 = [l1 EXCEPT !.step = at.step]
        OBVIOUS
    <2>7. PICK l3 : l3 = [l2 EXCEPT !.todo = at.todo]
        OBVIOUS
    <2>8. PICK l : l = [l3 EXCEPT !.next = at.next]
        OBVIOUS
    <2>9. l1 = [ver |-> v, step |-> l0.step, todo |-> l0.todo, next |-> l0.next,
                out |-> l0.out, quiet |-> l0.quiet, asked |-> l0.asked]
        <3>1. l0 = [ver |-> l0.ver, step |-> l0.step, todo |-> l0.todo, next |-> l0.next,
                    out |-> l0.out, quiet |-> l0.quiet, asked |-> l0.asked]
            BY <2>4, LocalFields
        <3> QED
            BY <2>5, <3>1, LocalEdits
    <2>10. l2 = [ver |-> v, step |-> at.step, todo |-> l0.todo, next |-> l0.next,
                 out |-> l0.out, quiet |-> l0.quiet, asked |-> l0.asked]
        BY <2>9, <2>6, LocalEdits
    <2>11. l3 = [ver |-> v, step |-> at.step, todo |-> at.todo, next |-> l0.next,
                 out |-> l0.out, quiet |-> l0.quiet, asked |-> l0.asked]
        BY <2>10, <2>7, LocalEdits
    <2>12. l = [ver |-> v, step |-> at.step, todo |-> at.todo, next |-> at.next,
                out |-> l0.out, quiet |-> l0.quiet, asked |-> l0.asked]
        BY <2>11, <2>8, LocalEdits
    <2>13. l \in Locals
        BY <2>2, <2>4, <2>12, LocalFields, LocalMade DEF Place
    <2>14. loc' = [loc EXCEPT ![r] = l]
        BY <1>4, <2>1, <2>3, <2>5, <2>6, <2>7, <2>8 DEF Transition
    <2>15. /\ pc' \in [Runners -> PCs] /\ loc' \in [Runners -> Locals] /\ Others(r)
           /\ pc'[r] = at.pc /\ loc'[r] = l
        BY <1>2, <2>13, <2>14, LocalReplaced DEF Types
    <2>16. /\ l.step = at.step /\ l.todo = at.todo /\ l.next = at.next /\ l.out = l0.out
           /\ l.ver = v /\ l.asked = l0.asked
        BY <2>12
    <2> QED
        BY <1>1, <1>4, <2>1, <2>3, <2>15, <2>16 DEF Moves
<1> QED
    BY <1>3, <1>4

------------------------------------------------------------------------------
(* The fence. *)

LEMMA HolderHasLease ==
    ASSUME NEW r \in Runners, Fenced(r)
    PROVE  lease = [owner |-> r, live |-> TRUE] /\ loc[r].ver = run.version
BY DEF Fenced

\* The store lets one call through.
LEMMA OneHolder ==
    ASSUME NEW r \in Runners, lease = [owner |-> r, live |-> TRUE],
           NEW q \in Runners, Fenced(q)
    PROVE  q = r
<1>1. lease = [owner |-> q, live |-> TRUE]
    BY DEF Fenced
<1>2. lease.owner = q /\ lease.owner = r
    BY <1>1
<1> QED
    BY <1>2

LEMMA OneHolderNext ==
    ASSUME NEW r \in Runners, lease' = [owner |-> r, live |-> TRUE],
           NEW q \in Runners, Fenced(q)'
    PROVE  q = r
<1>1. lease' = [owner |-> q, live |-> TRUE]
    BY DEF Fenced
<1>2. lease'.owner = q /\ lease'.owner = r
    BY <1>1
<1> QED
    BY <1>2

\* A Runner without a call is not let through.
LEMMA IdleUnfenced ==
    ASSUME Types, IdleClean, NEW r \in Runners, pc[r] \in {"idle", "dead"}
    PROVE  ~Fenced(r)
<1>1. loc[r].ver = 0
    BY NoLocType DEF IdleClean
<1>2. run.version # 0
    BY DEF Types
<1> QED
    BY <1>1, <1>2 DEF Fenced

\* Who acquires the lease takes it from nobody that is still let through.
LEMMA NobodyHolds ==
    ASSUME Types, IdleClean, NEW r \in Runners, pc[r] = "idle", LeaseAvailable(r),
           NEW q \in Runners
    PROVE  ~Fenced(q)
<1> SUFFICES ASSUME Fenced(q) PROVE FALSE
    OBVIOUS
<1>1. lease.owner = q /\ lease.live = TRUE
    BY DEF Fenced
<1>2. q = r
    BY <1>1, RunnersAssumption DEF LeaseAvailable
<1> QED
    BY <1>2, IdleUnfenced

------------------------------------------------------------------------------
(* Kinds of steps, and what each has to show. *)

\* A step that leaves journal and record alone and lets no call through that was not.
LEMMA QuietStep ==
    ASSUME AttemptsHonest, StepBudget, Duties,
           UNCHANGED <<run, steps, resolutions>>,
           \A q \in Runners : Fenced(q)' =>
                /\ Fenced(q) /\ pc'[q] = pc[q]
                /\ loc'[q].step = loc[q].step /\ loc'[q].next = loc[q].next
                /\ loc'[q].todo = loc[q].todo /\ loc'[q].out = loc[q].out
    PROVE  AttemptsHonest' /\ StepBudget' /\ Duties'
<1>1. AttemptsHonest' /\ StepBudget'
    BY DEF AttemptsHonest, StepBudget, Unfinished, EndsIn, LastAttempt
<1>2. ASSUME NEW q \in Runners, Fenced(q)' PROVE Duty(q)'
    <2>1. Duty(q) /\ pc'[q] = pc[q] /\ loc'[q].step = loc[q].step
          /\ loc'[q].next = loc[q].next /\ loc'[q].out = loc[q].out
          /\ loc'[q].todo = loc[q].todo
        BY <1>2 DEF Duties
    <2>2. StatusAt(pc[q])' /\ HandAt(pc[q], loc[q].step, loc[q].todo, loc[q].out)'
        BY <2>1 DEF Duty, StatusAt, HandAt
    <2>3. BudgetAt(pc[q], loc[q].step, loc[q].next)'
        BY <2>1 DEF Duty, BudgetAt, Room, InFlight, Unfinished, EndsIn, LastAttempt
    <2> QED
        BY <2>1, <2>2, <2>3 DEF Duty
<1> QED
    BY <1>1, <1>2 DEF Duties

\* The call that is let through writes into the journal and goes on.
LEMMA HolderWrites ==
    ASSUME IInv, NEW r \in Runners, Fenced(r), UNCHANGED <<run, lease, cancel, resolutions>>,
           NEW p, NEW i, NEW todo, NEW next, NEW out, Moves(r, p, i, todo, next, out),
           steps' \in Seq(StepRecords), AttemptsHonest', StepBudget',
           StatusAt(p), p # "reopen", p = "succeed" => ~loc[r].asked,
           BudgetAt(p, i, next)', HandAt(p, i, todo, out)
    PROVE  IInv'
<1>1. Types'
    BY DEF IInv, Types, Moves
<1>2. IdleClean'
    BY DEF IInv, IdleClean, Moves, Others, StatusAt
<1>3. Asked'
    BY DEF IInv, Asked, Moves, Others
<1>4. ASSUME NEW q \in Runners, Fenced(q)' PROVE Duty(q)'
    <2>1. q = r
        BY <1>4, OneHolderNext, HolderHasLease
    <2>2. pc'[r] = p /\ loc'[r].step = i /\ loc'[r].next = next /\ loc'[r].out = out
          /\ loc'[r].todo = todo
        BY DEF Moves
    <2>3. StatusAt(pc[r])'
        BY <2>2 DEF StatusAt
    <2>4. BudgetAt(pc[r], loc[r].step, loc[r].next)'
        BY <2>2
    <2>5. HandAt(pc[r], loc[r].step, loc[r].todo, loc[r].out)'
        BY <2>2 DEF HandAt
    <2> QED
        BY <2>1, <2>3, <2>4, <2>5 DEF Duty
<1> QED
    BY <1>1, <1>2, <1>3, <1>4 DEF IInv, Duties

\* An idle Runner acquires the lease.
LEMMA HolderAcquires ==
    ASSUME IInv, NEW r \in Runners, UNCHANGED <<run, steps, cancel>>,
           resolutions' \in Nat, resolutions' >= resolutions,
           pc' \in [Runners -> PCs], loc' \in [Runners -> Locals], Others(r),
           lease' = [owner |-> r, live |-> TRUE], loc'[r].asked = FALSE,
           StatusAt(pc'[r]), BudgetAt(pc[r], loc[r].step, loc[r].next)',
           HandAt(pc'[r], loc'[r].step, loc'[r].todo, loc'[r].out)
    PROVE  IInv'
<1>1. Types'
    BY DEF IInv, Types
<1>2. IdleClean'
    BY DEF IInv, IdleClean, Others, StatusAt
<1>3. Asked'
    BY DEF IInv, Asked, Others
<1>4. AttemptsHonest'
    BY DEF IInv, AttemptsHonest, Unfinished, EndsIn, LastAttempt
<1>5. StepBudget'
    <2>1. \A i \in DOMAIN steps : steps[i].atts \in Seq(AttemptStates)
        BY StepFields DEF IInv, Types
    <2>2. \A i \in DOMAIN steps : Len(steps[i].atts) \in Nat
        BY <2>1
    <2>3. Cap \in Nat /\ resolutions \in Nat
        BY BoundsAssumption DEF Cap, IInv, Types
    <2> QED
        BY <2>2, <2>3 DEF IInv, StepBudget, Cap
<1>6. ASSUME NEW q \in Runners, Fenced(q)' PROVE Duty(q)'
    <2>1. q = r
        BY <1>6, OneHolderNext
    <2>2. StatusAt(pc[r])' /\ HandAt(pc[r], loc[r].step, loc[r].todo, loc[r].out)'
        BY DEF StatusAt, HandAt
    <2> QED
        BY <2>1, <2>2 DEF Duty
<1> QED
    BY <1>1, <1>2, <1>3, <1>4, <1>5, <1>6 DEF IInv, Duties

\* The call that is let through moves the Run to another status.
LEMMA HolderTransitions ==
    ASSUME IInv, NEW r \in Runners, Fenced(r), UNCHANGED <<lease, steps, resolutions>>,
           NEW status \in RunStatuses, NEW reason \in WaitingReasons \cup {NoReason},
           NEW wstep \in Nat, reason # NoReason => status = "WAITING",
           reason = "UNCERTAIN_NON_IDEMPOTENT" => Unfinished(wstep),
           run' = [status |-> status, version |-> run.version + 1, reason |-> reason,
                   wstep |-> wstep],
           cancel' \in [Runners -> BOOLEAN],
           \A q \in Runners \ {r} : cancel'[q] = cancel[q],
           \/ Ends(r, "idle")
           \/ /\ cancel' = cancel
              /\ \E p, i, todo, next :
                    /\ Moves(r, p, i, todo, next, loc[r].out)
                    /\ HandAt(p, i, todo, loc[r].out) /\ p # "reopen"
                    /\ p = "succeed" => ~loc[r].asked
                    /\ StatusAt(pc[r])' /\ BudgetAt(p, i, next)
    PROVE  IInv'
<1>1. PICK v : v = run.version + 1
    OBVIOUS
<1>2. v \in Nat \ {0}
    <2>1. run.version \in Nat
        BY DEF IInv, Types
    <2> QED
        BY <1>1, <2>1
<1>3. /\ run' = [status |-> status, version |-> v, reason |-> reason, wstep |-> wstep]
      /\ run'.status = status /\ run'.reason = reason /\ run'.wstep = wstep
    BY <1>1
<1>4. Types'
    <2>1. pc' \in [Runners -> PCs] /\ loc' \in [Runners -> Locals]
        BY DEF Moves, Ends
    <2> QED
        BY <1>2, <1>3, <2>1 DEF IInv, Types
<1>5. IdleClean'
    BY DEF IInv, IdleClean, Moves, Ends, Others, StatusAt
<1>6. Asked'
    BY NoLocType DEF IInv, Asked, Moves, Ends, Others
<1>7. AttemptsHonest' /\ StepBudget'
    BY <1>3 DEF IInv, AttemptsHonest, StepBudget, Unfinished, EndsIn, LastAttempt
<1>8. ASSUME NEW q \in Runners, Fenced(q)' PROVE Duty(q)'
    <2>1. q = r
        BY <1>8, OneHolderNext, HolderHasLease
    <2>2. ~Ends(r, "idle")
        <3>1. loc'[r].ver = run'.version
            BY <1>8, <2>1 DEF Fenced
        <3>2. run'.version = v
            BY <1>3
        <3> QED
            BY <1>2, <3>1, <3>2, NoLocType DEF Ends
    <2>3. PICK p, i, todo, next :
                    /\ Moves(r, p, i, todo, next, loc[r].out)
                    /\ HandAt(p, i, todo, loc[r].out)
                    /\ StatusAt(pc[r])' /\ BudgetAt(p, i, next)
        BY <2>2
    <2>4. pc'[r] = p /\ loc'[r].step = i /\ loc'[r].next = next
          /\ loc'[r].todo = todo /\ loc'[r].out = loc[r].out
        BY <2>3 DEF Moves
    <2>5. BudgetAt(pc[r], loc[r].step, loc[r].next)'
        BY <2>3, <2>4 DEF BudgetAt, Room, InFlight, Unfinished, EndsIn, LastAttempt
    <2>6. HandAt(pc[r], loc[r].step, loc[r].todo, loc[r].out)'
        BY <2>3, <2>4 DEF HandAt
    <2> QED
        BY <2>1, <2>3, <2>5, <2>6 DEF Duty
<1> QED
    BY <1>4, <1>5, <1>6, <1>7, <1>8 DEF IInv, Duties

------------------------------------------------------------------------------
(* Where calls go on. *)

LEMMA AttemptFacts ==
    ASSUME Types, NEW i \in DOMAIN steps
    PROVE  /\ steps[i] \in StepRecords /\ steps[i].atts \in Seq(AttemptStates)
           /\ Len(steps[i].atts) \in Nat /\ i \in Nat \ {0} /\ i \in 1..Len(steps)
           /\ Len(steps) \in Nat
           /\ steps[i].atts # <<>> =>
                (LastAttempt(i) \in AttemptStates /\ Len(steps[i].atts) \in DOMAIN steps[i].atts)
<1>1. steps[i] \in StepRecords
    BY DEF Types
<1>2. steps[i].atts \in Seq(AttemptStates)
    BY <1>1, StepFields
<1>3. Len(steps[i].atts) \in Nat /\ Len(steps) \in Nat /\ i \in Nat \ {0} /\ i \in 1..Len(steps)
    BY <1>2 DEF Types
<1>4. ASSUME steps[i].atts # <<>>
      PROVE  LastAttempt(i) \in AttemptStates /\ Len(steps[i].atts) \in DOMAIN steps[i].atts
    <2>1. Len(steps[i].atts) \in DOMAIN steps[i].atts
        BY <1>2, <1>4
    <2> QED
        BY <1>2, <2>1 DEF LastAttempt
<1> QED
    BY <1>1, <1>2, <1>3, <1>4

LEMMA CapFacts == Cap \in Nat /\ Cap >= 1 /\ MaxAttempts \in Nat /\ MaxAttempts <= Cap
BY BoundsAssumption DEF Cap

LEMMA ModelEntryGoes ==
    ASSUME NEW i
    PROVE  /\ \/ ModelEntry(i) = At("recordFailedStep", i, {}, "failRun") /\ i # 0
              \/ /\ ModelEntry(i) = At("model", i, {}, "idle")
                 /\ \/ i = 0 \/ ~EndsIn(i, FailedAttempts)
                    \/ Len(steps[i].atts) < MaxAttempts
           /\ ModelEntry(0) = At("model", 0, {}, "idle")
BY DEF ModelEntry, FailStep, ShouldRetry

LEMMA ModelRecoveryGoes ==
    ASSUME NEW i
    PROVE  \/ ModelRecovery(i) = At("recordFailedStep", i, {}, "failRun")
           \/ /\ ModelRecovery(i) = At("model", i, {}, "idle")
              /\ Len(steps[i].atts) < MaxAttempts
BY DEF ModelRecovery, FailStep, RecoveryReplayAllowed

LEMMA ToolEntryGoes ==
    ASSUME NEW i, NEW todo, NEW replay \in BOOLEAN
    PROVE  /\ \/ ToolEntry(i, todo, replay) = At("recordFailedStep", i, {}, "failRun") /\ i # 0
              \/ /\ ToolEntry(i, todo, replay) = At("tool", i, todo, "idle")
                 /\ \/ i = 0 \/ steps[i].atts = <<>> \/ Len(steps[i].atts) < MaxAttempts
                    \/ (~replay /\ ~EndsIn(i, FailedAttempts))
           /\ ToolEntry(0, todo, replay) = At("tool", 0, todo, "idle")
BY DEF ToolEntry, FailStep, RecoveryReplayAllowed, ShouldRetry

\* A Step that is RUNNING has no attempts, or its newest one is running or failed.
LEMMA RunningAttempts ==
    ASSUME Types, AttemptsHonest, NEW i \in DOMAIN steps, steps[i].status = "RUNNING",
           steps[i].atts # <<>>, ~EndsIn(i, FailedAttempts)
    PROVE  EndsIn(i, {"RUNNING"})
<1>1. LastAttempt(i) \in AttemptStates
    BY AttemptFacts
<1>2. LastAttempt(i) # "SUCCEEDED"
    BY DEF AttemptsHonest, Unfinished, EndsIn
<1>3. LastAttempt(i) \notin FailedAttempts
    BY DEF EndsIn
<1> QED
    BY <1>1, <1>2, <1>3 DEF EndsIn, AttemptStates

ResumePlaces ==
    {"unconfirmModel", "model", "recordFailedStep", "failRun", "succeed", "tool",
     "unconfirmTool"}

LEMMA LastCallsType ==
    ASSUME Types
    PROVE  LastCalls \in SUBSET (Nat \X Nat) /\ Unconfirmed \in SUBSET LastCalls
<1> DEFINE responses == Checkpointed("MODEL")
<1>1. CASE responses = {}
    BY <1>1 DEF LastCalls, Unconfirmed
<1>2. CASE responses # {}
    <2>1. responses \in SUBSET (1..Len(steps)) /\ Len(steps) \in Nat
        BY DEF Checkpointed, StepsOf, Types
    <2>2. IsFiniteSet(responses)
        <3>1. IsFiniteSet(1..Len(steps))
            BY <2>1, FS_Interval
        <3> HIDE DEF responses
        <3> QED
            BY <2>1, <3>1, FS_Subset
    <2>3. PICK n : n = Cardinality(responses)
        OBVIOUS
    <2>4. n \in Nat
        BY <2>2, <2>3, FS_CardinalityType
    <2>5. LastCalls = {<<n, k>> : k \in 1..steps[Max(responses)].out}
        BY <1>2, <2>3 DEF LastCalls
    <2>6. \A k \in 1..steps[Max(responses)].out : k \in Nat
        <3>1. Max(responses) \in responses
            BY <1>2, <2>1, LastOfFacts
        <3>2. steps[Max(responses)].out \in Int
            BY <3>1, StepFields DEF Checkpointed, StepsOf, Types
        <3> QED
            BY <3>2
    <2> HIDE DEF responses
    <2> QED
        BY <2>4, <2>5, <2>6 DEF Unconfirmed
<1> QED
    BY <1>1, <1>2

\* What the journal says is to be done next can be done within the budget.
LEMMA ResumePointGoes ==
    ASSUME Types, AttemptsHonest, StepBudget
    PROVE  /\ Place(ResumePoint) /\ ResumePoint.pc \in ResumePlaces
           /\ BudgetAt(ResumePoint.pc, ResumePoint.step, ResumePoint.next)
           /\ ResumePoint.pc = "tool" => ResumePoint.todo # {}
<1> DEFINE open == {i \in StepsOf("MODEL") \ Checkpointed("MODEL") :
                        HasAttempt(i, {"RUNNING", "SUCCEEDED", "UNCONFIRMED"})}
           runningM == {i \in StepsOf("MODEL") : steps[i].status = "RUNNING"}
           runningT == {i \in StepsOf("TOOL") : steps[i].status = "RUNNING"}
           Good(at) == /\ Place(at) /\ at.pc \in ResumePlaces
                       /\ BudgetAt(at.pc, at.step, at.next)
                       /\ at.pc = "tool" => at.todo # {}
<1>1. Len(steps) \in Nat /\ DOMAIN steps = 1..Len(steps)
    BY DEF Types
<1>2. /\ open \in SUBSET (1..Len(steps)) /\ runningM \in SUBSET (1..Len(steps))
      /\ runningT \in SUBSET (1..Len(steps)) /\ StepsOf("MODEL") \in SUBSET (1..Len(steps))
    BY <1>1 DEF StepsOf
<1>3. /\ LastOf(open) = 0 <=> open = {}
      /\ LastOf(open) # 0 => LastOf(open) \in open
      /\ LastOf(runningM) # 0 => LastOf(runningM) \in runningM
      /\ LastOf(runningT) # 0 => LastOf(runningT) \in runningT
      /\ LastOf(runningM) \in Nat /\ LastOf(runningT) \in Nat
    <2> HIDE DEF open, runningM, runningT
    <2> QED
        BY <1>1, <1>2, LastOfFacts
<1>4. Unconfirmed \in SUBSET (Nat \X Nat)
    BY LastCallsType
<1>5. ASSUME NEW i \in DOMAIN steps PROVE Good(At("recordFailedStep", i, {}, "failRun"))
    BY <1>1, AtFields, AttemptFacts DEF PCs, Nexts, ResumePlaces, BudgetAt
<1>6. ASSUME NEW i \in DOMAIN steps, Len(steps[i].atts) < MaxAttempts \/ steps[i].atts = <<>>
      PROVE  Room(i)
    <2>1. Len(steps[i].atts) < Cap
        BY <1>6, CapFacts, AttemptFacts
    <2> QED
        BY <2>1, CapFacts, AttemptFacts DEF Room, Types
<1>7. ASSUME NEW i, i = 0 \/ (i \in DOMAIN steps /\ Room(i))
      PROVE Good(At("model", i, {}, "idle"))
    BY <1>7, AtFields, AttemptFacts DEF PCs, Nexts, ResumePlaces, BudgetAt
<1>8. ASSUME LastOf(open) # 0
      PROVE  Good(IF EndsIn(LastOf(open), {"RUNNING", "SUCCEEDED"})
                  THEN At("unconfirmModel", LastOf(open), {}, "idle")
                  ELSE ModelRecovery(LastOf(open)))
    <2>1. PICK i \in DOMAIN steps : i = LastOf(open)
        BY <1>3, <1>8 DEF StepsOf
    <2>2. CASE EndsIn(i, {"RUNNING", "SUCCEEDED"})
        <3>1. steps[i].atts # <<>>
            BY <2>2 DEF EndsIn
        <3>2. Good(At("unconfirmModel", i, {}, "idle"))
            BY <3>1, AtFields, AttemptFacts DEF PCs, Nexts, ResumePlaces, BudgetAt
        <3> HIDE DEF Good, open
        <3> QED
            BY <2>1, <2>2, <3>2
    <2>3. CASE ~EndsIn(i, {"RUNNING", "SUCCEEDED"})
        <3>1. Good(ModelRecovery(i))
            <4> HIDE DEF Good, open
            <4> QED
                BY <1>5, <1>6, <1>7, ModelRecoveryGoes
        <3> HIDE DEF Good, open
        <3> QED
            BY <2>1, <2>3, <3>1
    <2> QED
        BY <2>2, <2>3
<1>9. Good(Goto("failRun")) /\ Good(Goto("succeed"))
    BY AtFields DEF Goto, PCs, Nexts, ResumePlaces, BudgetAt
<1>10. ASSUME open = {}, Checkpointed("MODEL") = {} PROVE Good(ModelEntry(LastOf(runningM)))
    <2>1. CASE LastOf(runningM) = 0
        <3>1. Good(At("model", 0, {}, "idle"))
            BY <1>7
        <3> HIDE DEF Good, runningM
        <3> QED
            BY <2>1, <3>1, ModelEntryGoes
    <2>2. CASE LastOf(runningM) # 0
        <3>1. PICK i \in runningM : i = LastOf(runningM)
            BY <1>3, <2>2
        <3>2. i \in DOMAIN steps /\ i \notin open /\ i \in StepsOf("MODEL") \ Checkpointed("MODEL")
            BY <1>10, <3>1 DEF StepsOf
        <3>3. EndsIn(i, FailedAttempts) \/ steps[i].atts = <<>>
            <4> SUFFICES ASSUME steps[i].atts # <<>>, ~EndsIn(i, FailedAttempts) PROVE FALSE
                OBVIOUS
            <4>1. LastAttempt(i) \in AttemptStates /\ Len(steps[i].atts) \in DOMAIN steps[i].atts
                BY <3>2, AttemptFacts
            <4>2. LastAttempt(i) \in {"RUNNING", "SUCCEEDED"}
                BY <4>1 DEF EndsIn, AttemptStates
            <4>3. HasAttempt(i, {"RUNNING", "SUCCEEDED", "UNCONFIRMED"})
                BY <4>1, <4>2 DEF HasAttempt, LastAttempt
            <4> QED
                BY <3>2, <4>3
        <3>4. Good(ModelEntry(i))
            <4> HIDE DEF Good, open, runningM
            <4>1. ModelEntry(i) = At("recordFailedStep", i, {}, "failRun") \/
                  (ModelEntry(i) = At("model", i, {}, "idle") /\ Room(i))
                BY <1>6, <3>2, <3>3, ModelEntryGoes, AttemptFacts
            <4> QED
                BY <1>5, <1>7, <3>2, <4>1
        <3> HIDE DEF Good, runningM
        <3> QED
            BY <3>1, <3>4
    <2> QED
        BY <2>1, <2>2
<1>11. Good(ModelEntry(0))
    <2>1. Good(At("model", 0, {}, "idle"))
        BY <1>7
    <2> HIDE DEF Good
    <2> QED
        BY <2>1, ModelEntryGoes
<1>12. ASSUME Unconfirmed # {}, NEW i, i = 0 \/ (i \in DOMAIN steps /\ Room(i) /\ Unfinished(i))
       PROVE Good(At("tool", i, Unconfirmed, "idle"))
    BY <1>4, <1>12, AtFields, AttemptFacts DEF PCs, Nexts, ResumePlaces, BudgetAt
<1>13. ASSUME Unconfirmed # {} PROVE Good(ResumeTools(LastOf(runningT)))
    <2>1. CASE LastOf(runningT) = 0
        <3>1. ResumeTools(0) = ToolEntry(0, Unconfirmed, FALSE)
            BY DEF ResumeTools
        <3>2. ResumeTools(0) = At("tool", 0, Unconfirmed, "idle")
            BY <3>1, ToolEntryGoes
        <3>3. Good(At("tool", 0, Unconfirmed, "idle"))
            BY <1>12, <1>13
        <3> HIDE DEF Good, runningT
        <3> QED
            BY <2>1, <3>2, <3>3
    <2>2. CASE LastOf(runningT) # 0
        <3>1. PICK i \in runningT : i = LastOf(runningT)
            BY <1>3, <2>2
        <3>2. i \in DOMAIN steps /\ steps[i].status = "RUNNING" /\ i # 0 /\ Unfinished(i)
            BY <1>1, <3>1 DEF StepsOf, AttemptsHonest
        <3>3. ASSUME NEW todo \in SUBSET (Nat \X Nat), NEW n \in {"enterWaiting", "replay"},
                     InFlight(i) \/ steps[i].atts = <<>>
              PROVE  Good(At("unconfirmTool", i, todo, n))
            BY <3>2, <3>3, AtFields, AttemptFacts DEF PCs, Nexts, ResumePlaces, BudgetAt
        <3>4. Good(At("recordFailedStep", i, {}, "enterWaiting"))
            BY <3>2, AtFields, AttemptFacts DEF PCs, Nexts, ResumePlaces, BudgetAt
        <3>5. EndsIn(i, {"RUNNING"}) => InFlight(i)
            BY <3>2 DEF InFlight
        <3>6. CASE Effect = "NON_IDEMPOTENT"
            <4>1. ~HasAttempt(i, FailedAttempts) => InFlight(i) \/ steps[i].atts = <<>>
                <5> SUFFICES ASSUME ~HasAttempt(i, FailedAttempts), steps[i].atts # <<>>
                             PROVE  InFlight(i)
                    OBVIOUS
                <5>1. Len(steps[i].atts) \in DOMAIN steps[i].atts
                    BY <3>2, AttemptFacts
                <5>2. ~EndsIn(i, FailedAttempts)
                    BY <5>1 DEF HasAttempt, EndsIn, LastAttempt
                <5> QED
                    BY <3>2, <3>5, <5>2, RunningAttempts
            <4>2. ResumeTools(i) = IF EndsIn(i, {"RUNNING"}) \/ ~HasAttempt(i, FailedAttempts)
                                   THEN At("unconfirmTool", i, {}, "enterWaiting")
                                   ELSE At("recordFailedStep", i, {}, "enterWaiting")
                BY <3>2, <3>6 DEF ResumeTools, FailStep
            <4> HIDE DEF Good, runningT
            <4>3. Good(ResumeTools(i))
                BY <3>3, <3>4, <3>5, <4>1, <4>2
            <4> QED
                BY <3>1, <4>3
        <3>7. CASE Effect # "NON_IDEMPOTENT" /\ EndsIn(i, {"RUNNING"})
            <4>1. ResumeTools(i) = At("unconfirmTool", i, Unconfirmed, "replay")
                BY <3>2, <3>7 DEF ResumeTools
            <4> HIDE DEF Good, runningT
            <4> QED
                BY <1>4, <3>1, <3>3, <3>5, <3>7, <4>1
        <3>8. CASE Effect # "NON_IDEMPOTENT" /\ ~EndsIn(i, {"RUNNING"})
            <4>1. ResumeTools(i) = ToolEntry(i, Unconfirmed, FALSE)
                BY <3>2, <3>8 DEF ResumeTools
            <4>2. \/ ToolEntry(i, Unconfirmed, FALSE) = At("recordFailedStep", i, {}, "failRun")
                  \/ /\ ToolEntry(i, Unconfirmed, FALSE) = At("tool", i, Unconfirmed, "idle")
                     /\ steps[i].atts = <<>> \/ Len(steps[i].atts) < MaxAttempts
                BY <3>2, <3>8, ToolEntryGoes, RunningAttempts
            <4> HIDE DEF Good, runningT
            <4> QED
                BY <1>5, <1>6, <1>12, <1>13, <3>1, <3>2, <4>1, <4>2
        <3> QED
            BY <3>6, <3>7, <3>8
    <2> QED
        BY <2>1, <2>2
<1>14. Good(ResumePoint)
    <2> HIDE DEF Good
    <2>1. ResumePoint =
            IF LastOf(open) # 0
            THEN IF EndsIn(LastOf(open), {"RUNNING", "SUCCEEDED"})
                 THEN At("unconfirmModel", LastOf(open), {}, "idle")
                 ELSE ModelRecovery(LastOf(open))
            ELSE IF LastOf(StepsOf("MODEL")) # 0
                    /\ steps[LastOf(StepsOf("MODEL"))].status = "FAILED"
            THEN Goto("failRun")
            ELSE IF Checkpointed("MODEL") = {} THEN ModelEntry(LastOf(runningM))
            ELSE IF LastCalls = {} THEN Goto("succeed")
            ELSE IF Unconfirmed = {} THEN ModelEntry(0)
            ELSE ResumeTools(LastOf(runningT))
        BY DEF ResumePoint
    <2> HIDE DEF open, runningM, runningT
    <2> QED
        BY <1>3, <1>8, <1>9, <1>10, <1>11, <1>13, <2>1
<1> QED
    BY <1>14

------------------------------------------------------------------------------
(* What each write of the call that is let through does. *)

LEMMA FirstFacts ==
    ASSUME NEW todo \in SUBSET (Nat \X Nat), todo # {}
    PROVE  First(todo) \in todo /\ \A d \in todo : First(todo)[2] <= d[2]
<1> DEFINE T == {c[2] : c \in todo}
<1>1. T \in SUBSET Nat /\ T # {}
    OBVIOUS
<1>2. PICK k \in T : \A y \in T : k <= y
    BY <1>1, LeastNat
<1>3. PICK c \in todo : k = c[2]
    BY <1>2
<1>4. \A d \in todo : c[2] <= d[2]
    BY <1>2, <1>3
<1> QED
    BY <1>4 DEF First

\* Edits and additions that keep the journal's attempts in order.
LEMMA EditKeeps ==
    ASSUME IInv, UNCHANGED <<run, resolutions>>, run.status # "WAITING",
           NEW i \in DOMAIN steps, NEW s, NEW a \in Seq(AttemptStates), NEW o,
           Edited(i, s, a, o), Len(a) <= Cap + resolutions,
           s = "RUNNING" => (a = <<>> \/ a[Len(a)] # "SUCCEEDED")
    PROVE  AttemptsHonest' /\ StepBudget'
<1>1. run'.reason # "UNCERTAIN_NON_IDEMPOTENT"
    BY DEF IInv, Types, NoReason
<1>2. ASSUME NEW j \in DOMAIN steps'
      PROVE  /\ steps'[j].status = "RUNNING" => Unfinished(j)'
             /\ Len(steps'[j].atts) <= Cap + resolutions
    <2>1. CASE j = i
        BY <1>2, <2>1 DEF Edited, Unfinished, EndsIn, LastAttempt
    <2>2. CASE j # i
        BY <1>2, <2>2 DEF IInv, AttemptsHonest, StepBudget, Cap, Edited, Unfinished, EndsIn, LastAttempt
    <2> QED
        BY <2>1, <2>2
<1> QED
    BY <1>1, <1>2 DEF AttemptsHonest, StepBudget, Cap

LEMMA AppendKeeps ==
    ASSUME IInv, UNCHANGED <<run, resolutions>>, run.status # "WAITING",
           NEW t, NEW s, NEW c, NEW a, a \in {<<>>, <<"RUNNING">>}, Appended(t, s, c, a)
    PROVE  AttemptsHonest' /\ StepBudget'
<1>1. run'.reason # "UNCERTAIN_NON_IDEMPOTENT"
    BY DEF IInv, Types, NoReason
<1>2. PICK n : n = Len(steps) + 1
    OBVIOUS
<1>3. DOMAIN steps' = DOMAIN steps \cup {n} /\ n \notin DOMAIN steps /\ steps'[n].atts = a
      /\ \A j \in DOMAIN steps : steps'[j] = steps[j]
    BY <1>2 DEF Appended
<1>4. Len(a) <= Cap + resolutions
    <2>1. Len(a) <= 1
        <3>2. CASE a = <<>>
            BY <3>2
        <3>3. CASE a = <<"RUNNING">>
            BY <3>3
        <3> QED
            BY <3>2, <3>3
    <2> QED
        BY <2>1, CapFacts DEF IInv, Types
<1>5. ASSUME NEW j \in DOMAIN steps'
      PROVE  /\ steps'[j].status = "RUNNING" => Unfinished(j)'
             /\ Len(steps'[j].atts) <= Cap + resolutions
    <2>1. CASE j = n
        BY <1>3, <1>4, <1>5, <2>1 DEF Unfinished, EndsIn, LastAttempt
    <2>2. CASE j # n
        BY <1>3, <1>5, <2>2 DEF IInv, AttemptsHonest, StepBudget, Cap, Unfinished, EndsIn, LastAttempt
    <2> QED
        BY <2>1, <2>2
<1> QED
    BY <1>1, <1>5 DEF AttemptsHonest, StepBudget, Cap

\* What the call at hand may rely on.
LEMMA HolderKnows ==
    ASSUME IInv, NEW r \in Runners, Fenced(r)
    PROVE  /\ Types /\ loc[r] \in Locals /\ loc[r].step \in Nat
           /\ loc[r].todo \in SUBSET (Nat \X Nat) /\ loc[r].next \in Nexts
           /\ StatusAt(pc[r]) /\ BudgetAt(pc[r], loc[r].step, loc[r].next)
           /\ HandAt(pc[r], loc[r].step, loc[r].todo, loc[r].out)
<1>1. loc[r] \in Locals
    BY DEF IInv, Types
<1> QED
    BY <1>1, LocalFields DEF IInv, Duties, Duty

LEMMA ReserveDoes ==
    ASSUME IInv, NEW r \in Runners, ReserveModelAttempt(r)
    PROVE  /\ Fenced(r) /\ loc'[r].ver = loc[r].ver
           /\ \/ /\ loc[r].step = 0
                 /\ Appended("MODEL", "RUNNING", NoCall, <<"RUNNING">>)
                 /\ Moves(r, "dispatchModel", Len(steps) + 1, {}, "idle", NoOut)
              \/ /\ loc[r].step \in DOMAIN steps
                 /\ Edited(loc[r].step, "RUNNING", Append(steps[loc[r].step].atts, "RUNNING"),
                           steps[loc[r].step].out)
                 /\ Moves(r, "dispatchModel", loc[r].step, {}, "idle", NoOut)
              \/ /\ steps' = steps
                 /\ Moves(r, "recordFailedStep", loc[r].step, {}, "failRun", NoOut)
<1> DEFINE i == loc[r].step
<1>1. Fenced(r) /\ pc[r] = "model"
    BY DEF ReserveModelAttempt
<1>2. Types /\ i \in Nat /\ (i = 0 \/ i \in DOMAIN steps)
    BY <1>1, HolderKnows DEF BudgetAt, Room
<1>3. CASE i = 0 /\ steps' # steps
    <2>1. /\ steps' = Append(steps, [type |-> "MODEL", status |-> "RUNNING", call |-> NoCall,
                                     atts |-> <<"RUNNING">>, out |-> NoOut])
          /\ Continue(r, At("dispatchModel", Len(steps) + 1, {}, "idle"))
        BY <1>3 DEF ReserveModelAttempt
    <2>2. NoCall \in Nat \X Nat /\ <<"RUNNING">> \in Seq(AttemptStates)
        BY DEF NoCall, AttemptStates
    <2>3. Appended("MODEL", "RUNNING", NoCall, <<"RUNNING">>)
        BY <1>2, <2>1, <2>2, StepAppended DEF Types, Statuses
    <2>4. PICK n : n = Len(steps) + 1
        OBVIOUS
    <2>5. n \in Nat
        BY <2>3, <2>4 DEF Appended
    <2>6. Moves(r, "dispatchModel", n, {}, "idle", NoOut) /\ loc'[r].ver = loc[r].ver
        <3>1. Place(At("dispatchModel", n, {}, "idle"))
            BY <2>5, AtFields DEF PCs, Nexts
        <3> QED
            BY <1>2, <2>1, <2>4, <3>1, AtFields, Continued DEF Types
    <2> QED
        BY <1>1, <1>3, <2>3, <2>4, <2>6
<1>4. CASE i # 0 /\ steps' # steps
    <2>1. /\ steps' = [steps EXCEPT ![i].status = "RUNNING", ![i].atts = Append(@, "RUNNING")]
          /\ Continue(r, At("dispatchModel", i, {}, "idle"))
        BY <1>4 DEF ReserveModelAttempt
    <2>2. Edited(i, "RUNNING", Append(steps[i].atts, "RUNNING"), steps[i].out)
        BY <1>2, <1>4, <2>1, AttemptReserved DEF Types
    <2>3. Moves(r, "dispatchModel", i, {}, "idle", NoOut) /\ loc'[r].ver = loc[r].ver
        <3>1. Place(At("dispatchModel", i, {}, "idle"))
            BY <1>2, AtFields DEF PCs, Nexts
        <3> QED
            BY <1>2, <2>1, <3>1, AtFields, Continued DEF Types
    <2> QED
        BY <1>1, <1>2, <1>4, <2>2, <2>3
<1>5. ASSUME Continue(r, FailStep(i, "failRun")), steps' = steps
      PROVE  Moves(r, "recordFailedStep", i, {}, "failRun", NoOut) /\ loc'[r].ver = loc[r].ver
    <2>1. Place(At("recordFailedStep", i, {}, "failRun"))
        BY <1>2, AtFields DEF PCs, Nexts
    <2> QED
        BY <1>2, <1>5, <2>1, AtFields, Continued DEF Types, FailStep
<1>6. ASSUME ~(Continue(r, FailStep(i, "failRun")) /\ steps' = steps)
      PROVE  steps' # steps
    <2>1. CASE i = 0
        <3>1. steps' = Append(steps, [type |-> "MODEL", status |-> "RUNNING", call |-> NoCall,
                                     atts |-> <<"RUNNING">>, out |-> NoOut])
            BY <1>6, <2>1 DEF ReserveModelAttempt
        <3> QED
            BY <1>2, <3>1 DEF Types
    <2>2. CASE i # 0
        <3>1. steps' = [steps EXCEPT ![i].status = "RUNNING", ![i].atts = Append(@, "RUNNING")]
            BY <1>6, <2>2 DEF ReserveModelAttempt
        <3>2. Edited(i, "RUNNING", Append(steps[i].atts, "RUNNING"), steps[i].out)
            BY <1>2, <2>2, <3>1, AttemptReserved DEF Types
        <3>3. steps'[i].atts = Append(steps[i].atts, "RUNNING")
            BY <3>2 DEF Edited
        <3>4. steps[i].atts \in Seq(AttemptStates)
            BY <1>2, <2>2, AttemptFacts
        <3> QED
            BY <3>3, <3>4
    <2> QED
        BY <2>1, <2>2
<1> QED
    BY <1>1, <1>3, <1>4, <1>5, <1>6

\* A write of one attempt by SetAttempt.
LEMMA AttemptWritten ==
    ASSUME Types, NEW i \in DOMAIN steps, NEW s \in AttemptStates,
           steps' = [steps EXCEPT ![i].atts = SetAttempt(@, s)]
    PROVE  Edited(i, steps[i].status, SetAttempt(steps[i].atts, s), steps[i].out)
<1>1. steps[i].atts \in Seq(AttemptStates)
    BY AttemptFacts
<1>2. PICK a : a = SetAttempt(steps[i].atts, s)
    OBVIOUS
<1>3. a \in Seq(AttemptStates)
    BY <1>1, <1>2, AttemptSet
<1>4. steps' = [steps EXCEPT ![i].atts = a]
    BY <1>2
<1> QED
    BY <1>2, <1>3, <1>4, AttsSet DEF Types

LEMMA ModelReturnsDoes ==
    ASSUME IInv, NEW r \in Runners, NEW n \in 0..MaxCalls, ModelReturns(r, n)
    PROVE  /\ Fenced(r) /\ loc'[r].ver = loc[r].ver /\ loc[r].step \in DOMAIN steps
           /\ Edited(loc[r].step, "SUCCEEDED", steps[loc[r].step].atts, steps[loc[r].step].out)
           /\ Moves(r, "recordModelAttempt", loc[r].step, loc[r].todo, loc[r].next, n)
<1>1. Fenced(r) /\ pc[r] = "modelInFlight"
    BY DEF ModelReturns
<1>2. Types /\ loc[r].step \in DOMAIN steps
    BY <1>1, HolderKnows DEF BudgetAt, InFlight
<1>3. Edited(loc[r].step, "SUCCEEDED", steps[loc[r].step].atts, steps[loc[r].step].out)
    BY <1>2, StatusSet DEF Types, Statuses, ModelReturns
<1>4. n \in Int /\ "recordModelAttempt" \in PCs
    BY BoundsAssumption DEF PCs
<1> QED
    BY <1>1, <1>2, <1>3, <1>4, MovedWithResponse DEF Types, ModelReturns

LEMMA RecordModelAttemptDoes ==
    ASSUME IInv, NEW r \in Runners, RecordModelAttempt(r)
    PROVE  /\ Fenced(r) /\ loc'[r].ver = loc[r].ver /\ loc[r].step \in DOMAIN steps
           /\ Edited(loc[r].step, steps[loc[r].step].status,
                     SetAttempt(steps[loc[r].step].atts, "SUCCEEDED"), steps[loc[r].step].out)
           /\ Moves(r, "checkpointModel", loc[r].step, loc[r].todo, loc[r].next, loc[r].out)
<1>1. Fenced(r) /\ pc[r] = "recordModelAttempt"
    BY DEF RecordModelAttempt
<1>2. Types /\ loc[r].step \in DOMAIN steps
    BY <1>1, HolderKnows DEF BudgetAt, InFlight
<1>3. "SUCCEEDED" \in AttemptStates /\ "checkpointModel" \in PCs
    BY DEF AttemptStates, PCs
<1> QED
    BY <1>1, <1>2, <1>3, AttemptWritten, Moved DEF Types, RecordModelAttempt

LEMMA CheckpointModelDoes ==
    ASSUME IInv, NEW r \in Runners, CheckpointModel(r)
    PROVE  /\ Fenced(r) /\ loc'[r].ver = loc[r].ver /\ loc[r].step \in DOMAIN steps
           /\ loc[r].out \in 0..MaxCalls
           /\ Cardinality(Checkpointed("MODEL")) \in Nat
           /\ Edited(loc[r].step, steps[loc[r].step].status, steps[loc[r].step].atts, loc[r].out)
           /\ \/ Moves(r, "cancelRun", 0, {}, "idle", NoOut)
              \/ ~cancel[r] /\ Moves(r, "succeed", 0, {}, "idle", NoOut)
              \/ /\ loc[r].out # 0
                 /\ Moves(r, "tool", 0, {<<Cardinality(Checkpointed("MODEL")) + 1, k>> :
                                            k \in 1..loc[r].out}, "idle", NoOut)
<1>1. Fenced(r) /\ pc[r] = "checkpointModel"
    BY DEF CheckpointModel
<1>2. Types /\ loc[r].step \in DOMAIN steps /\ loc[r].out \in 0..MaxCalls
    BY <1>1, HolderKnows DEF BudgetAt, HandAt
<1>3. PICK n : n = loc[r].out
    OBVIOUS
<1>4. n \in Int /\ \A k \in 1..n : k \in Nat
    BY <1>2, <1>3, BoundsAssumption
<1>5. Edited(loc[r].step, steps[loc[r].step].status, steps[loc[r].step].atts, n)
    BY <1>2, <1>3, <1>4, OutSet DEF Types, CheckpointModel
<1>6. Cardinality(Checkpointed("MODEL")) \in Nat
    <2>1. Checkpointed("MODEL") \in SUBSET (1..Len(steps)) /\ Len(steps) \in Nat
        BY <1>2 DEF Checkpointed, StepsOf, Types
    <2>2. IsFiniteSet(1..Len(steps))
        BY <2>1, FS_Interval
    <2> QED
        BY <2>1, <2>2, FS_Subset, FS_CardinalityType
<1>7. PICK m : m = Cardinality(Checkpointed("MODEL")) + 1
    OBVIOUS
<1>8. m \in Nat
    BY <1>6, <1>7
<1>9. PICK t : t = {<<m, k>> : k \in 1..n}
    OBVIOUS
<1>10. t \in SUBSET (Nat \X Nat)
    BY <1>4, <1>8, <1>9
<1>11. ASSUME NEW p \in {"cancelRun", "succeed"}, Continue(r, Goto(p))
       PROVE  Moves(r, p, 0, {}, "idle", NoOut) /\ loc'[r].ver = loc[r].ver
    <2>1. Place(At(p, 0, {}, "idle"))
        BY AtFields DEF PCs, Nexts
    <2> QED
        BY <1>2, <1>11, <2>1, AtFields, Continued DEF Types, Goto
<1>12. ASSUME Continue(r, At("tool", 0, t, "idle"))
       PROVE  Moves(r, "tool", 0, t, "idle", NoOut) /\ loc'[r].ver = loc[r].ver
    <2>1. Place(At("tool", 0, t, "idle"))
        BY <1>10, AtFields DEF PCs, Nexts
    <2> QED
        BY <1>2, <1>12, <2>1, AtFields, Continued DEF Types
<1>13. Continue(r, IF cancel[r] THEN Goto("cancelRun") ELSE IF n = 0 THEN Goto("succeed")
                   ELSE At("tool", 0, t, "idle"))
    BY <1>3, <1>7, <1>9 DEF CheckpointModel
<1>14. \/ Continue(r, Goto("cancelRun"))
       \/ ~cancel[r] /\ Continue(r, Goto("succeed"))
       \/ n # 0 /\ Continue(r, At("tool", 0, t, "idle"))
    <2>1. CASE cancel[r]
        BY <1>13, <2>1
    <2>2. CASE ~cancel[r] /\ n = 0
        BY <1>13, <2>2
    <2>3. CASE ~cancel[r] /\ n # 0
        BY <1>13, <2>3
    <2> QED
        BY <2>1, <2>2, <2>3
<1> QED
    BY <1>1, <1>2, <1>3, <1>5, <1>6, <1>7, <1>9, <1>11, <1>12, <1>14

LEMMA ModelFailsDoes ==
    ASSUME IInv, NEW r \in Runners, NEW f \in {"TRANSIENT", "PERMANENT"}, ModelFails(r, f)
    PROVE  /\ Fenced(r) /\ loc'[r].ver = loc[r].ver /\ InFlight(loc[r].step)
           /\ pc[r] \in {"modelInFlight", "dispatchModel"}
           /\ Edited(loc[r].step, steps[loc[r].step].status,
                     SetAttempt(steps[loc[r].step].atts, f), steps[loc[r].step].out)
           /\ \/ Moves(r, "recordFailedStep", loc[r].step, {}, "cancelRun", NoOut)
              \/ Moves(r, "recordFailedStep", loc[r].step, {}, "failRun", NoOut)
              \/ /\ Len(steps[loc[r].step].atts) < MaxAttempts
                 /\ Moves(r, "model", loc[r].step, {}, "idle", NoOut)
<1> DEFINE i == loc[r].step
<1>1. Fenced(r) /\ pc[r] \in {"modelInFlight", "dispatchModel"}
    BY DEF ModelFails
<1>2. Types /\ i \in Nat /\ InFlight(i) /\ i \in DOMAIN steps
    BY <1>1, HolderKnows DEF BudgetAt, InFlight
<1>3. f \in AttemptStates
    BY DEF AttemptStates, FailedAttempts
<1>4. Edited(i, steps[i].status, SetAttempt(steps[i].atts, f), steps[i].out)
    BY <1>2, <1>3, AttemptWritten DEF ModelFails
<1>5. ASSUME NEW n \in {"cancelRun", "failRun"}, Continue(r, FailStep(i, n))
      PROVE  Moves(r, "recordFailedStep", i, {}, n, NoOut) /\ loc'[r].ver = loc[r].ver
    <2>1. Place(At("recordFailedStep", i, {}, n))
        BY <1>2, AtFields DEF PCs, Nexts
    <2> QED
        BY <1>2, <1>5, <2>1, AtFields, Continued DEF Types, FailStep
<1>6. ASSUME Continue(r, At("model", i, {}, "idle"))
      PROVE  Moves(r, "model", i, {}, "idle", NoOut) /\ loc'[r].ver = loc[r].ver
    <2>1. Place(At("model", i, {}, "idle"))
        BY <1>2, AtFields DEF PCs, Nexts
    <2> QED
        BY <1>2, <1>6, <2>1, AtFields, Continued DEF Types
<1>7. \/ Continue(r, FailStep(i, "cancelRun")) \/ Continue(r, FailStep(i, "failRun"))
      \/ Len(steps[i].atts) < MaxAttempts /\ Continue(r, At("model", i, {}, "idle"))
    <2>1. CASE cancel[r]
        BY <2>1 DEF ModelFails
    <2>2. CASE ~cancel[r] /\ ShouldRetry(f, Len(steps[i].atts))
        BY <2>2 DEF ModelFails, ShouldRetry
    <2>3. CASE ~cancel[r] /\ ~ShouldRetry(f, Len(steps[i].atts))
        BY <2>3 DEF ModelFails
    <2> QED
        BY <2>1, <2>2, <2>3
<1> QED
    BY <1>1, <1>2, <1>4, <1>5, <1>6, <1>7

\* The newest attempt gets another state.
LEMMA AttemptReplaced ==
    ASSUME NEW a \in Seq(AttemptStates), a # <<>>, NEW s \in AttemptStates, NEW b,
           b = [a EXCEPT ![Len(a)] = s]
    PROVE  /\ b \in Seq(AttemptStates) /\ b # <<>> /\ Len(b) = Len(a) /\ b[Len(b)] = s
           /\ DOMAIN b = DOMAIN a /\ \A j \in DOMAIN a : j # Len(a) => b[j] = a[j]
<1>1. Len(a) \in 1..Len(a)
    OBVIOUS
<1> QED
    BY <1>1

LEMMA UnconfirmModelDoes ==
    ASSUME IInv, NEW r \in Runners, UnconfirmModel(r)
    PROVE  /\ Fenced(r) /\ loc'[r].ver = loc[r].ver /\ loc[r].step \in DOMAIN steps
           /\ steps[loc[r].step].atts # <<>>
           /\ Edited(loc[r].step, steps[loc[r].step].status,
                     [steps[loc[r].step].atts EXCEPT ![Len(steps[loc[r].step].atts)] = "UNCONFIRMED"],
                     steps[loc[r].step].out)
           /\ \/ Moves(r, "recordFailedStep", loc[r].step, {}, "failRun", NoOut)
              \/ /\ Len(steps[loc[r].step].atts) < MaxAttempts
                 /\ Moves(r, "model", loc[r].step, {}, "idle", NoOut)
<1> DEFINE i == loc[r].step
<1>1. Fenced(r) /\ pc[r] = "unconfirmModel"
    BY DEF UnconfirmModel
<1>2. Types /\ i \in Nat /\ i \in DOMAIN steps /\ steps[i].atts # <<>>
    BY <1>1, HolderKnows DEF BudgetAt
<1>3. PICK a : a = [steps[i].atts EXCEPT ![Len(steps[i].atts)] = "UNCONFIRMED"]
    OBVIOUS
<1>4. a \in Seq(AttemptStates)
    <2>1. steps[i].atts \in Seq(AttemptStates) /\ "UNCONFIRMED" \in AttemptStates
        BY <1>2, AttemptFacts DEF AttemptStates, FailedAttempts
    <2>2. PICK b \in Seq(AttemptStates) : b = steps[i].atts
        BY <2>1
    <2>3. a = [b EXCEPT ![Len(b)] = "UNCONFIRMED"]
        BY <1>3, <2>2
    <2> QED
        BY <1>2, <2>1, <2>2, <2>3, AttemptReplaced
<1>5. Edited(i, steps[i].status, a, steps[i].out)
    <2>1. steps' = [steps EXCEPT ![i].atts = a]
        BY <1>3 DEF UnconfirmModel
    <2> QED
        BY <1>2, <1>4, <2>1, AttsSet DEF Types
<1>6. /\ Place(At("recordFailedStep", i, {}, "failRun"))
      /\ Place(At("model", i, {}, "idle"))
    BY <1>2, AtFields DEF PCs, Nexts
<1>7. Continue(r, ModelRecovery(i))
    BY DEF UnconfirmModel
<1>8. /\ loc'[r].ver = loc[r].ver
      /\ \/ Moves(r, "recordFailedStep", i, {}, "failRun", NoOut)
         \/ Len(steps[i].atts) < MaxAttempts /\ Moves(r, "model", i, {}, "idle", NoOut)
    <2>1. CASE ModelRecovery(i) = At("recordFailedStep", i, {}, "failRun")
        BY <1>2, <1>6, <1>7, <2>1, AtFields, Continued DEF Types
    <2>2. CASE ModelRecovery(i) = At("model", i, {}, "idle") /\ Len(steps[i].atts) < MaxAttempts
        BY <1>2, <1>6, <1>7, <2>2, AtFields, Continued DEF Types
    <2> QED
        BY <2>1, <2>2, ModelRecoveryGoes
<1> QED
    BY <1>1, <1>2, <1>3, <1>5, <1>8

LEMMA BeginToolStepDoes ==
    ASSUME IInv, NEW r \in Runners, BeginToolStep(r)
    PROVE  /\ Fenced(r) /\ loc'[r].ver = loc[r].ver
           /\ \/ /\ loc[r].step = 0
                 /\ First(loc[r].todo) \in loc[r].todo /\ First(loc[r].todo) \in Nat \X Nat
                 /\ Appended("TOOL", "RUNNING", First(loc[r].todo), <<>>)
                 /\ Moves(r, "beginAttempt", Len(steps) + 1, loc[r].todo, "idle", NoOut)
              \/ /\ loc[r].step \in DOMAIN steps /\ Room(loc[r].step) /\ Unfinished(loc[r].step)
                 /\ Edited(loc[r].step, "RUNNING", steps[loc[r].step].atts,
                           steps[loc[r].step].out)
                 /\ Moves(r, "beginAttempt", loc[r].step, loc[r].todo, "idle", NoOut)
<1> DEFINE i == loc[r].step
<1>1. Fenced(r) /\ pc[r] = "tool"
    BY DEF BeginToolStep
<1>2. /\ Types /\ i \in Nat /\ loc[r].todo \in SUBSET (Nat \X Nat)
      /\ (i = 0 /\ loc[r].todo # {}) \/ (i # 0 /\ i \in DOMAIN steps /\ Room(i) /\ Unfinished(i))
    BY <1>1, HolderKnows DEF BudgetAt, HandAt, Room
<1>3. CASE i = 0
    <2>1. PICK c : c = First(loc[r].todo)
        OBVIOUS
    <2>2. c \in loc[r].todo /\ c \in Nat \X Nat
        BY <1>2, <1>3, <2>1, FirstFacts
    <2>3. /\ steps' = Append(steps, [type |-> "TOOL", status |-> "RUNNING", call |-> c,
                                     atts |-> <<>>, out |-> NoOut])
          /\ Continue(r, At("beginAttempt", Len(steps) + 1, loc[r].todo, "idle"))
        BY <1>3, <2>1 DEF BeginToolStep
    <2>4. Appended("TOOL", "RUNNING", c, <<>>)
        <3>1. <<>> \in Seq(AttemptStates)
            OBVIOUS
        <3> QED
            BY <1>2, <2>2, <2>3, <3>1, StepAppended DEF Types, Statuses
    <2>5. PICK n : n = Len(steps) + 1
        OBVIOUS
    <2>6. n \in Nat
        BY <2>4, <2>5 DEF Appended
    <2>7. Moves(r, "beginAttempt", n, loc[r].todo, "idle", NoOut) /\ loc'[r].ver = loc[r].ver
        <3>1. PICK todo : todo = loc[r].todo
            OBVIOUS
        <3>2. /\ pc \in [Runners -> PCs] /\ loc \in [Runners -> Locals]
              /\ todo \in SUBSET (Nat \X Nat) /\ "beginAttempt" \in PCs /\ "idle" \in Nexts
            BY <1>2, <3>1 DEF Types, PCs, Nexts
        <3>3. Continue(r, At("beginAttempt", n, todo, "idle"))
            BY <2>3, <2>5, <3>1
        <3>4. Moves(r, "beginAttempt", n, todo, "idle", NoOut) /\ loc'[r].ver = loc[r].ver
            BY <2>6, <3>2, <3>3, ContinuedAt
        <3> QED
            BY <3>1, <3>4
    <2> QED
        BY <1>1, <1>3, <2>1, <2>2, <2>4, <2>5, <2>7
<1>4. CASE i # 0
    <2>1. /\ steps' = [steps EXCEPT ![i].status = "RUNNING"]
          /\ Continue(r, At("beginAttempt", i, loc[r].todo, "idle"))
        BY <1>4 DEF BeginToolStep
    <2>2. Edited(i, "RUNNING", steps[i].atts, steps[i].out)
        BY <1>2, <1>4, <2>1, StatusSet DEF Types, Statuses
    <2>3. Moves(r, "beginAttempt", i, loc[r].todo, "idle", NoOut) /\ loc'[r].ver = loc[r].ver
        <3>1. Place(At("beginAttempt", i, loc[r].todo, "idle"))
            BY <1>2, AtFields DEF PCs, Nexts
        <3> QED
            BY <1>2, <2>1, <3>1, AtFields, Continued DEF Types
    <2> QED
        BY <1>1, <1>2, <1>4, <2>2, <2>3
<1> QED
    BY <1>3, <1>4

LEMMA BeginToolAttemptDoes ==
    ASSUME IInv, NEW r \in Runners, BeginToolAttempt(r)
    PROVE  /\ Fenced(r) /\ loc'[r].ver = loc[r].ver
           /\ Room(loc[r].step) /\ loc[r].step \in DOMAIN steps
           /\ Edited(loc[r].step, steps[loc[r].step].status,
                     Append(steps[loc[r].step].atts, "RUNNING"), steps[loc[r].step].out)
           /\ Moves(r, "dispatchTool", loc[r].step, loc[r].todo, loc[r].next, loc[r].out)
<1>1. Fenced(r) /\ pc[r] = "beginAttempt"
    BY DEF BeginToolAttempt
<1>2. Types /\ Room(loc[r].step) /\ loc[r].step \in DOMAIN steps
    BY <1>1, HolderKnows DEF BudgetAt, Room
<1>3. "dispatchTool" \in PCs
    BY DEF PCs
<1>4. PICK a : a = Append(steps[loc[r].step].atts, "RUNNING")
    OBVIOUS
<1>5. a \in Seq(AttemptStates)
    BY <1>2, <1>4, AttemptFacts DEF AttemptStates
<1>6. steps' = [steps EXCEPT ![loc[r].step].atts = a]
    BY <1>4 DEF BeginToolAttempt
<1> QED
    BY <1>1, <1>2, <1>3, <1>4, <1>5, <1>6, AttsSet, Moved DEF Types, BeginToolAttempt

LEMMA InvokeToolDoes ==
    ASSUME IInv, NEW r \in Runners, NEW happens \in BOOLEAN, InvokeTool(r, happens)
    PROVE  /\ Fenced(r) /\ loc'[r].ver = loc[r].ver /\ InFlight(loc[r].step)
           /\ \E p \in {"toolActed", "toolIdle"} :
                /\ happens <=> p = "toolActed"
                /\ Moves(r, p, loc[r].step, loc[r].todo, loc[r].next, loc[r].out)
<1>1. Fenced(r) /\ pc[r] = "dispatchTool"
    BY DEF InvokeTool
<1>2. Types /\ InFlight(loc[r].step)
    BY <1>1, HolderKnows DEF BudgetAt
<1>3. PICK p : p = IF happens THEN "toolActed" ELSE "toolIdle"
    OBVIOUS
<1>4. p \in {"toolActed", "toolIdle"} /\ p \in PCs /\ (happens <=> p = "toolActed")
    BY <1>3 DEF PCs
<1>5. pc' = [pc EXCEPT ![r] = p] /\ loc' = loc
    BY <1>3 DEF InvokeTool
<1>6. Moves(r, p, loc[r].step, loc[r].todo, loc[r].next, loc[r].out) /\ loc'[r].ver = loc[r].ver
    BY <1>2, <1>4, <1>5, Moved DEF Types
<1> QED
    BY <1>1, <1>2, <1>4, <1>6

LEMMA ToolReturnsDoes ==
    ASSUME IInv, NEW r \in Runners, ToolReturns(r)
    PROVE  /\ Fenced(r) /\ loc'[r].ver = loc[r].ver /\ loc[r].step \in DOMAIN steps
           /\ InFlight(loc[r].step) \/ Room(loc[r].step)
           /\ Edited(loc[r].step, "SUCCEEDED", steps[loc[r].step].atts, steps[loc[r].step].out)
           /\ Moves(r, "recordToolAttempt", loc[r].step, loc[r].todo, loc[r].next, loc[r].out)
<1>1. Fenced(r) /\ pc[r] \in {"toolActed", "confirm"}
    BY DEF ToolReturns
<1>2. /\ Types /\ loc[r].step \in DOMAIN steps
      /\ InFlight(loc[r].step) \/ Room(loc[r].step)
    BY <1>1, HolderKnows DEF BudgetAt, InFlight, Room
<1>3. "recordToolAttempt" \in PCs
    BY DEF PCs
<1> QED
    BY <1>1, <1>2, <1>3, StatusSet, Moved DEF Types, Statuses, ToolReturns

LEMMA RecordToolAttemptDoes ==
    ASSUME IInv, NEW r \in Runners, RecordToolAttempt(r)
    PROVE  /\ Fenced(r) /\ loc'[r].ver = loc[r].ver /\ loc[r].step \in DOMAIN steps
           /\ InFlight(loc[r].step) \/ Room(loc[r].step)
           /\ steps[loc[r].step].status = "SUCCEEDED"
           /\ Edited(loc[r].step, "SUCCEEDED",
                     SetAttempt(steps[loc[r].step].atts, "SUCCEEDED"), steps[loc[r].step].out)
           /\ Moves(r, "checkpointTool", loc[r].step, loc[r].todo, loc[r].next, loc[r].out)
<1>1. Fenced(r) /\ pc[r] = "recordToolAttempt"
    BY DEF RecordToolAttempt
<1>2. /\ Types /\ loc[r].step \in DOMAIN steps /\ steps[loc[r].step].status = "SUCCEEDED"
      /\ InFlight(loc[r].step) \/ Room(loc[r].step)
    BY <1>1, HolderKnows DEF BudgetAt, InFlight, Room
<1>3. "SUCCEEDED" \in AttemptStates /\ "checkpointTool" \in PCs
    BY DEF AttemptStates, PCs
<1>4. Edited(loc[r].step, "SUCCEEDED", SetAttempt(steps[loc[r].step].atts, "SUCCEEDED"),
             steps[loc[r].step].out)
    BY <1>2, <1>3, AttemptWritten DEF RecordToolAttempt
<1> QED
    BY <1>1, <1>2, <1>3, <1>4, Moved DEF Types, RecordToolAttempt

LEMMA CheckpointToolDoes ==
    ASSUME IInv, NEW r \in Runners, CheckpointTool(r)
    PROVE  /\ Fenced(r) /\ loc'[r].ver = loc[r].ver /\ loc[r].step \in DOMAIN steps
           /\ Edited(loc[r].step, steps[loc[r].step].status, steps[loc[r].step].atts, 0)
           /\ \/ /\ loc[r].todo \ {First(loc[r].todo)} = {}
                 /\ Moves(r, "model", 0, {}, "idle", NoOut)
              \/ /\ loc[r].todo \ {First(loc[r].todo)} # {}
                 /\ Moves(r, "tool", 0, loc[r].todo \ {First(loc[r].todo)}, "idle", NoOut)
<1>1. Fenced(r) /\ pc[r] = "checkpointTool"
    BY DEF CheckpointTool
<1>2. /\ Types /\ loc[r].step \in DOMAIN steps /\ loc[r].todo \in SUBSET (Nat \X Nat)
    BY <1>1, HolderKnows DEF BudgetAt
<1>3. Edited(loc[r].step, steps[loc[r].step].status, steps[loc[r].step].atts, 0)
    <2>1. PICK o \in Int : o = 0
        OBVIOUS
    <2>2. steps' = [steps EXCEPT ![loc[r].step].out = o]
        BY <2>1 DEF CheckpointTool
    <2>3. Edited(loc[r].step, steps[loc[r].step].status, steps[loc[r].step].atts, o)
        BY <1>2, <2>2, OutSet DEF Types
    <2> QED
        BY <2>1, <2>3
<1>4. PICK rest \in SUBSET (Nat \X Nat) : rest = loc[r].todo \ {First(loc[r].todo)}
    BY <1>2
<1>5. Place(At("model", 0, {}, "idle")) /\ Place(At("tool", 0, rest, "idle"))
    BY AtFields DEF PCs, Nexts
<1>6. Continue(r, IF rest = {} THEN ModelEntry(0) ELSE ToolEntry(0, rest, FALSE))
    BY <1>4 DEF CheckpointTool
<1>7. CASE rest = {}
    <2>1. Continue(r, At("model", 0, {}, "idle"))
        BY <1>6, <1>7, ModelEntryGoes
    <2>2. Moves(r, "model", 0, {}, "idle", NoOut) /\ loc'[r].ver = loc[r].ver
        BY <1>2, <1>5, <2>1, AtFields, Continued DEF Types
    <2> QED
        BY <1>1, <1>2, <1>3, <1>4, <1>7, <2>2
<1>8. CASE rest # {}
    <2>1. Continue(r, At("tool", 0, rest, "idle"))
        BY <1>6, <1>8, ToolEntryGoes
    <2>2. Moves(r, "tool", 0, rest, "idle", NoOut) /\ loc'[r].ver = loc[r].ver
        BY <1>2, <1>5, <2>1, AtFields, Continued DEF Types
    <2> QED
        BY <1>1, <1>2, <1>3, <1>4, <1>8, <2>2
<1> QED
    BY <1>7, <1>8

LEMMA ToolFailsDoes ==
    ASSUME IInv, NEW r \in Runners, NEW f \in {"TRANSIENT", "PERMANENT", "UNCERTAIN"},
           ToolFails(r, f)
    PROVE  /\ Fenced(r) /\ loc'[r].ver = loc[r].ver /\ InFlight(loc[r].step)
           /\ pc[r] = "toolIdle" \/ (pc[r] = "toolActed" /\ f # "TRANSIENT")
           /\ Edited(loc[r].step, steps[loc[r].step].status,
                     SetAttempt(steps[loc[r].step].atts, f), steps[loc[r].step].out)
           /\ \/ Moves(r, "recordFailedStep", loc[r].step, {}, "enterWaiting", NoOut)
              \/ /\ f # "UNCERTAIN" \/ Effect # "NON_IDEMPOTENT"
                 /\ \E n \in {"failRun", "cancelRun"} :
                        Moves(r, "recordFailedStep", loc[r].step, {}, n, NoOut)
              \/ /\ f = "TRANSIENT"
                 /\ Len(steps[loc[r].step].atts) < MaxAttempts
                 /\ Moves(r, "tool", loc[r].step, loc[r].todo, "idle", NoOut)
<1> DEFINE i == loc[r].step
<1>1. /\ Fenced(r)
      /\ pc[r] = "toolIdle" \/ (pc[r] = "toolActed" /\ f # "TRANSIENT")
    BY DEF ToolFails
<1>2. /\ Types /\ i \in Nat /\ InFlight(i) /\ i \in DOMAIN steps
      /\ loc[r].todo \in SUBSET (Nat \X Nat)
    BY <1>1, HolderKnows DEF BudgetAt, InFlight
<1>3. f \in AttemptStates
    BY DEF AttemptStates, FailedAttempts
<1>4. Edited(i, steps[i].status, SetAttempt(steps[i].atts, f), steps[i].out)
    BY <1>2, <1>3, AttemptWritten DEF ToolFails
<1>5. ASSUME NEW n \in {"cancelRun", "failRun", "enterWaiting"}, Continue(r, FailStep(i, n))
      PROVE  Moves(r, "recordFailedStep", i, {}, n, NoOut) /\ loc'[r].ver = loc[r].ver
    <2>1. Place(At("recordFailedStep", i, {}, n))
        BY <1>2, AtFields DEF PCs, Nexts
    <2> QED
        BY <1>2, <1>5, <2>1, AtFields, Continued DEF Types, FailStep
<1>6. ASSUME Continue(r, At("tool", i, loc[r].todo, "idle"))
      PROVE  Moves(r, "tool", i, loc[r].todo, "idle", NoOut) /\ loc'[r].ver = loc[r].ver
    <2>1. Place(At("tool", i, loc[r].todo, "idle"))
        BY <1>2, AtFields DEF PCs, Nexts
    <2> QED
        BY <1>2, <1>6, <2>1, AtFields, Continued DEF Types
<1>7. \/ Continue(r, FailStep(i, "enterWaiting"))
      \/ /\ f # "UNCERTAIN" \/ Effect # "NON_IDEMPOTENT"
         /\ Continue(r, FailStep(i, "cancelRun")) \/ Continue(r, FailStep(i, "failRun"))
      \/ /\ f = "TRANSIENT" /\ Len(steps[i].atts) < MaxAttempts
         /\ Continue(r, At("tool", i, loc[r].todo, "idle"))
    <2>1. CASE f = "UNCERTAIN" /\ Effect = "NON_IDEMPOTENT"
        BY <2>1 DEF ToolFails
    <2>2. CASE (f # "UNCERTAIN" \/ Effect # "NON_IDEMPOTENT") /\ cancel[r]
        BY <2>2 DEF ToolFails
    <2>3. CASE /\ f # "UNCERTAIN" \/ Effect # "NON_IDEMPOTENT"
               /\ ~cancel[r] /\ ShouldRetry(f, Len(steps[i].atts))
        BY <2>3 DEF ToolFails, ShouldRetry
    <2>4. CASE /\ f # "UNCERTAIN" \/ Effect # "NON_IDEMPOTENT"
               /\ ~cancel[r] /\ ~ShouldRetry(f, Len(steps[i].atts))
        BY <2>4 DEF ToolFails
    <2> QED
        BY <2>1, <2>2, <2>3, <2>4
<1> QED
    BY <1>1, <1>2, <1>4, <1>5, <1>6, <1>7

LEMMA UnconfirmToolDoes ==
    ASSUME IInv, NEW r \in Runners, UnconfirmTool(r)
    PROVE  /\ Fenced(r) /\ loc'[r].ver = loc[r].ver /\ loc[r].step \in DOMAIN steps
           /\ InFlight(loc[r].step) \/ steps[loc[r].step].atts = <<>>
           /\ loc[r].next \in {"enterWaiting", "replay"}
           /\ Edited(loc[r].step, steps[loc[r].step].status,
                     SetAttempt(steps[loc[r].step].atts, "UNCERTAIN"), steps[loc[r].step].out)
           /\ Moves(r, "recordFailedStep", loc[r].step, loc[r].todo, loc[r].next, loc[r].out)
<1>1. Fenced(r) /\ pc[r] = "unconfirmTool"
    BY DEF UnconfirmTool
<1>2. /\ Types /\ loc[r].step \in DOMAIN steps /\ loc[r].next \in {"enterWaiting", "replay"}
      /\ InFlight(loc[r].step) \/ steps[loc[r].step].atts = <<>>
    BY <1>1, HolderKnows DEF BudgetAt, InFlight
<1>3. "UNCERTAIN" \in AttemptStates /\ "recordFailedStep" \in PCs
    BY DEF AttemptStates, FailedAttempts, PCs
<1>4. Edited(loc[r].step, steps[loc[r].step].status,
             SetAttempt(steps[loc[r].step].atts, "UNCERTAIN"), steps[loc[r].step].out)
    BY <1>2, <1>3, AttemptWritten DEF UnconfirmTool
<1> QED
    BY <1>1, <1>2, <1>3, <1>4, Moved DEF Types, UnconfirmTool

LEMMA RecordFailedStepDoes ==
    ASSUME IInv, NEW r \in Runners, RecordFailedStep(r)
    PROVE  /\ Fenced(r) /\ loc'[r].ver = loc[r].ver
           /\ \/ /\ loc[r].step = 0 /\ loc[r].next = "failRun"
                 /\ Appended("MODEL", "FAILED", NoCall, <<>>)
              \/ /\ loc[r].step \in DOMAIN steps
                 /\ Edited(loc[r].step, "FAILED", steps[loc[r].step].atts,
                           steps[loc[r].step].out)
           /\ \/ /\ loc[r].next = "replay" /\ Unfinished(loc[r].step)
                 /\ Moves(r, "recordFailedStep", loc[r].step, {}, "failRun", NoOut)
              \/ /\ loc[r].next = "replay" /\ Unfinished(loc[r].step)
                 /\ \/ steps[loc[r].step].atts = <<>>
                    \/ Len(steps[loc[r].step].atts) < MaxAttempts
                 /\ Moves(r, "tool", loc[r].step, loc[r].todo, "idle", NoOut)
              \/ /\ loc[r].next \in {"failRun", "cancelRun", "enterWaiting"}
                 /\ loc[r].next = "enterWaiting" => Unfinished(loc[r].step)
                 /\ Moves(r, loc[r].next, loc[r].step, {}, "idle", NoOut)
<1> DEFINE i == loc[r].step
<1>1. Fenced(r) /\ pc[r] = "recordFailedStep"
    BY DEF RecordFailedStep
<1>2. /\ Types /\ i \in Nat /\ loc[r].todo \in SUBSET (Nat \X Nat)
      /\ loc[r].next \in {"replay", "failRun", "cancelRun", "enterWaiting"}
      /\ (i = 0 /\ loc[r].next = "failRun") \/ (i # 0 /\ i \in DOMAIN steps)
      /\ loc[r].next \in {"enterWaiting", "replay"} => Unfinished(i)
    <2>1. 0 \notin DOMAIN steps
        BY DEF IInv, Types
    <2> QED
        BY <1>1, <2>1, HolderKnows DEF BudgetAt, Nexts
<1>3. \/ i = 0 /\ loc[r].next = "failRun" /\ Appended("MODEL", "FAILED", NoCall, <<>>)
      \/ i \in DOMAIN steps /\ Edited(i, "FAILED", steps[i].atts, steps[i].out)
    <2>1. CASE i = 0
        <3>1. NoCall \in Nat \X Nat /\ <<>> \in Seq(AttemptStates)
            BY DEF NoCall
        <3>2. steps' = Append(steps, [type |-> "MODEL", status |-> "FAILED", call |-> NoCall,
                                      atts |-> <<>>, out |-> NoOut])
            BY <2>1 DEF RecordFailedStep
        <3>3. Appended("MODEL", "FAILED", NoCall, <<>>)
            BY <1>2, <3>1, <3>2, StepAppended DEF Types, Statuses
        <3> QED
            BY <1>2, <2>1, <3>3
    <2>2. CASE i # 0
        <3>1. steps' = [steps EXCEPT ![i].status = "FAILED"]
            BY <2>2 DEF RecordFailedStep
        <3>2. Edited(i, "FAILED", steps[i].atts, steps[i].out)
            BY <1>2, <2>2, <3>1, StatusSet DEF Types, Statuses
        <3> QED
            BY <1>2, <2>2, <3>2
    <2> QED
        BY <2>1, <2>2
<1>4. CASE loc[r].next = "replay"
    <2>1. Continue(r, ToolEntry(i, loc[r].todo, TRUE))
        BY <1>4 DEF RecordFailedStep
    <2>2. /\ Place(At("recordFailedStep", i, {}, "failRun"))
          /\ Place(At("tool", i, loc[r].todo, "idle"))
        BY <1>2, AtFields DEF PCs, Nexts
    <2>3. CASE ToolEntry(i, loc[r].todo, TRUE) = At("recordFailedStep", i, {}, "failRun")
        <3>0. Continue(r, At("recordFailedStep", i, {}, "failRun"))
            BY <2>1, <2>3
        <3>1. Moves(r, "recordFailedStep", i, {}, "failRun", NoOut) /\ loc'[r].ver = loc[r].ver
            BY <1>2, <3>0, <2>2, AtFields, Continued DEF Types
        <3>2. Unfinished(i)
            BY <1>2, <1>4
        <3> QED
            BY <1>1, <1>3, <1>4, <3>1, <3>2
    <2>4. CASE /\ ToolEntry(i, loc[r].todo, TRUE) = At("tool", i, loc[r].todo, "idle")
               /\ i = 0 \/ steps[i].atts = <<>> \/ Len(steps[i].atts) < MaxAttempts
        <3>0. Continue(r, At("tool", i, loc[r].todo, "idle"))
            BY <2>1, <2>4
        <3>1. Moves(r, "tool", i, loc[r].todo, "idle", NoOut) /\ loc'[r].ver = loc[r].ver
            BY <1>2, <3>0, <2>2, AtFields, Continued DEF Types
        <3>2. Unfinished(i) /\ (steps[i].atts = <<>> \/ Len(steps[i].atts) < MaxAttempts)
            BY <1>2, <1>4, <2>4
        <3> QED
            BY <1>1, <1>3, <1>4, <3>1, <3>2
    <2> QED
        BY <2>3, <2>4, ToolEntryGoes
<1>5. CASE loc[r].next # "replay"
    <2>1. Continue(r, At(loc[r].next, i, {}, "idle"))
        BY <1>5 DEF RecordFailedStep
    <2>2. Place(At(loc[r].next, i, {}, "idle"))
        BY <1>2, <1>5, AtFields DEF PCs, Nexts
    <2>3. Moves(r, loc[r].next, i, {}, "idle", NoOut) /\ loc'[r].ver = loc[r].ver
        BY <1>2, <2>1, <2>2, AtFields, Continued DEF Types
    <2> QED
        BY <1>1, <1>2, <1>3, <1>5, <2>3
<1> QED
    BY <1>4, <1>5

------------------------------------------------------------------------------
(* The writes keep the invariant. *)

LEMMA EditFacts ==
    ASSUME NEW i \in DOMAIN steps, NEW s, NEW a, NEW o, Edited(i, s, a, o)
    PROVE  /\ steps' \in Seq(StepRecords) /\ i \in DOMAIN steps'
           /\ steps'[i].status = s /\ steps'[i].atts = a
           /\ InFlight(i)' <=> (a # <<>> /\ a[Len(a)] = "RUNNING")
           /\ Unfinished(i)' <=> (a = <<>> \/ a[Len(a)] # "SUCCEEDED")
           /\ Room(i)' <=> Len(a) < Cap + resolutions'
BY DEF Edited, InFlight, Unfinished, Room, EndsIn, LastAttempt

LEMMA OneFits ==
    ASSUME NEW x \in Nat
    PROVE  0 < Cap + x
BY CapFacts

LEMMA AppendFacts ==
    ASSUME NEW t, NEW s, NEW c, NEW a, a \in {<<>>, <<"RUNNING">>}, Appended(t, s, c, a),
           NEW n, n = Len(steps) + 1, resolutions' \in Nat
    PROVE  /\ steps' \in Seq(StepRecords) /\ n \in DOMAIN steps' /\ n # 0
           /\ Unfinished(n)' /\ (a = <<"RUNNING">> => InFlight(n)')
           /\ a = <<>> => Room(n)'
<1>1. /\ steps' \in Seq(StepRecords) /\ n \in DOMAIN steps' /\ n # 0 /\ steps'[n].atts = a
    BY DEF Appended
<1>2. CASE a = <<>>
    <2>1. Len(a) = 0
        BY <1>2
    <2>2. 0 < Cap + resolutions'
        BY OneFits
    <2>3. Room(n)'
        BY <1>1, <2>1, <2>2 DEF Room
    <2> QED
        BY <1>1, <1>2, <2>3 DEF Unfinished, EndsIn
<1>3. CASE a = <<"RUNNING">>
    BY <1>1, <1>3 DEF Unfinished, InFlight, EndsIn, LastAttempt
<1> QED
    BY <1>1, <1>2, <1>3

\* A call that works goes on working, or ends the Run.
LEMMA StaysRunning ==
    ASSUME NEW p, StatusAt(p), p \in Working, NEW q, q \in Working \cup {"failRun", "cancelRun"}
    PROVE  run.status = "RUNNING" /\ run.status # "WAITING" /\ StatusAt(q)
BY DEF StatusAt, Working

\* What a write of the holder has to show.
LEMMA WriteKeeps ==
    ASSUME IInv, NEW r \in Runners, Fenced(r), UNCHANGED <<run, lease, cancel, resolutions>>,
           pc[r] \in Working, NEW p, NEW j, NEW todo, NEW next, NEW out,
           Moves(r, p, j, todo, next, out),
           p \in Working \cup {"failRun", "cancelRun"}, p = "succeed" => ~cancel[r],
           HandAt(p, j, todo, out), BudgetAt(p, j, next)',
           \/ \E t, s, c, a : a \in {<<>>, <<"RUNNING">>} /\ Appended(t, s, c, a)
           \/ steps' = steps
    PROVE  IInv'
<1>1. StatusAt(pc[r])
    BY HolderKnows
<1>2. run.status # "WAITING" /\ StatusAt(p)
    BY <1>1, StaysRunning
<1>3. p # "reopen"
    BY DEF Working
<1>4. p = "succeed" => ~loc[r].asked
    BY DEF IInv, Asked
<1>5. steps' \in Seq(StepRecords) /\ AttemptsHonest' /\ StepBudget'
    <2>1. CASE \E t, s, c, a : a \in {<<>>, <<"RUNNING">>} /\ Appended(t, s, c, a)
        BY <1>2, <2>1, AppendKeeps DEF Appended
    <2>2. CASE steps' = steps
        BY <2>2 DEF IInv, Types, AttemptsHonest, StepBudget, Unfinished, EndsIn, LastAttempt
    <2> QED
        BY <2>1, <2>2
<1> QED
    BY <1>2, <1>3, <1>4, <1>5, HolderWrites

\* ... when the write changes one Step.
LEMMA EditWriteKeeps ==
    ASSUME IInv, NEW r \in Runners, Fenced(r), UNCHANGED <<run, lease, cancel, resolutions>>,
           pc[r] \in Working, NEW p, NEW j, NEW todo, NEW next, NEW out,
           Moves(r, p, j, todo, next, out),
           p \in Working \cup {"failRun", "cancelRun"}, p = "succeed" => ~cancel[r],
           HandAt(p, j, todo, out), BudgetAt(p, j, next)',
           NEW i \in DOMAIN steps, NEW s, NEW a \in Seq(AttemptStates), NEW o,
           Edited(i, s, a, o), Len(a) <= Cap + resolutions,
           s = "RUNNING" => (a = <<>> \/ a[Len(a)] # "SUCCEEDED")
    PROVE  IInv'
<1>1. StatusAt(pc[r])
    BY HolderKnows
<1>2. run.status # "WAITING" /\ StatusAt(p)
    BY <1>1, StaysRunning
<1>3. p # "reopen"
    BY DEF Working
<1>4. p = "succeed" => ~loc[r].asked
    BY DEF IInv, Asked
<1>5. steps' \in Seq(StepRecords) /\ AttemptsHonest' /\ StepBudget'
    BY <1>2, EditKeeps DEF Edited
<1> QED
    BY <1>2, <1>3, <1>4, <1>5, HolderWrites

LEMMA ReserveKeeps ==
    ASSUME IInv, NEW r \in Runners, ReserveModelAttempt(r)
    PROVE  IInv'
<1>0. PICK i : i = loc[r].step
    OBVIOUS
<1>1. /\ Fenced(r) /\ pc[r] = "model" /\ UNCHANGED <<run, lease, cancel, resolutions>>
    BY DEF ReserveModelAttempt, countVars
<1>2. /\ Types /\ (i = 0 \/ Room(i)) /\ pc[r] \in Working
      /\ resolutions \in Nat /\ resolutions' \in Nat
    BY <1>0, <1>1, HolderKnows DEF Working, Types, BudgetAt
<1>3. CASE i = 0 /\ Appended("MODEL", "RUNNING", NoCall, <<"RUNNING">>)
           /\ Moves(r, "dispatchModel", Len(steps) + 1, {}, "idle", NoOut)
    <2>1. PICK n : n = Len(steps) + 1
        OBVIOUS
    <2>2. InFlight(n)'
        BY <1>2, <1>3, <2>1, AppendFacts
    <2>3. BudgetAt("dispatchModel", n, "idle")' /\ HandAt("dispatchModel", n, {}, NoOut)
        BY <2>2 DEF BudgetAt, HandAt
    <2>4. "dispatchModel" \in Working
        BY DEF Working
    <2> QED
        BY <1>1, <1>2, <1>3, <2>1, <2>3, <2>4, WriteKeeps
<1>4. CASE /\ i \in DOMAIN steps
           /\ Edited(i, "RUNNING", Append(steps[i].atts, "RUNNING"), steps[i].out)
           /\ Moves(r, "dispatchModel", i, {}, "idle", NoOut)
    <2>1. PICK a : a = Append(steps[i].atts, "RUNNING")
        OBVIOUS
    <2>2. /\ steps[i].atts \in Seq(AttemptStates) /\ "RUNNING" \in AttemptStates
          /\ Len(steps[i].atts) \in Nat /\ i # 0
        BY <1>2, <1>4, AttemptFacts DEF AttemptStates
    <2>3. a \in Seq(AttemptStates) /\ a # <<>> /\ a[Len(a)] = "RUNNING"
          /\ Len(a) = Len(steps[i].atts) + 1
        BY <2>1, <2>2
    <2>4. Len(a) <= Cap + resolutions
        <3>1. Room(i)
            BY <1>2, <2>2
        <3> QED
            BY <1>2, <2>2, <2>3, <3>1, CapFacts DEF Room
    <2>5. Edited(i, "RUNNING", a, steps[i].out)
        BY <1>4, <2>1
    <2>6. InFlight(i)'
        BY <1>4, <2>3, <2>5, EditFacts
    <2>7. BudgetAt("dispatchModel", i, "idle")' /\ HandAt("dispatchModel", i, {}, NoOut)
        BY <2>6 DEF BudgetAt, HandAt
    <2>8. "dispatchModel" \in Working
        BY DEF Working
    <2> QED
        BY <1>1, <1>2, <1>4, <2>3, <2>4, <2>5, <2>7, <2>8, EditWriteKeeps
<1>5. CASE steps' = steps /\ Moves(r, "recordFailedStep", i, {}, "failRun", NoOut)
    <2>1. BudgetAt("recordFailedStep", i, "failRun")' /\ HandAt("recordFailedStep", i, {}, NoOut)
        BY <1>2, <1>5 DEF BudgetAt, HandAt, Room
    <2>2. "recordFailedStep" \in Working
        BY DEF Working
    <2> QED
        BY <1>1, <1>2, <1>5, <2>1, <2>2, WriteKeeps
<1> QED
    BY <1>0, <1>3, <1>4, <1>5, ReserveDoes

LEMMA DispatchModelKeeps ==
    ASSUME IInv, NEW r \in Runners, DispatchModel(r)
    PROVE  IInv'
<1>0. PICK i : i = loc[r].step
    OBVIOUS
<1>9. PICK nx : nx = loc[r].next
    OBVIOUS
<1>1. /\ Fenced(r) /\ pc[r] = "dispatchModel" /\ UNCHANGED <<run, lease, cancel, resolutions>>
      /\ steps' = steps
    BY DEF DispatchModel, countVars
<1>2. Types /\ InFlight(i) /\ pc[r] \in Working /\ "modelInFlight" \in Working
    BY <1>0, <1>1, HolderKnows DEF Working, BudgetAt
<1>3. Moves(r, "modelInFlight", i, loc[r].todo, nx, loc[r].out)
    BY <1>0, <1>9, <1>2, Moved DEF Types, DispatchModel, PCs
<1>4. InFlight(i)'
    BY <1>1, <1>2 DEF InFlight, EndsIn, LastAttempt
<1>5. /\ BudgetAt("modelInFlight", i, nx)'
      /\ HandAt("modelInFlight", i, loc[r].todo, loc[r].out)
    BY <1>1, <1>4 DEF BudgetAt, HandAt
<1> QED
    BY <1>1, <1>2, <1>3, <1>5, WriteKeeps

\* What SetAttempt makes of the attempts of a Step.
LEMMA AttemptEnds ==
    ASSUME IInv, NEW i \in DOMAIN steps, NEW s \in AttemptStates, NEW a,
           a = SetAttempt(steps[i].atts, s)
    PROVE  /\ a \in Seq(AttemptStates) /\ a # <<>> /\ a[Len(a)] = s /\ Len(a) \in Nat
           /\ InFlight(i) => Len(a) = Len(steps[i].atts)
           /\ (InFlight(i) \/ Room(i) \/ steps[i].atts = <<>>) => Len(a) <= Cap + resolutions
<1>1. /\ steps[i].atts \in Seq(AttemptStates) /\ Len(steps[i].atts) \in Nat
      /\ resolutions \in Nat
    BY AttemptFacts DEF IInv, Types
<1>2. PICK b \in Seq(AttemptStates) : b = steps[i].atts
    BY <1>1
<1>3. /\ a \in Seq(AttemptStates) /\ a # <<>> /\ a[Len(a)] = s
      /\ (b # <<>> /\ b[Len(b)] = "RUNNING") => Len(a) = Len(b)
      /\ Len(a) \in {Len(b), Len(b) + 1}
    BY <1>2, AttemptSet
<1>4. Len(a) \in Nat /\ Len(b) \in Nat
    BY <1>1, <1>2, <1>3
<1>5. InFlight(i) => Len(a) = Len(b)
    BY <1>2, <1>3 DEF InFlight, EndsIn, LastAttempt
<1>6. Len(b) <= Cap + resolutions
    BY <1>2 DEF IInv, StepBudget, Cap
<1>7. ASSUME b = <<>> PROVE Room(i)
    <2>1. Len(b) = 0
        BY <1>7
    <2> QED
        BY <1>1, <1>2, <2>1, OneFits DEF Room
<1>8. ASSUME Room(i) PROVE Len(a) <= Cap + resolutions
    <2>1. Len(b) < Cap + resolutions
        BY <1>2, <1>8 DEF Room
    <2>2. PICK m : m = Cap + resolutions
        OBVIOUS
    <2>3. m \in Nat
        BY <1>1, <2>2, CapFacts
    <2> QED
        BY <1>3, <1>4, <2>1, <2>2, <2>3
<1> QED
    BY <1>2, <1>3, <1>4, <1>5, <1>6, <1>7, <1>8

\* The attempts as they are.
LEMMA AttemptsStay ==
    ASSUME IInv, NEW i \in DOMAIN steps
    PROVE  /\ steps[i].atts \in Seq(AttemptStates) /\ Len(steps[i].atts) <= Cap + resolutions
           /\ InFlight(i) <=> (steps[i].atts # <<>> /\ steps[i].atts[Len(steps[i].atts)] = "RUNNING")
           /\ Unfinished(i) <=>
                (steps[i].atts = <<>> \/ steps[i].atts[Len(steps[i].atts)] # "SUCCEEDED")
           /\ steps[i].status = "RUNNING" => Unfinished(i)
<1>1. steps[i].atts \in Seq(AttemptStates)
    BY AttemptFacts DEF IInv
<1> QED
    BY <1>1 DEF IInv, AttemptsHonest, StepBudget, Cap, InFlight, Unfinished, EndsIn, LastAttempt

LEMMA RetryFits ==
    ASSUME Types, NEW n \in Nat, n < MaxAttempts
    PROVE  n < Cap + resolutions
BY CapFacts DEF Types

LEMMA ModelReturnsKeeps ==
    ASSUME IInv, NEW r \in Runners, NEW n \in 0..MaxCalls, ModelReturns(r, n)
    PROVE  IInv'
<1>1. PICK i, a, td, nx : i = loc[r].step /\ a = steps[i].atts /\ td = loc[r].todo /\ nx = loc[r].next
    OBVIOUS
<1>2. /\ Fenced(r) /\ pc[r] \in Working /\ UNCHANGED <<run, lease, cancel, resolutions>>
      /\ InFlight(i) /\ i \in DOMAIN steps
    BY <1>1, HolderKnows DEF ModelReturns, countVars, Working, BudgetAt, InFlight
<1>3. Edited(i, "SUCCEEDED", a, steps[i].out) /\ Moves(r, "recordModelAttempt", i, td, nx, n)
    BY <1>1, ModelReturnsDoes
<1>4. /\ a \in Seq(AttemptStates) /\ Len(a) <= Cap + resolutions
      /\ a # <<>> /\ a[Len(a)] = "RUNNING"
    BY <1>1, <1>2, AttemptsStay
<1>5. InFlight(i)' /\ steps'[i].status = "SUCCEEDED"
    BY <1>2, <1>3, <1>4, EditFacts
<1>6. BudgetAt("recordModelAttempt", i, nx)' /\ HandAt("recordModelAttempt", i, td, n)
    BY <1>5 DEF BudgetAt, HandAt
<1>7. "recordModelAttempt" \in Working
    BY DEF Working
<1> QED
    BY <1>2, <1>3, <1>4, <1>6, <1>7, EditWriteKeeps

LEMMA RecordModelAttemptKeeps ==
    ASSUME IInv, NEW r \in Runners, RecordModelAttempt(r)
    PROVE  IInv'
<1>1. PICK i, a, td, nx, ot : /\ i = loc[r].step /\ a = SetAttempt(steps[i].atts, "SUCCEEDED")
                              /\ td = loc[r].todo /\ nx = loc[r].next /\ ot = loc[r].out
    OBVIOUS
<1>2. /\ Fenced(r) /\ pc[r] \in Working /\ UNCHANGED <<run, lease, cancel, resolutions>>
      /\ InFlight(i) /\ i \in DOMAIN steps /\ steps[i].status = "SUCCEEDED"
      /\ ot \in 0..MaxCalls
    BY <1>1, HolderKnows DEF RecordModelAttempt, countVars, Working, BudgetAt, InFlight, HandAt
<1>3. Edited(i, "SUCCEEDED", a, steps[i].out) /\ Moves(r, "checkpointModel", i, td, nx, ot)
    BY <1>1, <1>2, RecordModelAttemptDoes
<1>4. a \in Seq(AttemptStates) /\ Len(a) <= Cap + resolutions
    BY <1>1, <1>2, AttemptEnds DEF AttemptStates
<1>5. i \in DOMAIN steps'
    BY <1>2, <1>3, EditFacts
<1>6. BudgetAt("checkpointModel", i, nx)' /\ HandAt("checkpointModel", i, td, ot)
    BY <1>2, <1>5 DEF BudgetAt, HandAt
<1>7. "checkpointModel" \in Working
    BY DEF Working
<1> QED
    BY <1>2, <1>3, <1>4, <1>6, <1>7, EditWriteKeeps

LEMMA CheckpointModelKeeps ==
    ASSUME IInv, NEW r \in Runners, CheckpointModel(r)
    PROVE  IInv'
<1>1. PICK i, a, s, n : /\ i = loc[r].step /\ a = steps[i].atts /\ s = steps[i].status
                        /\ n = loc[r].out
    OBVIOUS
<1>2. PICK td : td = {<<Cardinality(Checkpointed("MODEL")) + 1, k>> : k \in 1..n}
    OBVIOUS
<1>3. /\ Fenced(r) /\ pc[r] \in Working /\ UNCHANGED <<run, lease, cancel, resolutions>>
      /\ i \in DOMAIN steps /\ n \in 0..MaxCalls
    BY <1>1, HolderKnows DEF CheckpointModel, countVars, Working, BudgetAt, HandAt
<1>4. /\ Edited(i, s, a, n)
      /\ \/ Moves(r, "cancelRun", 0, {}, "idle", NoOut)
         \/ ~cancel[r] /\ Moves(r, "succeed", 0, {}, "idle", NoOut)
         \/ n # 0 /\ Moves(r, "tool", 0, td, "idle", NoOut)
    BY <1>1, <1>2, CheckpointModelDoes
<1>5. /\ a \in Seq(AttemptStates) /\ Len(a) <= Cap + resolutions
      /\ s = "RUNNING" => (a = <<>> \/ a[Len(a)] # "SUCCEEDED")
    BY <1>1, <1>3, AttemptsStay
<1>6. ASSUME NEW p \in {"cancelRun", "succeed", "tool"}
      PROVE  /\ BudgetAt(p, 0, "idle")' /\ p \in Working \cup {"failRun", "cancelRun"}
             /\ p # "tool" => HandAt(p, 0, {}, NoOut)
             /\ td # {} => HandAt(p, 0, td, NoOut)
    BY DEF BudgetAt, HandAt, Working
<1>7. CASE Moves(r, "cancelRun", 0, {}, "idle", NoOut)
    BY <1>3, <1>4, <1>5, <1>6, <1>7, EditWriteKeeps
<1>8. CASE ~cancel[r] /\ Moves(r, "succeed", 0, {}, "idle", NoOut)
    BY <1>3, <1>4, <1>5, <1>6, <1>8, EditWriteKeeps
<1>9. CASE n # 0 /\ Moves(r, "tool", 0, td, "idle", NoOut)
    <2>1. 1 \in 1..n
        BY <1>3, <1>9, BoundsAssumption
    <2>2. td # {}
        BY <1>2, <2>1
    <2> QED
        BY <1>3, <1>4, <1>5, <1>6, <1>9, <2>2, EditWriteKeeps
<1> QED
    BY <1>4, <1>7, <1>8, <1>9

LEMMA ModelFailsKeeps ==
    ASSUME IInv, NEW r \in Runners, NEW f \in {"TRANSIENT", "PERMANENT"}, ModelFails(r, f)
    PROVE  IInv'
<1>1. PICK i, a, s : /\ i = loc[r].step /\ a = SetAttempt(steps[i].atts, f)
                     /\ s = steps[i].status
    OBVIOUS
<1>2. /\ Fenced(r) /\ pc[r] \in Working /\ UNCHANGED <<run, lease, cancel, resolutions>>
      /\ InFlight(i) /\ i \in DOMAIN steps /\ Types
    <2>1. Fenced(r) /\ pc[r] \in {"modelInFlight", "dispatchModel"} /\ InFlight(i)
        BY <1>1, ModelFailsDoes
    <2> QED
        BY <2>1 DEF ModelFails, countVars, Working, InFlight, IInv
<1>3. Edited(i, s, a, steps[i].out)
    BY <1>1, ModelFailsDoes
<1>4. /\ a \in Seq(AttemptStates) /\ Len(a) <= Cap + resolutions /\ a[Len(a)] # "SUCCEEDED"
      /\ Len(a) = Len(steps[i].atts) /\ Len(a) \in Nat
    BY <1>1, <1>2, AttemptEnds DEF AttemptStates, FailedAttempts
<1>5. i \in DOMAIN steps' /\ (Room(i)' <=> Len(a) < Cap + resolutions)
    BY <1>2, <1>3, EditFacts
<1>6. CASE \E n \in {"cancelRun", "failRun"} :
                Moves(r, "recordFailedStep", i, {}, n, NoOut)
    <2>1. PICK n \in {"cancelRun", "failRun"} :
                Moves(r, "recordFailedStep", i, {}, n, NoOut)
        BY <1>6
    <2>2. /\ BudgetAt("recordFailedStep", i, n)' /\ HandAt("recordFailedStep", i, {}, NoOut)
          /\ "recordFailedStep" \in Working
        BY <1>5 DEF BudgetAt, HandAt, Working
    <2> QED
        BY <1>2, <1>3, <1>4, <2>1, <2>2, EditWriteKeeps
<1>7. CASE Len(steps[i].atts) < MaxAttempts /\ Moves(r, "model", i, {}, "idle", NoOut)
    <2>1. Room(i)'
        BY <1>2, <1>4, <1>5, <1>7, RetryFits
    <2>2. /\ BudgetAt("model", i, "idle")' /\ HandAt("model", i, {}, NoOut)
          /\ "model" \in Working
        BY <2>1 DEF BudgetAt, HandAt, Working
    <2> QED
        BY <1>2, <1>3, <1>4, <1>7, <2>2, EditWriteKeeps
<1> QED
    BY <1>1, <1>6, <1>7, ModelFailsDoes

LEMMA UnconfirmModelKeeps ==
    ASSUME IInv, NEW r \in Runners, UnconfirmModel(r)
    PROVE  IInv'
<1>1. PICK i, b, a, s : /\ i = loc[r].step /\ b = steps[i].atts
                        /\ a = [b EXCEPT ![Len(b)] = "UNCONFIRMED"] /\ s = steps[i].status
    OBVIOUS
<1>2. /\ Fenced(r) /\ pc[r] \in Working /\ UNCHANGED <<run, lease, cancel, resolutions>>
      /\ i \in DOMAIN steps /\ Types /\ b # <<>>
    BY <1>1, UnconfirmModelDoes DEF UnconfirmModel, countVars, Working, IInv
<1>3. Edited(i, s, a, steps[i].out)
    BY <1>1, UnconfirmModelDoes
<1>4. b \in Seq(AttemptStates) /\ Len(b) <= Cap + resolutions /\ Len(b) \in Nat
    BY <1>1, <1>2, AttemptsStay, AttemptFacts
<1>5. a \in Seq(AttemptStates) /\ Len(a) = Len(b) /\ a[Len(a)] # "SUCCEEDED"
    BY <1>1, <1>2, <1>4, AttemptReplaced DEF AttemptStates, FailedAttempts
<1>6. i \in DOMAIN steps' /\ (Room(i)' <=> Len(a) < Cap + resolutions)
    BY <1>2, <1>3, EditFacts
<1>7. CASE Moves(r, "recordFailedStep", i, {}, "failRun", NoOut)
    <2>1. /\ BudgetAt("recordFailedStep", i, "failRun")'
          /\ HandAt("recordFailedStep", i, {}, NoOut) /\ "recordFailedStep" \in Working
        BY <1>6 DEF BudgetAt, HandAt, Working
    <2> QED
        BY <1>2, <1>3, <1>4, <1>5, <1>7, <2>1, EditWriteKeeps
<1>8. CASE Len(b) < MaxAttempts /\ Moves(r, "model", i, {}, "idle", NoOut)
    <2>1. Room(i)'
        BY <1>2, <1>4, <1>5, <1>6, <1>8, RetryFits
    <2>2. /\ BudgetAt("model", i, "idle")' /\ HandAt("model", i, {}, NoOut)
          /\ "model" \in Working
        BY <2>1 DEF BudgetAt, HandAt, Working
    <2> QED
        BY <1>2, <1>3, <1>4, <1>5, <1>8, <2>2, EditWriteKeeps
<1> QED
    BY <1>1, <1>7, <1>8, UnconfirmModelDoes

LEMMA BeginToolStepKeeps ==
    ASSUME IInv, NEW r \in Runners, BeginToolStep(r)
    PROVE  IInv'
<1>1. PICK i, td : i = loc[r].step /\ td = loc[r].todo
    OBVIOUS
<1>2. /\ Fenced(r) /\ pc[r] \in Working /\ UNCHANGED <<run, lease, cancel, resolutions>>
      /\ resolutions' \in Nat /\ "beginAttempt" \in Working
    BY DEF BeginToolStep, countVars, Working, IInv, Types
<1>3. CASE /\ Appended("TOOL", "RUNNING", First(td), <<>>)
           /\ Moves(r, "beginAttempt", Len(steps) + 1, td, "idle", NoOut)
    <2>1. PICK n : n = Len(steps) + 1
        OBVIOUS
    <2>2. Room(n)' /\ Unfinished(n)'
        BY <1>2, <1>3, <2>1, AppendFacts
    <2>3. BudgetAt("beginAttempt", n, "idle")' /\ HandAt("beginAttempt", n, td, NoOut)
        BY <2>2 DEF BudgetAt, HandAt
    <2> QED
        BY <1>2, <1>3, <2>1, <2>3, WriteKeeps
<1>4. CASE /\ i \in DOMAIN steps /\ Room(i) /\ Unfinished(i)
           /\ Edited(i, "RUNNING", steps[i].atts, steps[i].out)
           /\ Moves(r, "beginAttempt", i, td, "idle", NoOut)
    <2>1. PICK a : a = steps[i].atts
        OBVIOUS
    <2>2. /\ a \in Seq(AttemptStates) /\ Len(a) <= Cap + resolutions
          /\ a = <<>> \/ a[Len(a)] # "SUCCEEDED"
        BY <1>4, <2>1, AttemptsStay
    <2>3. Edited(i, "RUNNING", a, steps[i].out) /\ Len(a) < Cap + resolutions
        BY <1>4, <2>1 DEF Room
    <2>4. Room(i)' /\ Unfinished(i)'
        BY <1>2, <1>4, <2>2, <2>3, EditFacts
    <2>5. BudgetAt("beginAttempt", i, "idle")' /\ HandAt("beginAttempt", i, td, NoOut)
        BY <2>4 DEF BudgetAt, HandAt
    <2> QED
        BY <1>2, <1>4, <2>2, <2>3, <2>5, EditWriteKeeps
<1> QED
    BY <1>1, <1>3, <1>4, BeginToolStepDoes

LEMMA BeginToolAttemptKeeps ==
    ASSUME IInv, NEW r \in Runners, BeginToolAttempt(r)
    PROVE  IInv'
<1>1. PICK i, b, a, s, td, nx, ot :
            /\ i = loc[r].step /\ b = steps[i].atts /\ a = Append(b, "RUNNING")
            /\ s = steps[i].status /\ td = loc[r].todo /\ nx = loc[r].next /\ ot = loc[r].out
    OBVIOUS
<1>2. /\ Fenced(r) /\ pc[r] \in Working /\ UNCHANGED <<run, lease, cancel, resolutions>>
      /\ "dispatchTool" \in Working
    BY DEF BeginToolAttempt, countVars, Working
<1>3. /\ i \in DOMAIN steps /\ Room(i) /\ Edited(i, s, a, steps[i].out)
      /\ Moves(r, "dispatchTool", i, td, nx, ot)
    BY <1>1, BeginToolAttemptDoes
<1>4. b \in Seq(AttemptStates) /\ Len(b) \in Nat
    BY <1>1, <1>3, AttemptFacts DEF IInv
<1>5. /\ a \in Seq(AttemptStates) /\ a # <<>> /\ a[Len(a)] = "RUNNING" /\ Len(a) = Len(b) + 1
    <2>1. "RUNNING" \in AttemptStates
        BY DEF AttemptStates
    <2>2. a = Append(b, "RUNNING")
        BY <1>1
    <2> QED
        BY <1>4, <2>1, <2>2
<1>6. Len(a) <= Cap + resolutions
    <2>1. Len(b) < Cap + resolutions
        BY <1>1, <1>3 DEF Room
    <2>2. resolutions \in Nat
        BY DEF IInv, Types
    <2>3. PICK m : m = Cap + resolutions
        OBVIOUS
    <2>4. m \in Nat
        BY <2>2, <2>3, CapFacts
    <2>5. PICK k \in Nat : k = Len(b)
        BY <1>4
    <2>6. Len(a) = k + 1 /\ k < m
        BY <1>5, <2>1, <2>3, <2>5
    <2>7. k + 1 <= m
        BY <2>4, <2>6
    <2> QED
        BY <2>3, <2>6, <2>7
<1>7. InFlight(i)'
    BY <1>3, <1>5, EditFacts
<1>8. BudgetAt("dispatchTool", i, nx)' /\ HandAt("dispatchTool", i, td, ot)
    BY <1>7 DEF BudgetAt, HandAt
<1> QED
    BY <1>2, <1>3, <1>5, <1>6, <1>8, EditWriteKeeps

LEMMA InvokeToolKeeps ==
    ASSUME IInv, NEW r \in Runners, NEW happens \in BOOLEAN, InvokeTool(r, happens)
    PROVE  IInv'
<1>1. PICK i, td, nx, ot : /\ i = loc[r].step /\ td = loc[r].todo /\ nx = loc[r].next
                           /\ ot = loc[r].out
    OBVIOUS
<1>2. /\ Fenced(r) /\ pc[r] \in Working /\ UNCHANGED <<run, lease, cancel, resolutions>>
      /\ steps' = steps
    BY DEF InvokeTool, countVars, Working
<1>3. InFlight(i)
    BY <1>1, InvokeToolDoes
<1>4. PICK p \in {"toolActed", "toolIdle"} : Moves(r, p, i, td, nx, ot)
    BY <1>1, InvokeToolDoes
<1>5. InFlight(i)'
    BY <1>2, <1>3 DEF InFlight, EndsIn, LastAttempt
<1>6. BudgetAt(p, i, nx)' /\ HandAt(p, i, td, ot) /\ p \in Working
    BY <1>5 DEF BudgetAt, HandAt, Working
<1> QED
    BY <1>2, <1>4, <1>6, WriteKeeps

LEMMA ToolReturnsKeeps ==
    ASSUME IInv, NEW r \in Runners, ToolReturns(r)
    PROVE  IInv'
<1>1. PICK i, a, td, nx, ot : /\ i = loc[r].step /\ a = steps[i].atts
                              /\ td = loc[r].todo /\ nx = loc[r].next /\ ot = loc[r].out
    OBVIOUS
<1>2. /\ Fenced(r) /\ pc[r] \in Working /\ UNCHANGED <<run, lease, cancel, resolutions>>
      /\ "recordToolAttempt" \in Working
    BY DEF ToolReturns, countVars, Working
<1>3. /\ i \in DOMAIN steps /\ (InFlight(i) \/ Room(i))
      /\ Edited(i, "SUCCEEDED", a, steps[i].out)
      /\ Moves(r, "recordToolAttempt", i, td, nx, ot)
    BY <1>1, ToolReturnsDoes
<1>4. a \in Seq(AttemptStates) /\ Len(a) <= Cap + resolutions
    BY <1>1, <1>3, AttemptsStay
<1>5. (InFlight(i)' \/ Room(i)') /\ steps'[i].status = "SUCCEEDED"
    <2>1. CASE InFlight(i)
        BY <1>1, <1>3, <2>1, AttemptsStay, EditFacts
    <2>2. CASE Room(i)
        <3>1. Len(a) < Cap + resolutions
            BY <1>1, <2>2 DEF Room
        <3> QED
            BY <1>2, <1>3, <3>1, EditFacts
    <2> QED
        BY <1>3, <2>1, <2>2
<1>6. BudgetAt("recordToolAttempt", i, nx)' /\ HandAt("recordToolAttempt", i, td, ot)
    BY <1>5 DEF BudgetAt, HandAt
<1> QED
    BY <1>2, <1>3, <1>4, <1>6, EditWriteKeeps

LEMMA RecordToolAttemptKeeps ==
    ASSUME IInv, NEW r \in Runners, RecordToolAttempt(r)
    PROVE  IInv'
<1>1. PICK i, a, td, nx, ot : /\ i = loc[r].step /\ a = SetAttempt(steps[i].atts, "SUCCEEDED")
                              /\ td = loc[r].todo /\ nx = loc[r].next /\ ot = loc[r].out
    OBVIOUS
<1>2. /\ Fenced(r) /\ pc[r] \in Working /\ UNCHANGED <<run, lease, cancel, resolutions>>
      /\ "checkpointTool" \in Working
    BY DEF RecordToolAttempt, countVars, Working
<1>3. /\ i \in DOMAIN steps /\ (InFlight(i) \/ Room(i))
      /\ Edited(i, "SUCCEEDED", a, steps[i].out)
      /\ Moves(r, "checkpointTool", i, td, nx, ot)
    BY <1>1, RecordToolAttemptDoes
<1>4. a \in Seq(AttemptStates) /\ Len(a) <= Cap + resolutions
    BY <1>1, <1>3, AttemptEnds DEF AttemptStates
<1>5. i \in DOMAIN steps'
    BY <1>3, EditFacts
<1>6. BudgetAt("checkpointTool", i, nx)' /\ HandAt("checkpointTool", i, td, ot)
    BY <1>5 DEF BudgetAt, HandAt
<1> QED
    BY <1>2, <1>3, <1>4, <1>6, EditWriteKeeps

LEMMA CheckpointToolKeeps ==
    ASSUME IInv, NEW r \in Runners, CheckpointTool(r)
    PROVE  IInv'
<1>1. PICK i, a, s, td : /\ i = loc[r].step /\ a = steps[i].atts /\ s = steps[i].status
                         /\ td = loc[r].todo \ {First(loc[r].todo)}
    OBVIOUS
<1>2. /\ Fenced(r) /\ pc[r] \in Working /\ UNCHANGED <<run, lease, cancel, resolutions>>
    BY DEF CheckpointTool, countVars, Working
<1>3. /\ i \in DOMAIN steps /\ Edited(i, s, a, 0)
      /\ \/ Moves(r, "model", 0, {}, "idle", NoOut)
         \/ td # {} /\ Moves(r, "tool", 0, td, "idle", NoOut)
    BY <1>1, CheckpointToolDoes
<1>4. /\ a \in Seq(AttemptStates) /\ Len(a) <= Cap + resolutions
      /\ s = "RUNNING" => (a = <<>> \/ a[Len(a)] # "SUCCEEDED")
    BY <1>1, <1>3, AttemptsStay
<1>5. /\ BudgetAt("model", 0, "idle")' /\ HandAt("model", 0, {}, NoOut) /\ "model" \in Working
      /\ BudgetAt("tool", 0, "idle")' /\ "tool" \in Working
      /\ td # {} => HandAt("tool", 0, td, NoOut)
    BY DEF BudgetAt, HandAt, Working
<1>6. CASE Moves(r, "model", 0, {}, "idle", NoOut)
    BY <1>2, <1>3, <1>4, <1>5, <1>6, EditWriteKeeps
<1>7. CASE td # {} /\ Moves(r, "tool", 0, td, "idle", NoOut)
    BY <1>2, <1>3, <1>4, <1>5, <1>7, EditWriteKeeps
<1> QED
    BY <1>3, <1>6, <1>7

LEMMA ToolFailsKeeps ==
    ASSUME IInv, NEW r \in Runners, NEW f \in {"TRANSIENT", "PERMANENT", "UNCERTAIN"},
           ToolFails(r, f)
    PROVE  IInv'
<1>1. PICK i, a, s, td : /\ i = loc[r].step /\ a = SetAttempt(steps[i].atts, f)
                         /\ s = steps[i].status /\ td = loc[r].todo
    OBVIOUS
<1>2. /\ Fenced(r) /\ pc[r] \in Working /\ UNCHANGED <<run, lease, cancel, resolutions>>
      /\ Types
    BY DEF ToolFails, countVars, Working, IInv
<1>3. InFlight(i) /\ i \in DOMAIN steps /\ Edited(i, s, a, steps[i].out)
    BY <1>1, ToolFailsDoes DEF InFlight
<1>4. /\ a \in Seq(AttemptStates) /\ Len(a) <= Cap + resolutions /\ a[Len(a)] # "SUCCEEDED"
      /\ Len(a) = Len(steps[i].atts) /\ Len(a) \in Nat
    BY <1>1, <1>3, AttemptEnds DEF AttemptStates, FailedAttempts
<1>5. i \in DOMAIN steps' /\ Unfinished(i)' /\ (Room(i)' <=> Len(a) < Cap + resolutions)
    BY <1>2, <1>3, <1>4, EditFacts
<1>6. CASE \E n \in {"cancelRun", "failRun", "enterWaiting"} :
                Moves(r, "recordFailedStep", i, {}, n, NoOut)
    <2>1. PICK n \in {"cancelRun", "failRun", "enterWaiting"} :
                Moves(r, "recordFailedStep", i, {}, n, NoOut)
        BY <1>6
    <2>2. /\ BudgetAt("recordFailedStep", i, n)' /\ HandAt("recordFailedStep", i, {}, NoOut)
          /\ "recordFailedStep" \in Working
        BY <1>5 DEF BudgetAt, HandAt, Working
    <2> QED
        BY <1>2, <1>3, <1>4, <2>1, <2>2, EditWriteKeeps
<1>7. CASE Len(steps[i].atts) < MaxAttempts /\ Moves(r, "tool", i, td, "idle", NoOut)
    <2>1. Room(i)'
        BY <1>2, <1>4, <1>5, <1>7, RetryFits
    <2>2. i # 0
        BY <1>2, <1>3, AttemptFacts
    <2>3. /\ BudgetAt("tool", i, "idle")' /\ HandAt("tool", i, td, NoOut)
          /\ "tool" \in Working
        BY <1>5, <2>1, <2>2 DEF BudgetAt, HandAt, Working
    <2> QED
        BY <1>2, <1>3, <1>4, <1>7, <2>3, EditWriteKeeps
<1> QED
    BY <1>1, <1>6, <1>7, ToolFailsDoes

LEMMA UnconfirmToolKeeps ==
    ASSUME IInv, NEW r \in Runners, UnconfirmTool(r)
    PROVE  IInv'
<1>1. PICK i, a, s, td, nx, ot : /\ i = loc[r].step /\ a = SetAttempt(steps[i].atts, "UNCERTAIN")
                                 /\ s = steps[i].status /\ td = loc[r].todo
                                 /\ nx = loc[r].next /\ ot = loc[r].out
    OBVIOUS
<1>2. /\ Fenced(r) /\ pc[r] \in Working /\ UNCHANGED <<run, lease, cancel, resolutions>>
      /\ "recordFailedStep" \in Working
    BY DEF UnconfirmTool, countVars, Working
<1>3. /\ i \in DOMAIN steps /\ (InFlight(i) \/ steps[i].atts = <<>>)
      /\ nx \in {"enterWaiting", "replay"} /\ Edited(i, s, a, steps[i].out)
      /\ Moves(r, "recordFailedStep", i, td, nx, ot)
    BY <1>1, UnconfirmToolDoes
<1>4. a \in Seq(AttemptStates) /\ Len(a) <= Cap + resolutions /\ a[Len(a)] # "SUCCEEDED"
    BY <1>1, <1>3, AttemptEnds DEF AttemptStates, FailedAttempts
<1>5. i \in DOMAIN steps' /\ Unfinished(i)'
    BY <1>3, <1>4, EditFacts
<1>6. BudgetAt("recordFailedStep", i, nx)' /\ HandAt("recordFailedStep", i, td, ot)
    BY <1>3, <1>5 DEF BudgetAt, HandAt
<1> QED
    BY <1>2, <1>3, <1>4, <1>6, EditWriteKeeps

LEMMA RecordFailedStepKeeps ==
    ASSUME IInv, NEW r \in Runners, RecordFailedStep(r)
    PROVE  IInv'
<1>1. PICK i, a, td, nx : /\ i = loc[r].step /\ a = steps[i].atts
                          /\ td = loc[r].todo /\ nx = loc[r].next
    OBVIOUS
<1>2. /\ Fenced(r) /\ pc[r] \in Working /\ UNCHANGED <<run, lease, cancel, resolutions>>
      /\ "recordFailedStep" \in Working /\ Types /\ resolutions \in Nat
    BY DEF RecordFailedStep, countVars, Working, IInv, Types
<1>3. CASE i = 0 /\ nx = "failRun" /\ Appended("MODEL", "FAILED", NoCall, <<>>)
    <2>1. Moves(r, "failRun", 0, {}, "idle", NoOut)
        BY <1>1, <1>3, RecordFailedStepDoes
    <2>2. BudgetAt("failRun", 0, "idle")' /\ HandAt("failRun", 0, {}, NoOut)
        BY DEF BudgetAt, HandAt
    <2> QED
        BY <1>2, <1>3, <2>1, <2>2, WriteKeeps
<1>4. CASE i \in DOMAIN steps /\ Edited(i, "FAILED", a, steps[i].out)
    <2>1. /\ a \in Seq(AttemptStates) /\ Len(a) <= Cap + resolutions /\ Len(a) \in Nat
          /\ Unfinished(i) <=> (a = <<>> \/ a[Len(a)] # "SUCCEEDED")
        BY <1>1, <1>2, <1>4, AttemptsStay, AttemptFacts
    <2>2. /\ i \in DOMAIN steps' /\ i # 0 /\ (Unfinished(i) => Unfinished(i)')
          /\ Room(i)' <=> Len(a) < Cap + resolutions
        BY <1>2, <1>4, <2>1, EditFacts, AttemptFacts
    <2>3. CASE Moves(r, "recordFailedStep", i, {}, "failRun", NoOut)
        <3>1. /\ BudgetAt("recordFailedStep", i, "failRun")'
              /\ HandAt("recordFailedStep", i, {}, NoOut)
            BY <2>2 DEF BudgetAt, HandAt
        <3> QED
            BY <1>2, <1>4, <2>1, <2>3, <3>1, EditWriteKeeps
    <2>4. CASE /\ Unfinished(i) /\ (a = <<>> \/ Len(a) < MaxAttempts)
               /\ Moves(r, "tool", i, td, "idle", NoOut)
        <3>1. Room(i)'
            <4>1. CASE a = <<>>
                <5>1. Len(a) = 0
                    BY <4>1
                <5> QED
                    BY <1>2, <2>2, <5>1, OneFits
            <4>2. CASE Len(a) < MaxAttempts
                BY <1>2, <2>1, <2>2, <4>2, RetryFits
            <4> QED
                BY <2>4, <4>1, <4>2
        <3>2. /\ BudgetAt("tool", i, "idle")' /\ HandAt("tool", i, td, NoOut)
              /\ "tool" \in Working
            BY <2>2, <2>4, <3>1 DEF BudgetAt, HandAt, Working
        <3> QED
            BY <1>2, <1>4, <2>1, <2>4, <3>2, EditWriteKeeps
    <2>5. CASE /\ nx \in {"failRun", "cancelRun", "enterWaiting"}
               /\ nx = "enterWaiting" => Unfinished(i)
               /\ Moves(r, nx, i, {}, "idle", NoOut)
        <3>1. BudgetAt(nx, i, "idle")' /\ HandAt(nx, i, {}, NoOut)
            BY <2>2, <2>5 DEF BudgetAt, HandAt
        <3>2. nx \in Working \cup {"failRun", "cancelRun"} /\ nx # "succeed"
            BY <2>5 DEF Working
        <3> QED
            BY <1>2, <1>4, <2>1, <2>5, <3>1, <3>2, EditWriteKeeps
    <2> QED
        BY <1>1, <2>3, <2>4, <2>5, RecordFailedStepDoes
<1> QED
    BY <1>1, <1>3, <1>4, RecordFailedStepDoes

------------------------------------------------------------------------------
(* Acquiring the lease keeps the invariant. *)

LEMMA BudgetStays ==
    ASSUME Types, steps' = steps, resolutions' \in Nat, resolutions' >= resolutions,
           NEW p, NEW i, NEW nx, BudgetAt(p, i, nx)
    PROVE  BudgetAt(p, i, nx)'
<1>1. (InFlight(i) => InFlight(i)') /\ (Unfinished(i) => Unfinished(i)')
    BY DEF InFlight, Unfinished, EndsIn, LastAttempt
<1>2. ASSUME Room(i) PROVE Room(i)'
    <2>1. i \in DOMAIN steps /\ Len(steps[i].atts) \in Nat
        BY <1>2, AttemptFacts DEF Room
    <2>2. PICK n \in Nat : n = Len(steps[i].atts)
        BY <2>1
    <2>3. n < Cap + resolutions /\ resolutions \in Nat
        BY <1>2, <2>2 DEF Room, Types
    <2>4. n < Cap + resolutions'
        <3>1. PICK c \in Nat, x \in Nat, y \in Nat :
                c = Cap /\ x = resolutions /\ y = resolutions'
            BY <2>3, CapFacts
        <3>2. n < c + x /\ y >= x
            BY <2>3, <3>1
        <3>3. n < c + y
            BY <3>2
        <3> QED
            BY <3>1, <3>3
    <2> QED
        BY <2>1, <2>2, <2>4 DEF Room
<1> QED
    BY <1>1, <1>2 DEF BudgetAt

LEMMA AcquireKeeps ==
    ASSUME IInv, NEW r \in Runners, NEW quiet \in BOOLEAN, NEW at, Place(at),
           Acquire(r, quiet, at), UNCHANGED <<run, steps, cancel>>,
           resolutions' \in Nat, resolutions' >= resolutions,
           NEW p, p = at.pc, NEW i, i = at.step, NEW nx, nx = at.next,
           StatusAt(p), BudgetAt(p, i, nx)', HandAt(p, i, at.todo, NoOut)
    PROVE  IInv'
<1>1. /\ pc' \in [Runners -> PCs] /\ loc' \in [Runners -> Locals] /\ Others(r)
      /\ pc'[r] = p /\ loc'[r].step = i /\ loc'[r].todo = at.todo /\ loc'[r].next = nx
      /\ loc'[r].out = NoOut /\ loc'[r].asked = FALSE
      /\ lease' = [owner |-> r, live |-> TRUE]
    BY Acquired DEF IInv
<1>2. BudgetAt(pc[r], loc[r].step, loc[r].next)'
    BY <1>1
<1>3. HandAt(pc'[r], loc'[r].step, loc'[r].todo, loc'[r].out) /\ StatusAt(pc'[r])
    BY <1>1
<1> QED
    BY <1>1, <1>2, <1>3, HolderAcquires

\* ... by a call that goes to a place on its own.
LEMMA AcquireGotoKeeps ==
    ASSUME IInv, NEW r \in Runners, NEW quiet \in BOOLEAN,
           NEW p \in {"start", "definitionUnavailable", "reopen", "failRun", "cancelRun"},
           Acquire(r, quiet, Goto(p)), UNCHANGED <<run, steps, cancel, resolutions>>,
           StatusAt(p)
    PROVE  IInv'
<1>1. PICK at : at = Goto(p)
    OBVIOUS
<1>2. /\ at.pc = p /\ at.step = 0 /\ at.todo = {} /\ at.next = "idle" /\ Place(at)
    BY <1>1, AtFields DEF Goto, PCs, Nexts
<1>3. BudgetAt(p, 0, "idle")' /\ HandAt(p, 0, {}, NoOut)
    BY DEF BudgetAt, HandAt
<1>4. resolutions' \in Nat /\ resolutions' >= resolutions
    BY DEF IInv, Types
<1> QED
    BY <1>1, <1>2, <1>3, <1>4, AcquireKeeps

LEMMA StartRunKeeps ==
    ASSUME IInv, NEW r \in Runners, StartRun(r) \/ ResumeUndefined(r) \/ ResumeDefined(r)
    PROVE  IInv'
<1>1. UNCHANGED <<run, steps, cancel, resolutions>>
    BY DEF StartRun, ResumeUndefined, ResumeDefined, countVars
<1>2. /\ run.status = "CREATED" => (StatusAt("start") /\ StatusAt("definitionUnavailable"))
      /\ run.status = "WAITING" => StatusAt("reopen")
    BY DEF StatusAt, Working
<1>3. CASE StartRun(r)
    BY <1>1, <1>2, <1>3, AcquireGotoKeeps DEF StartRun
<1>4. CASE ResumeUndefined(r)
    BY <1>1, <1>2, <1>4, AcquireGotoKeeps DEF ResumeUndefined
<1>5. CASE ResumeDefined(r)
    BY <1>1, <1>2, <1>5, AcquireGotoKeeps DEF ResumeDefined
<1> QED
    BY <1>3, <1>4, <1>5

LEMMA ResumePointDuty ==
    ASSUME IInv, NEW out
    PROVE  /\ Place(ResumePoint) /\ ResumePoint.pc \in ResumePlaces
           /\ BudgetAt(ResumePoint.pc, ResumePoint.step, ResumePoint.next)
           /\ HandAt(ResumePoint.pc, ResumePoint.step, ResumePoint.todo, out)
<1>1. /\ Place(ResumePoint) /\ ResumePoint.pc \in ResumePlaces
      /\ BudgetAt(ResumePoint.pc, ResumePoint.step, ResumePoint.next)
      /\ ResumePoint.pc = "tool" => ResumePoint.todo # {}
    BY ResumePointGoes DEF IInv
<1>2. PICK p : p = ResumePoint.pc
    OBVIOUS
<1>3. PICK td : td = ResumePoint.todo
    OBVIOUS
<1>4. p \in ResumePlaces /\ (p = "tool" => td # {})
    BY <1>1, <1>2, <1>3
<1>5. HandAt(p, ResumePoint.step, td, out)
    BY <1>4 DEF HandAt, ResumePlaces
<1> QED
    BY <1>1, <1>2, <1>3, <1>5

LEMMA ResumeRunKeeps ==
    ASSUME IInv, NEW r \in Runners, ResumeRun(r)
    PROVE  IInv'
<1>1. run.status = "RUNNING" /\ UNCHANGED <<run, steps, cancel, resolutions>>
    BY DEF ResumeRun, countVars
<1>2. CASE r \notin Capable
    <2>1. Acquire(r, FALSE, Goto("definitionUnavailable")) /\ StatusAt("definitionUnavailable")
        BY <1>1, <1>2 DEF ResumeRun, StatusAt, Working
    <2> QED
        BY <1>1, <2>1, AcquireGotoKeeps
<1>3. CASE r \in Capable
    <2>1. PICK at : at = ResumePoint
        OBVIOUS
    <2>2. Acquire(r, FALSE, at)
        BY <1>3, <2>1 DEF ResumeRun
    <2>3. /\ Place(at) /\ at.pc \in ResumePlaces /\ BudgetAt(at.pc, at.step, at.next)
          /\ HandAt(at.pc, at.step, at.todo, NoOut)
        BY <2>1, ResumePointDuty
    <2>4. PICK p, i, nx : p = at.pc /\ i = at.step /\ nx = at.next
        OBVIOUS
    <2>5. StatusAt(p)
        <3>1. p \in ResumePlaces
            BY <2>3, <2>4
        <3> QED
            BY <1>1, <3>1 DEF ResumePlaces, StatusAt, Working
    <2>6. resolutions' \in Nat /\ resolutions' >= resolutions /\ Types
        BY <1>1 DEF IInv, Types
    <2>7. BudgetAt(p, i, nx)'
        <3>1. BudgetAt(p, i, nx)
            BY <2>3, <2>4
        <3> QED
            BY <1>1, <2>6, <3>1, BudgetStays
    <2>8. HandAt(p, i, at.todo, NoOut)
        BY <2>3, <2>4
    <2> QED
        BY <1>1, <2>2, <2>3, <2>4, <2>5, <2>6, <2>7, <2>8, AcquireKeeps
<1> QED
    BY <1>2, <1>3

LEMMA ResolveEndKeeps ==
    ASSUME IInv, NEW r \in Runners, ResolveEnd(r)
    PROVE  IInv'
<1>1. PICK action \in {"FAIL_RUN", "CANCEL_RUN"} :
            Acquire(r, TRUE, Goto(IF action = "FAIL_RUN" THEN "failRun" ELSE "cancelRun"))
    BY DEF ResolveEnd
<1>2. PICK p : p = IF action = "FAIL_RUN" THEN "failRun" ELSE "cancelRun"
    OBVIOUS
<1>3. p \in {"failRun", "cancelRun"}
    BY <1>2
<1>4. StatusAt(p) /\ UNCHANGED <<run, steps, cancel, resolutions>>
    BY <1>3 DEF ResolveEnd, StatusAt, Working, countVars
<1> QED
    BY <1>1, <1>2, <1>3, <1>4, AcquireGotoKeeps

LEMMA ResolveUncertainKeeps ==
    ASSUME IInv, NEW r \in Runners, ResolveUncertain(r)
    PROVE  IInv'
<1>1. /\ run.status = "WAITING" /\ UNCHANGED <<run, steps, cancel>> /\ Unconfirmed # {}
      /\ resolutions' = resolutions + 1
    BY DEF ResolveUncertain
<1>2. PICK p \in AllowedResolutions(run.reason) \cap {"RETRY_STEP", "CONFIRM_STEP"} :
            Acquire(r, TRUE, At(p, run.wstep, {First(Unconfirmed)}, "idle"))
    BY DEF ResolveUncertain
<1>3. run.reason = "UNCERTAIN_NON_IDEMPOTENT"
    <2>1. run.reason \in WaitingReasons \cup {NoReason}
        BY DEF IInv, Types
    <2> QED
        BY <1>2, <2>1 DEF AllowedResolutions, WaitingReasons, NoReason
<1>4. PICK i, td : i = run.wstep /\ td = {First(Unconfirmed)}
    OBVIOUS
<1>5. i \in Nat /\ td \in SUBSET (Nat \X Nat)
    <2>1. Unconfirmed \in SUBSET (Nat \X Nat)
        BY LastCallsType DEF IInv
    <2> QED
        BY <1>1, <1>4, <2>1, FirstFacts DEF IInv, Types
<1>6. PICK at : at = At(p, i, td, "idle")
    OBVIOUS
<1>7. Place(at) /\ at.pc = p /\ at.step = i /\ at.todo = td /\ at.next = "idle"
    BY <1>5, <1>6, AtFields DEF PCs, Nexts
<1>8. Unfinished(i) /\ i \in DOMAIN steps
    BY <1>3, <1>4 DEF IInv, AttemptsHonest, Unfinished
<1>9. resolutions' \in Nat /\ resolutions' >= resolutions
    BY <1>1 DEF IInv, Types
<1>10. Room(i)' /\ Unfinished(i)'
    <2>1. PICK n \in Nat : n = Len(steps[i].atts)
        BY <1>8, AttemptFacts DEF IInv
    <2>2. n <= Cap + resolutions /\ resolutions \in Nat
        BY <1>8, <2>1 DEF IInv, Types, StepBudget, Cap
    <2>3. n < Cap + resolutions'
        BY <1>1, <2>2, CapFacts
    <2> QED
        BY <1>1, <1>8, <2>1, <2>3 DEF Room, Unfinished, EndsIn, LastAttempt
<1>11. BudgetAt(p, i, "idle")' /\ HandAt(p, i, td, NoOut)
    BY <1>10 DEF BudgetAt, HandAt
<1>12. StatusAt(p)
    BY <1>1 DEF StatusAt, Working
<1> QED
    BY <1>1, <1>2, <1>4, <1>6, <1>7, <1>9, <1>11, <1>12, AcquireKeeps

------------------------------------------------------------------------------
(* Transitions keep the invariant. *)

\* ... to a place where the call has nothing of its own to know.
LEMMA TransitionEndKeeps ==
    ASSUME IInv, NEW r \in Runners, NEW status \in TERMINAL_STATUSES,
           Transition(r, status, NoReason, 0, Goto("release")),
           UNCHANGED <<lease, steps, cancel, resolutions>>
    PROVE  IInv'
<1>1. PICK at : at = Goto("release")
    OBVIOUS
<1>2. at.pc = "release" /\ at.step = 0 /\ at.todo = {} /\ at.next = "idle" /\ Place(at)
    BY <1>1, AtFields DEF Goto, PCs, Nexts
<1>3. /\ Fenced(r)
      /\ run' = [status |-> status, version |-> run.version + 1, reason |-> NoReason, wstep |-> 0]
      /\ Moves(r, "release", 0, {}, "idle", loc[r].out)
    BY <1>1, <1>2, Transitioned DEF IInv
<1>4. StatusAt(pc[r])'
    <2>1. pc'[r] = "release" /\ run'.status = status
        BY <1>3 DEF Moves
    <2> QED
        BY <2>1 DEF StatusAt, Working
<1>5. BudgetAt("release", 0, "idle") /\ HandAt("release", 0, {}, loc[r].out)
    BY DEF BudgetAt, HandAt
<1>6. status \in RunStatuses /\ NoReason # "UNCERTAIN_NON_IDEMPOTENT"
    BY DEF TERMINAL_STATUSES, RunStatuses, NoReason
<1>7. cancel' \in [Runners -> BOOLEAN]
    BY DEF IInv, Types
<1> QED
    BY <1>3, <1>4, <1>5, <1>6, <1>7, HolderTransitions

LEMMA EndKeeps ==
    ASSUME IInv, NEW r \in Runners, FailRun(r) \/ MaybeCancel(r) \/ FinalizeOutput(r)
    PROVE  IInv'
<1>1. UNCHANGED <<lease, steps, cancel, resolutions>>
    BY DEF FailRun, MaybeCancel, FinalizeOutput, countVars
<1>2. PICK status \in TERMINAL_STATUSES : Transition(r, status, NoReason, 0, Goto("release"))
    BY DEF FailRun, MaybeCancel, FinalizeOutput, TERMINAL_STATUSES
<1> QED
    BY <1>1, <1>2, TransitionEndKeeps

\* ... to WAITING, which ends the call.
LEMMA TransitionWaitKeeps ==
    ASSUME IInv, NEW r \in Runners, NEW reason \in WaitingReasons, NEW w \in Nat,
           reason = "UNCERTAIN_NON_IDEMPOTENT" => Unfinished(w),
           Transition(r, "WAITING", reason, w, Goto("idle")),
           UNCHANGED <<lease, steps, resolutions>>,
           cancel' \in [Runners -> BOOLEAN], \A q \in Runners \ {r} : cancel'[q] = cancel[q]
    PROVE  IInv'
<1>1. PICK at : at = Goto("idle")
    OBVIOUS
<1>2. at.pc = "idle" /\ Place(at)
    BY <1>1, AtFields DEF Goto, PCs, Nexts
<1>3. /\ Fenced(r)
      /\ run' = [status |-> "WAITING", version |-> run.version + 1, reason |-> reason, wstep |-> w]
      /\ Ends(r, "idle")
    BY <1>1, <1>2, Transitioned DEF IInv
<1>4. "WAITING" \in RunStatuses
    BY DEF RunStatuses
<1> QED
    BY <1>3, <1>4, HolderTransitions

LEMMA WaitKeeps ==
    ASSUME IInv, NEW r \in Runners,
           EnterWaitingDefinitionUnavailable(r) \/ EnterWaitingUncertain(r)
    PROVE  IInv'
<1>1. /\ UNCHANGED <<lease, steps, resolutions>> /\ cancel' \in [Runners -> BOOLEAN]
      /\ \A q \in Runners \ {r} : cancel'[q] = cancel[q]
    BY DEF EnterWaitingDefinitionUnavailable, EnterWaitingUncertain, countVars, IInv, Types
<1>2. CASE EnterWaitingDefinitionUnavailable(r)
    <2>1. PICK reason \in WaitingReasons : reason = "DEFINITION_UNAVAILABLE"
        BY DEF WaitingReasons
    <2> QED
        BY <1>1, <1>2, <2>1, TransitionWaitKeeps DEF EnterWaitingDefinitionUnavailable
<1>3. CASE EnterWaitingUncertain(r)
    <2>1. Fenced(r) /\ pc[r] = "enterWaiting"
        BY <1>3 DEF EnterWaitingUncertain, Transition
    <2>2. loc[r].step \in Nat /\ Unfinished(loc[r].step)
        BY <2>1, HolderKnows DEF BudgetAt
    <2>3. "UNCERTAIN_NON_IDEMPOTENT" \in WaitingReasons
        BY DEF WaitingReasons
    <2>4. PICK w : w = loc[r].step
        OBVIOUS
    <2>5. Transition(r, "WAITING", "UNCERTAIN_NON_IDEMPOTENT", w, Goto("idle"))
        BY <1>3, <2>4 DEF EnterWaitingUncertain
    <2> QED
        BY <1>1, <2>2, <2>3, <2>4, <2>5, TransitionWaitKeeps
<1> QED
    BY <1>2, <1>3

\* ... to RUNNING.
LEMMA TransitionRunKeeps ==
    ASSUME IInv, NEW r \in Runners, NEW at, Place(at), at.pc \in Working,
           Transition(r, "RUNNING", NoReason, 0, at),
           UNCHANGED <<lease, steps, cancel, resolutions>>,
           at.pc = "succeed" => ~loc[r].asked,
           BudgetAt(at.pc, at.step, at.next), HandAt(at.pc, at.step, at.todo, loc[r].out)
    PROVE  IInv'
<1>1. at.pc # "idle" /\ at.pc # "reopen"
    BY DEF Working
<1>2. /\ Fenced(r)
      /\ run' = [status |-> "RUNNING", version |-> run.version + 1, reason |-> NoReason, wstep |-> 0]
      /\ Moves(r, at.pc, at.step, at.todo, at.next, loc[r].out)
    BY <1>1, Transitioned DEF IInv
<1>3. StatusAt(pc[r])'
    <2>1. pc'[r] \in Working /\ run'.status = "RUNNING"
        BY <1>2 DEF Moves
    <2> QED
        BY <2>1 DEF StatusAt, Working
<1>4. "RUNNING" \in RunStatuses /\ NoReason # "UNCERTAIN_NON_IDEMPOTENT"
    BY DEF RunStatuses, NoReason
<1>5. cancel' \in [Runners -> BOOLEAN]
    BY DEF IInv, Types
<1> QED
    BY <1>1, <1>2, <1>3, <1>4, <1>5, HolderTransitions

LEMMA StartKeeps ==
    ASSUME IInv, NEW r \in Runners, Start(r)
    PROVE  IInv'
<1>1. PICK at : at = At("model", 0, {}, "idle")
    OBVIOUS
<1>2. Transition(r, "RUNNING", NoReason, 0, at) /\ UNCHANGED <<lease, steps, cancel, resolutions>>
    BY <1>1, ModelEntryGoes DEF Start, countVars
<1>3. at.pc = "model" /\ at.step = 0 /\ at.todo = {} /\ at.next = "idle" /\ Place(at)
    BY <1>1, AtFields DEF PCs, Nexts
<1>4. /\ BudgetAt("model", 0, "idle") /\ HandAt("model", 0, {}, loc[r].out)
      /\ "model" \in Working
    BY DEF BudgetAt, HandAt, Working
<1> QED
    BY <1>2, <1>3, <1>4, TransitionRunKeeps

LEMMA ReopenKeeps ==
    ASSUME IInv, NEW r \in Runners, Reopen(r)
    PROVE  IInv'
<1>1. PICK at : at = ResumePoint
    OBVIOUS
<1>2. /\ Transition(r, "RUNNING", NoReason, 0, at) /\ pc[r] = "reopen"
      /\ UNCHANGED <<lease, steps, cancel, resolutions>>
    BY <1>1 DEF Reopen, countVars
<1>3. ~loc[r].asked
    BY <1>2 DEF IInv, Asked
<1>4. /\ Place(at) /\ at.pc \in ResumePlaces /\ BudgetAt(at.pc, at.step, at.next)
      /\ HandAt(at.pc, at.step, at.todo, loc[r].out)
    BY <1>1, ResumePointDuty
<1>5. CASE at.pc \in Working
    BY <1>2, <1>3, <1>4, <1>5, TransitionRunKeeps
<1>6. CASE at.pc \notin Working
    <2>1. at.pc = "failRun"
        BY <1>4, <1>6 DEF ResumePlaces, Working
    <2>2. /\ Fenced(r)
          /\ run' = [status |-> "RUNNING", version |-> run.version + 1, reason |-> NoReason,
                     wstep |-> 0]
          /\ Moves(r, at.pc, at.step, at.todo, at.next, loc[r].out)
        BY <1>2, <1>4, <2>1, Transitioned DEF IInv
    <2>3. StatusAt(pc[r])'
        <3>1. pc'[r] = "failRun" /\ run'.status = "RUNNING"
            BY <2>1, <2>2 DEF Moves
        <3> QED
            BY <3>1 DEF StatusAt, Working
    <2>4. "RUNNING" \in RunStatuses /\ NoReason # "UNCERTAIN_NON_IDEMPOTENT"
        BY DEF RunStatuses, NoReason
    <2>5. cancel' \in [Runners -> BOOLEAN]
        BY <1>2 DEF IInv, Types
    <2> QED
        BY <1>2, <1>3, <1>4, <2>1, <2>2, <2>3, <2>4, <2>5, HolderTransitions
<1> QED
    BY <1>5, <1>6

LEMMA ReopenResolvedKeeps ==
    ASSUME IInv, NEW r \in Runners, ReopenResolved(r)
    PROVE  IInv'
<1>1. PICK p, i, td : /\ p = (IF pc[r] = "RETRY_STEP" THEN "tool" ELSE "confirm")
                      /\ i = loc[r].step /\ td = loc[r].todo
    OBVIOUS
<1>2. PICK at : at = At(p, i, td, "idle")
    OBVIOUS
<1>3. /\ Transition(r, "RUNNING", NoReason, 0, at) /\ pc[r] \in {"RETRY_STEP", "CONFIRM_STEP"}
      /\ UNCHANGED <<lease, steps, cancel, resolutions>>
    BY <1>1, <1>2 DEF ReopenResolved, countVars
<1>4. Fenced(r)
    BY <1>3 DEF Transition
<1>5. Room(i) /\ Unfinished(i) /\ i \in Nat /\ td \in SUBSET (Nat \X Nat) /\ i # 0
    <2>1. Room(i) /\ Unfinished(i) /\ i \in Nat /\ td \in SUBSET (Nat \X Nat)
        BY <1>1, <1>3, <1>4, HolderKnows DEF BudgetAt
    <2> QED
        BY <2>1, AttemptFacts DEF IInv, Room
<1>6. at.pc = p /\ at.step = i /\ at.todo = td /\ at.next = "idle" /\ Place(at)
    BY <1>1, <1>2, <1>5, AtFields DEF PCs, Nexts
<1>7. BudgetAt(p, i, "idle") /\ HandAt(p, i, td, loc[r].out) /\ p \in Working /\ p # "succeed"
    BY <1>1, <1>5 DEF BudgetAt, HandAt, Working
<1> QED
    BY <1>3, <1>6, <1>7, TransitionRunKeeps

------------------------------------------------------------------------------
(* Commands and faults keep the invariant. *)

\* A call ends, whether or not it gives its lease back.
LEMMA CallEndKeeps ==
    ASSUME IInv, NEW r \in Runners, NEW p \in {"idle", "dead"}, Ends(r, p),
           UNCHANGED <<run, steps, resolutions>>,
           lease' = lease \/ lease' = [owner |-> NoRunner, live |-> FALSE],
           cancel' \in [Runners -> BOOLEAN], \A q \in Runners \ {r} : cancel'[q] = cancel[q]
    PROVE  IInv'
<1>1. Types'
    <2>1. lease' \in [owner : Runners \cup {NoRunner}, live : BOOLEAN]
        <3>1. lease \in [owner : Runners \cup {NoRunner}, live : BOOLEAN]
            BY DEF IInv, Types
        <3>2. [owner |-> NoRunner, live |-> FALSE] \in
                [owner : Runners \cup {NoRunner}, live : BOOLEAN]
            OBVIOUS
        <3> QED
            BY <3>1, <3>2
    <2> QED
        BY <2>1 DEF IInv, Types, Ends
<1>2. IdleClean' /\ Asked'
    BY NoLocType DEF IInv, IdleClean, Asked, Ends, Others
<1>3. ASSUME NEW q \in Runners, Fenced(q)'
      PROVE  Fenced(q) /\ pc'[q] = pc[q] /\ loc'[q] = loc[q]
    <2>1. q # r
        <3>1. run'.version # 0
            BY DEF IInv, Types
        <3> QED
            BY <1>3, <3>1, NoLocType DEF Fenced, Ends
    <2>2. lease' = lease
        <3>1. lease'.live = TRUE
            BY <1>3 DEF Fenced
        <3> QED
            BY <3>1
    <2> QED
        BY <1>3, <2>1, <2>2 DEF Fenced, Ends, Others
<1>4. AttemptsHonest' /\ StepBudget' /\ Duties'
    BY <1>3, QuietStep DEF IInv
<1> QED
    BY <1>1, <1>2, <1>4 DEF IInv

LEMMA CallOverKeeps ==
    ASSUME IInv, NEW r \in Runners, ReleaseLease(r) \/ Refused(r) \/ Crash(r)
    PROVE  IInv'
<1>1. /\ UNCHANGED <<run, steps, resolutions>>
      /\ lease' = lease \/ lease' = [owner |-> NoRunner, live |-> FALSE]
      /\ cancel' \in [Runners -> BOOLEAN] /\ \A q \in Runners \ {r} : cancel'[q] = cancel[q]
    <2>1. CASE ReleaseLease(r)
        BY <2>1 DEF ReleaseLease, countVars, IInv, Types
    <2>2. CASE Refused(r)
        BY <2>2 DEF Refused, countVars, IInv, Types
    <2>3. CASE Crash(r)
        BY <2>3 DEF Crash, countVars, IInv, Types
    <2> QED
        BY <2>1, <2>2, <2>3
<1>2. PICK p \in {"idle", "dead"} : pc' = [pc EXCEPT ![r] = p] /\ loc' = [loc EXCEPT ![r] = NoLoc]
    BY DEF ReleaseLease, Refused, Crash
<1>3. p \in PCs
    BY DEF PCs
<1>4. Ends(r, p)
    BY <1>2, <1>3, Ended DEF IInv, Types
<1> QED
    BY <1>1, <1>4, CallEndKeeps

LEMMA RestartKeeps ==
    ASSUME IInv, NEW r \in Runners, Restart(r)
    PROVE  IInv'
<1>1. loc[r] = NoLoc /\ pc' = [pc EXCEPT ![r] = "idle"] /\ loc' = loc
    BY DEF Restart, IInv, IdleClean
<1>2. Ends(r, "idle")
    BY <1>1 DEF Ends, Others, PCs, IInv, Types
<1>3. /\ UNCHANGED <<run, lease, steps, resolutions, cancel>> /\ cancel' \in [Runners -> BOOLEAN]
    BY DEF Restart, countVars, IInv, Types
<1> QED
    BY <1>2, <1>3, CallEndKeeps

LEMMA ExpireKeeps ==
    ASSUME IInv, Expire \/ Overrun
    PROVE  IInv'
<1>1. /\ lease' = [lease EXCEPT !.live = FALSE]
      /\ UNCHANGED <<run, steps, pc, loc, cancel, resolutions>>
    BY DEF Expire, Overrun, countVars
<1>2. lease \in [owner : Runners \cup {NoRunner}, live : BOOLEAN]
    BY DEF IInv, Types
<1>3. lease' \in [owner : Runners \cup {NoRunner}, live : BOOLEAN] /\ lease'.live = FALSE
    BY <1>1, <1>2
<1>4. Types' /\ IdleClean' /\ Asked'
    BY <1>1, <1>3 DEF IInv, Types, IdleClean, Asked
<1>5. ASSUME NEW q \in Runners PROVE ~Fenced(q)'
    <2>1. ASSUME Fenced(q)' PROVE FALSE
        <3>1. lease'.live = TRUE
            BY <2>1 DEF Fenced
        <3> QED
            BY <1>3, <3>1
    <2> QED
        BY <2>1
<1>6. AttemptsHonest' /\ StepBudget' /\ Duties'
    BY <1>1, <1>5, QuietStep DEF IInv
<1> QED
    BY <1>4, <1>6 DEF IInv

LEMMA RequestCancelDoes ==
    ASSUME IInv, NEW r \in Runners, RequestCancel(r)
    PROVE  /\ loc' \in [Runners -> Locals] /\ pc' = pc
           /\ loc'[r].ver = loc[r].ver /\ loc'[r].step = loc[r].step
           /\ loc'[r].todo = loc[r].todo /\ loc'[r].next = loc[r].next
           /\ loc'[r].out = loc[r].out
           /\ \A q \in Runners \ {r} : loc'[q] = loc[q]
<1>1. PICK l0 : l0 = loc[r]
    OBVIOUS
<1>2. l0 \in Locals
    BY <1>1 DEF IInv, Types
<1>3. PICK l : l = [l0 EXCEPT !.asked = TRUE]
    OBVIOUS
<1>4. l = [ver |-> l0.ver, step |-> l0.step, todo |-> l0.todo, next |-> l0.next,
           out |-> l0.out, quiet |-> l0.quiet, asked |-> TRUE]
    <2>1. l0 = [ver |-> l0.ver, step |-> l0.step, todo |-> l0.todo, next |-> l0.next,
                out |-> l0.out, quiet |-> l0.quiet, asked |-> l0.asked]
        BY <1>2, LocalFields
    <2> QED
        BY <1>3, <2>1, LocalEdits
<1>5. l \in Locals
    BY <1>2, <1>4, LocalFields, LocalMade
<1>6. /\ l.ver = l0.ver /\ l.step = l0.step /\ l.todo = l0.todo /\ l.next = l0.next
      /\ l.out = l0.out
    BY <1>4
<1>7. /\ loc' = [loc EXCEPT ![r] = l] /\ pc' = pc
    BY <1>1, <1>3 DEF RequestCancel
<1>8. /\ loc' \in [Runners -> Locals] /\ loc'[r] = l
      /\ \A q \in Runners \ {r} : loc'[q] = loc[q]
    BY <1>5, <1>7 DEF IInv, Types
<1> QED
    BY <1>1, <1>6, <1>7, <1>8

LEMMA RequestCancelKeeps ==
    ASSUME IInv, NEW r \in Runners, RequestCancel(r)
    PROVE  IInv'
<1>1. /\ loc' \in [Runners -> Locals] /\ pc' = pc
      /\ loc'[r].ver = loc[r].ver /\ loc'[r].step = loc[r].step
      /\ loc'[r].todo = loc[r].todo /\ loc'[r].next = loc[r].next
      /\ loc'[r].out = loc[r].out
      /\ \A q \in Runners \ {r} : loc'[q] = loc[q]
    BY RequestCancelDoes
<1>2. /\ UNCHANGED <<run, lease, steps, resolutions>>
      /\ cancel' \in [Runners -> BOOLEAN] /\ cancel'[r] = TRUE
      /\ \A q \in Runners \ {r} : cancel'[q] = cancel[q]
      /\ pc[r] \in SuspensionPoints
    BY DEF RequestCancel, IInv, Types
<1>3. Types'
    BY <1>1, <1>2 DEF IInv, Types
<1>4. IdleClean'
    BY <1>1, <1>2 DEF IInv, IdleClean, SuspensionPoints
<1>5. Asked'
    BY <1>1, <1>2 DEF IInv, Asked, SuspensionPoints
<1>6. ASSUME NEW q \in Runners, Fenced(q)'
       PROVE  /\ Fenced(q) /\ pc'[q] = pc[q]
              /\ loc'[q].step = loc[q].step /\ loc'[q].next = loc[q].next
              /\ loc'[q].todo = loc[q].todo /\ loc'[q].out = loc[q].out
    <2>1. CASE q = r
        BY <1>1, <1>2, <1>6, <2>1 DEF Fenced
    <2>2. CASE q # r
        BY <1>1, <1>2, <1>6, <2>2 DEF Fenced
    <2> QED
        BY <2>1, <2>2
<1>7. AttemptsHonest' /\ StepBudget' /\ Duties'
    BY <1>2, <1>6, QuietStep DEF IInv
<1> QED
    BY <1>3, <1>4, <1>5, <1>7 DEF IInv

LEMMA CancelCreatedKeeps ==
    ASSUME IInv, NEW r \in Runners, CancelCreated(r)
    PROVE  IInv'
<1>1. UNCHANGED <<run, steps, resolutions>> /\ run.status = "CREATED"
    BY DEF CancelCreated
<1>2. CASE Acquire(r, TRUE, Goto("cancelRun")) /\ cancel' = cancel
    <2>1. StatusAt("cancelRun")
        BY <1>1 DEF StatusAt, Working
    <2> QED
        BY <1>1, <1>2, <2>1, AcquireGotoKeeps
<1>3. CASE cancel' = [cancel EXCEPT ![r] = TRUE] /\ UNCHANGED <<lease, pc, loc>>
    <2>1. Types' /\ IdleClean' /\ Asked'
        BY <1>1, <1>3 DEF IInv, Types, IdleClean, Asked
    <2>2. \A q \in Runners : Fenced(q)' => Fenced(q) /\ pc'[q] = pc[q] /\ loc'[q] = loc[q]
        BY <1>1, <1>3 DEF Fenced
    <2>3. AttemptsHonest' /\ StepBudget' /\ Duties'
        BY <1>1, <2>2, QuietStep DEF IInv
    <2> QED
        BY <2>1, <2>3 DEF IInv
<1> QED
    BY <1>2, <1>3 DEF CancelCreated

------------------------------------------------------------------------------
(* The invariant. *)

LEMMA InitIInv == Init => IInv
<1> SUFFICES ASSUME Init PROVE IInv
    OBVIOUS
<1>1. Types
    <2>1. run \in [status : RunStatuses, version : Nat \ {0},
                   reason : WaitingReasons \cup {NoReason}, wstep : Nat]
        BY DEF Init, RunStatuses
    <2>2. run.reason = NoReason
        BY DEF Init
    <2>3. lease \in [owner : Runners \cup {NoRunner}, live : BOOLEAN]
        BY DEF Init
    <2>4. pc \in [Runners -> PCs] /\ loc \in [Runners -> Locals]
        BY NoLocType DEF Init, PCs
    <2> QED
        BY <2>1, <2>2, <2>3, <2>4 DEF Init, Types
<1>2. IdleClean /\ Asked
    BY NoLocType DEF Init, IdleClean, Asked
<1>3. DOMAIN steps = {}
    BY DEF Init
<1>4. AttemptsHonest /\ StepBudget
    <2>1. run.reason # "UNCERTAIN_NON_IDEMPOTENT"
        BY DEF Init, NoReason
    <2> QED
        BY <1>3, <2>1 DEF AttemptsHonest, StepBudget
<1>5. Duties
    BY <1>1, <1>2, IdleUnfenced DEF Init, Duties
<1> QED
    BY <1>1, <1>2, <1>4, <1>5 DEF IInv

LEMMA StutterIInv == IInv /\ UNCHANGED vars => IInv'
<1> SUFFICES ASSUME IInv, UNCHANGED vars PROVE IInv'
    OBVIOUS
<1>1. UNCHANGED <<run, lease, steps, pc, loc, cancel, resolutions>>
    BY DEF vars
<1>2. Types' /\ IdleClean' /\ Asked'
    BY <1>1 DEF IInv, Types, IdleClean, Asked
<1>3. \A q \in Runners : Fenced(q)' => Fenced(q) /\ pc'[q] = pc[q] /\ loc'[q] = loc[q]
    BY <1>1 DEF Fenced
<1>4. AttemptsHonest' /\ StepBudget' /\ Duties'
    BY <1>1, <1>3, QuietStep DEF IInv
<1> QED
    BY <1>2, <1>4 DEF IInv

LEMMA NextIInv == IInv /\ Next => IInv'
<1> SUFFICES ASSUME IInv, Next PROVE IInv'
    OBVIOUS
<1>1. CASE Expire \/ Overrun
    BY <1>1, ExpireKeeps
<1>2. ASSUME NEW r \in Runners, Drive(r) PROVE IInv'
    BY <1>2, StartRunKeeps, ResumeRunKeeps DEF Drive
<1>3. ASSUME NEW r \in Runners, Disturb(r) PROVE IInv'
    BY <1>3, StartRunKeeps, ResolveEndKeeps, ResolveUncertainKeeps, CancelCreatedKeeps,
       RequestCancelKeeps, CallOverKeeps, RestartKeeps DEF Disturb
<1>4. ASSUME NEW r \in Runners, Advance(r) PROVE IInv'
    <2>1. CASE Start(r) \/ EnterWaitingDefinitionUnavailable(r) \/ Reopen(r) \/ ReopenResolved(r)
        BY <2>1, StartKeeps, WaitKeeps, ReopenKeeps, ReopenResolvedKeeps
    <2>2. CASE ReserveModelAttempt(r) \/ DispatchModel(r) \/ RecordModelAttempt(r)
               \/ CheckpointModel(r) \/ UnconfirmModel(r)
        BY <2>2, ReserveKeeps, DispatchModelKeeps, RecordModelAttemptKeeps,
           CheckpointModelKeeps, UnconfirmModelKeeps
    <2>3. CASE (\E n \in 0..MaxCalls : ModelReturns(r, n))
               \/ (\E f \in {"TRANSIENT", "PERMANENT"} : ModelFails(r, f))
        BY <2>3, ModelReturnsKeeps, ModelFailsKeeps
    <2>4. CASE BeginToolStep(r) \/ BeginToolAttempt(r) \/ ToolReturns(r) \/ RecordToolAttempt(r)
               \/ CheckpointTool(r) \/ UnconfirmTool(r) \/ RecordFailedStep(r)
        BY <2>4, BeginToolStepKeeps, BeginToolAttemptKeeps, ToolReturnsKeeps,
           RecordToolAttemptKeeps, CheckpointToolKeeps, UnconfirmToolKeeps,
           RecordFailedStepKeeps
    <2>5. CASE (\E happens \in BOOLEAN : InvokeTool(r, happens))
               \/ (\E f \in {"TRANSIENT", "PERMANENT", "UNCERTAIN"} : ToolFails(r, f))
        BY <2>5, InvokeToolKeeps, ToolFailsKeeps
    <2>6. CASE EnterWaitingUncertain(r) \/ FailRun(r) \/ MaybeCancel(r) \/ FinalizeOutput(r)
               \/ ReleaseLease(r) \/ Refused(r)
        BY <2>6, WaitKeeps, EndKeeps, CallOverKeeps
    <2> QED
        BY <1>4, <2>1, <2>2, <2>3, <2>4, <2>5, <2>6 DEF Advance
<1> QED
    BY <1>1, <1>2, <1>3, <1>4 DEF Next

LEMMA Invariant == Spec => []IInv
<1>1. Init => IInv
    BY InitIInv
<1>2. IInv /\ [Next]_vars => IInv'
    BY NextIInv, StutterIInv
<1> QED
    BY <1>1, <1>2, PTL DEF Spec

------------------------------------------------------------------------------
(* The theorems. *)

\* The attempts of one Step, by whichever Runner and across any number of
\* restarts and takeovers, stay within the frozen RetryPolicy.max_attempts plus
\* one for every RETRY_STEP or CONFIRM_STEP an application asked for.
THEOREM StepBudgetHolds == Spec => []StepBudget
<1>1. IInv => StepBudget
    BY DEF IInv
<1> QED
    BY <1>1, Invariant, PTL

Transits(r) ==
    \/ Start(r) \/ EnterWaitingDefinitionUnavailable(r) \/ Reopen(r)
    \/ EnterWaitingUncertain(r) \/ FailRun(r) \/ MaybeCancel(r) \/ FinalizeOutput(r)
    \/ ReopenResolved(r)

\* All other steps leave the record of the Run alone.
LEMMA RunChanges ==
    ASSUME Next
    PROVE  run' = run \/ \E r \in Runners : Transits(r)
<1>1. CASE Expire \/ Overrun
    BY <1>1 DEF Expire, Overrun
<1>2. ASSUME NEW r \in Runners, Drive(r) PROVE run' = run
    BY <1>2 DEF Drive, StartRun, ResumeRun, ResumeDefined
<1>3. ASSUME NEW r \in Runners, Disturb(r) PROVE run' = run
    BY <1>3 DEF Disturb, ResumeUndefined, ResolveEnd, ResolveUncertain, CancelCreated,
       RequestCancel, Crash, Restart
<1>4. ASSUME NEW r \in Runners, Advance(r) PROVE run' = run \/ Transits(r)
    BY <1>4 DEF Advance, Transits, ReserveModelAttempt, DispatchModel, ModelReturns,
       RecordModelAttempt, CheckpointModel, ModelFails, UnconfirmModel, BeginToolStep,
       BeginToolAttempt, InvokeTool, ToolReturns, RecordToolAttempt, CheckpointTool,
       ToolFails, UnconfirmTool, RecordFailedStep, ReleaseLease, Refused
<1> QED
    BY <1>1, <1>2, <1>3, <1>4 DEF Next

LEMMA LegalMoves ==
    /\ LegalTransition("CREATED", "RUNNING") /\ LegalTransition("CREATED", "WAITING")
    /\ LegalTransition("CREATED", "CANCELLED")
    /\ LegalTransition("RUNNING", "WAITING") /\ LegalTransition("RUNNING", "SUCCEEDED")
    /\ LegalTransition("RUNNING", "FAILED") /\ LegalTransition("RUNNING", "CANCELLED")
    /\ LegalTransition("WAITING", "RUNNING") /\ LegalTransition("WAITING", "FAILED")
    /\ LegalTransition("WAITING", "CANCELLED")
BY DEF LegalTransition, AllowedTransitions, RunStatuses

LEMMA TransitsLegally ==
    ASSUME IInv, NEW r \in Runners, Transits(r)
    PROVE  /\ Fenced(r) /\ LegalTransition(run.status, run'.status)
           /\ run'.status = "SUCCEEDED" => pc[r] = "succeed"
<1>1. Fenced(r)
    BY DEF Transits, Start, EnterWaitingDefinitionUnavailable, Reopen, EnterWaitingUncertain,
       FailRun, MaybeCancel, FinalizeOutput, ReopenResolved, Transition
<1>2. StatusAt(pc[r])
    BY <1>1, HolderKnows
<1>3. CASE Start(r)
    <2>1. pc[r] = "start" /\ run'.status = "RUNNING"
        BY <1>3 DEF Start, Transition
    <2> QED
        BY <1>1, <1>2, <2>1, LegalMoves DEF StatusAt
<1>4. CASE EnterWaitingDefinitionUnavailable(r)
    <2>1. pc[r] = "definitionUnavailable" /\ run'.status = "WAITING"
        BY <1>4 DEF EnterWaitingDefinitionUnavailable, Transition
    <2> QED
        BY <1>1, <1>2, <2>1, LegalMoves DEF StatusAt
<1>5. CASE Reopen(r) \/ ReopenResolved(r)
    <2>1. pc[r] \in {"reopen", "RETRY_STEP", "CONFIRM_STEP"} /\ run'.status = "RUNNING"
        BY <1>5 DEF Reopen, ReopenResolved, Transition
    <2> QED
        BY <1>1, <1>2, <2>1, LegalMoves DEF StatusAt
<1>6. CASE EnterWaitingUncertain(r)
    <2>1. pc[r] \in Working /\ run'.status = "WAITING"
        BY <1>6 DEF EnterWaitingUncertain, Transition, Working
    <2> QED
        BY <1>1, <1>2, <2>1, LegalMoves DEF StatusAt
<1>7. CASE FailRun(r)
    <2>1. pc[r] = "failRun" /\ run'.status = "FAILED"
        BY <1>7 DEF FailRun, Transition
    <2> QED
        BY <1>1, <1>2, <2>1, LegalMoves DEF StatusAt
<1>8. CASE MaybeCancel(r)
    <2>1. (pc[r] = "cancelRun" \/ pc[r] \in Working) /\ run'.status = "CANCELLED"
        BY <1>8 DEF MaybeCancel, Transition, Working
    <2> QED
        BY <1>1, <1>2, <2>1, LegalMoves DEF StatusAt
<1>9. CASE FinalizeOutput(r)
    <2>1. pc[r] = "succeed" /\ pc[r] \in Working /\ run'.status = "SUCCEEDED"
        BY <1>9 DEF FinalizeOutput, Transition, Working
    <2> QED
        BY <1>1, <1>2, <2>1, LegalMoves DEF StatusAt
<1> QED
    BY <1>3, <1>4, <1>5, <1>6, <1>7, <1>8, <1>9 DEF Transits

\* No Runner, fresh or late, ever asks the store for a transition outside the
\* table of _status.py, so no call dies of IllegalRunTransitionError half way.
THEOREM RespectsTransitionTableHolds == Spec => RespectsTransitionTable
<1>1. ASSUME IInv, [Next]_vars
      PROVE  [run'.version # run.version => LegalTransition(run.status, run'.status)]_vars
    <2>1. CASE UNCHANGED vars
        BY <2>1
    <2>2. CASE Next
        BY <1>1, <2>2, RunChanges, TransitsLegally
    <2> QED
        BY <1>1, <2>1, <2>2
<1> QED
    BY <1>1, Invariant, PTL DEF Spec, RespectsTransitionTable

\* A call that cancel_run reached while it was under way does not let the Run
\* succeed, whatever the call still had to record when it was asked.
THEOREM AskedCallNeverSucceedsHolds == Spec => AskedCallNeverSucceeds
<1>1. ASSUME IInv, [Next]_vars
      PROVE  [run'.status = "SUCCEEDED" /\ run.status # "SUCCEEDED"
                => ~loc[lease.owner].asked]_vars
    <2>1. CASE UNCHANGED vars
        BY <2>1
    <2>2. CASE Next
        <3>1. SUFFICES ASSUME run'.status = "SUCCEEDED", run.status # "SUCCEEDED"
                       PROVE  ~loc[lease.owner].asked
            OBVIOUS
        <3>2. PICK r \in Runners : Transits(r)
            BY <2>2, <3>1, RunChanges
        <3>3. Fenced(r) /\ pc[r] = "succeed"
            BY <1>1, <3>1, <3>2, TransitsLegally
        <3>4. lease.owner = r
            BY <3>3 DEF Fenced
        <3> QED
            BY <1>1, <3>3, <3>4 DEF IInv, Asked
    <2> QED
        BY <1>1, <2>1, <2>2
<1> QED
    BY <1>1, Invariant, PTL DEF Spec, AskedCallNeverSucceeds

=============================================================================
