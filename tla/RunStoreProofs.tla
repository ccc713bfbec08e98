--------------------------- MODULE RunStoreProofs ---------------------------
(***************************************************************************)
(* Proofs about RunStore for any number of callers and owners, any TTL and *)
(* any bounds.                                                             *)
(***************************************************************************)
EXTENDS RunStore, TLAPS, FiniteSetTheorems

\* A caller never holds a record newer than the row, and an absent row has
\* version 0 while a present one does not.
ViewsAreHistory ==
    /\ run.status = "ABSENT" <=> run.version = 0
    /\ run.status = "ABSENT" => run.reason = NoReason
    /\ \A c \in Callers : view[c].version <= run.version
    /\ \A c \in Callers : view[c].version = 0 => view[c].status = "ABSENT"

\* The lease row stems from the holder, and a RunLease that has not run out is
\* the lease row.
LeasesAreTheRow ==
    /\ lease.owner # NoOwner => holder \in Callers /\ lease.owner = OwnerOf[holder]
    /\ \A c \in Callers : expiry[c] > now =>
            lease.owner = OwnerOf[c] /\ lease.expires = expiry[c]

------------------------------------------------------------------------------
LEMMA StatusFacts ==
    /\ "ABSENT" \notin RunStatuses
    /\ "CREATED" \in RunStatuses
    /\ "CREATED" # "WAITING"
    /\ "WAITING" \in RunStatuses
    /\ NoReason \notin WaitingReasons
    /\ NoReason \in WaitingReasons \cup {NoReason}
BY DEF RunStatuses, NoReason, WaitingReasons

LEMMA TypeInit == Init => TypeOK
BY CallersAssumption, BoundsAssumption, StatusFacts
DEF Init, TypeOK, NoView

LEMMA TypeStep == TypeOK /\ [Next]_vars => TypeOK'
<1> SUFFICES ASSUME TypeOK, [Next]_vars PROVE TypeOK'
    OBVIOUS
<1> USE CallersAssumption, BoundsAssumption, StatusFacts DEF TypeOK
<1> USE DEF rowVars, journalVars, callerVars, historyVars
<1>1. CASE UNCHANGED vars
    BY <1>1 DEF vars
<1>2. CASE Tick
    BY <1>2 DEF Tick
<1>3. ASSUME NEW c \in Callers, CallerStep(c) PROVE TypeOK'
    <2>1. CASE CreateRun(c)
        BY <2>1 DEF CreateRun
    <2>2. CASE GetRun(c)
        BY <2>2 DEF GetRun
    <2>3. CASE AcquireLease(c)
        BY <2>3 DEF AcquireLease
    <2>4. CASE ReleaseLease(c)
        BY <2>4 DEF ReleaseLease
    <2>5. CASE AssertLease(c)
        BY <2>5 DEF AssertLease, Acted
    <2>6. ASSUME NEW s \in RunStatuses, TransitionRun(c, s) PROVE TypeOK'
        BY <2>6 DEF TransitionRun, Acted
    <2>7. ASSUME NEW s \in StepIds, NEW st \in StepStatuses, RecordStep(c, s, st)
          PROVE TypeOK'
        BY <2>7 DEF RecordStep, Acted
    <2>8. ASSUME NEW a \in AttemptIds, NEW st \in StepStatuses, RecordAttempt(c, a, st)
          PROVE TypeOK'
        BY <2>8 DEF RecordAttempt, Acted
    <2>9. ASSUME NEW s \in StepIds, NEW a \in AttemptIds, NEW p \in Purposes,
                 ReserveModelAttempt(c, s, a, p)
          PROVE TypeOK'
        BY <2>9 DEF ReserveModelAttempt, Acted, StepStatuses
    <2>10. ASSUME NEW s \in StepIds, RecordCheckpoint(c, s) PROVE TypeOK'
        BY <2>10 DEF RecordCheckpoint, Acted
    <2>11. CASE CheckPolicyDecision(c)
        BY <2>11 DEF CheckPolicyDecision
    <2>12. CASE InsertPolicyDecision(c)
        BY <2>12 DEF InsertPolicyDecision
    <2>13. CASE Return(c)
        BY <2>13 DEF Return, NoView
    <2> QED
        BY <1>3, <2>1, <2>2, <2>3, <2>4, <2>5, <2>6, <2>7, <2>8, <2>9, <2>10,
           <2>11, <2>12, <2>13 DEF CallerStep, Operation
<1> QED
    BY <1>1, <1>2, <1>3 DEF Next

\* The store keeps its types, and a waiting reason is stored exactly in WAITING,
\* whatever the callers do.
THEOREM TypeCorrect == Spec => []TypeOK
BY TypeInit, TypeStep, PTL DEF Spec

------------------------------------------------------------------------------
(* Leases: exclusion and fencing.  Both rest on LeasesAreTheRow, which is      *)
(* inductive only together with Fencing.                                      *)

LEMMA LeaseInit == Init => LeasesAreTheRow /\ Fencing
BY BoundsAssumption DEF Init, LeasesAreTheRow, Fencing

\* A call the store lets through is the holder: owners name calls.
LEMMA HolderActs ==
    ASSUME DistinctOwners, LeasesAreTheRow, Fencing, TypeOK,
           NEW c \in Callers, Fenced(c), Acted(c)
    PROVE  Fencing'
<1>1. c = holder
    BY CallersAssumption DEF Fenced, HoldsLease, LeasesAreTheRow, DistinctOwners
<1> QED
    BY <1>1 DEF Acted, Fencing

LEMMA LeaseStep ==
    ASSUME DistinctOwners, TypeOK, LeasesAreTheRow, Fencing, [Next]_vars
    PROVE  LeasesAreTheRow' /\ Fencing'
<1> USE CallersAssumption, BoundsAssumption
<1> USE DEF rowVars, journalVars, callerVars, historyVars
<1>1. CASE UNCHANGED vars
    BY <1>1 DEF vars, LeasesAreTheRow, Fencing
<1>2. CASE Tick
    \* An expiry in the future tomorrow is in the future today.
    BY <1>2 DEF Tick, LeasesAreTheRow, Fencing, TypeOK
<1>3. ASSUME NEW c \in Callers, CallerStep(c) PROVE LeasesAreTheRow' /\ Fencing'
    <2>1. CASE UNCHANGED <<now, lease, expiry, holder>> /\ Fenced(c) /\ Acted(c)
        BY <2>1, HolderActs DEF LeasesAreTheRow
    <2>2. CASE UNCHANGED <<now, lease, expiry, holder, acts>>
        BY <2>2 DEF LeasesAreTheRow, Fencing
    <2>3. CASE AcquireLease(c)
        <3>1. Fencing'
            BY <2>3 DEF AcquireLease, Fencing
        \* Nobody else holds an unexpired RunLease when the store grants one.
        <3>2. ASSUME NEW d \in Callers, d # c PROVE ~(expiry[d] > now)
            BY <2>3, <3>2 DEF AcquireLease, LeaseAvailable, LeasesAreTheRow, DistinctOwners,
               TypeOK
        <3>3. \A d \in Callers : expiry'[d] = IF d = c THEN now + TTL ELSE expiry[d]
            BY <2>3 DEF AcquireLease, TypeOK
        <3>4. \A d \in Callers : expiry'[d] > now' =>
                    lease'.owner = OwnerOf[d] /\ lease'.expires = expiry'[d]
            BY <2>3, <3>2, <3>3 DEF AcquireLease
        <3>5. lease'.owner # NoOwner => holder' \in Callers /\ lease'.owner = OwnerOf[holder']
            BY <2>3 DEF AcquireLease
        <3> QED
            BY <3>1, <3>4, <3>5 DEF LeasesAreTheRow
    <2>4. CASE ReleaseLease(c)
        <3>1. Fencing'
            BY <2>4 DEF ReleaseLease, Fencing
        \* The row was the caller's own, so no other RunLease is alive.
        <3>2. ASSUME NEW d \in Callers, d # c PROVE ~(expiry[d] > now)
            BY <2>4, <3>2 DEF ReleaseLease, LeasesAreTheRow, DistinctOwners
        <3>3. \A d \in Callers : expiry'[d] = IF d = c THEN 0 ELSE expiry[d]
            BY <2>4 DEF ReleaseLease, TypeOK
        <3>4. \A d \in Callers : ~(expiry'[d] > now')
            BY <2>4, <3>2, <3>3 DEF ReleaseLease, TypeOK
        <3> QED
            BY <2>4, <3>1, <3>4 DEF LeasesAreTheRow, ReleaseLease
    <2>5. CASE Return(c)
        <3>1. \A d \in Callers : expiry'[d] = IF d = c THEN 0 ELSE expiry[d]
            BY <2>5 DEF Return, TypeOK
        <3> QED
            BY <2>5, <3>1 DEF Return, LeasesAreTheRow, Fencing, TypeOK
    <2> QED
        BY <1>3, <2>1, <2>2, <2>3, <2>4, <2>5
        DEF CallerStep, Operation, CreateRun, GetRun, AssertLease, TransitionRun, RecordStep,
            RecordAttempt, ReserveModelAttempt, RecordCheckpoint, CheckPolicyDecision,
            InsertPolicyDecision
<1> QED
    BY <1>1, <1>2, <1>3 DEF Next

\* With an owner string per call, no two calls ever hold a RunLease that has not
\* run out: acquire_lease, release_lease and expiry exclude each other.
THEOREM LeaseExclusionHolds == ASSUME DistinctOwners PROVE Spec => []LeaseExclusion
<1>1. TypeOK /\ LeasesAreTheRow => LeaseExclusion
    BY DEF LeasesAreTheRow, LeaseExclusion, DistinctOwners
<1>2. Init => LeasesAreTheRow /\ Fencing
    BY LeaseInit
<1>3. TypeOK /\ LeasesAreTheRow /\ Fencing /\ [Next]_vars => LeasesAreTheRow' /\ Fencing'
    BY LeaseStep
<1> QED
    BY <1>1, <1>2, <1>3, TypeCorrect, PTL DEF Spec

\* Every mutation and every dispatch the store lets through was made by the call
\* the lease row stemmed from at that moment: the late operations of a former
\* owner are refused even at an unchanged version.
THEOREM FencingHolds == ASSUME DistinctOwners PROVE Spec => []Fencing
<1>1. Init => LeasesAreTheRow /\ Fencing
    BY LeaseInit
<1>2. TypeOK /\ LeasesAreTheRow /\ Fencing /\ [Next]_vars => LeasesAreTheRow' /\ Fencing'
    BY LeaseStep
<1> QED
    BY <1>1, <1>2, TypeCorrect, PTL DEF Spec

------------------------------------------------------------------------------
(* Versions: optimistic concurrency.                                          *)

LEMMA VersionInit == Init => ViewsAreHistory /\ NoStaleDecision
BY DEF Init, ViewsAreHistory, NoStaleDecision, NoView

LEMMA VersionStep ==
    ASSUME TypeOK, ViewsAreHistory, NoStaleDecision, [Next]_vars
    PROVE  ViewsAreHistory' /\ NoStaleDecision'
<1> USE StatusFacts, BoundsAssumption DEF ViewsAreHistory, NoStaleDecision
<1> USE DEF rowVars, journalVars, callerVars, historyVars
<1>1. CASE UNCHANGED <<run, view>>
    BY <1>1
<1>2. ASSUME NEW c \in Callers, CreateRun(c)
      PROVE  ViewsAreHistory' /\ NoStaleDecision'
    <2>1. \A d \in Callers : view'[d] =
            IF d = c THEN [status |-> "CREATED", version |-> 1] ELSE view[d]
        BY <1>2 DEF CreateRun, TypeOK
    <2>2. \A d \in Callers : view[d].version = 0
        BY <1>2 DEF CreateRun, TypeOK
    <2> QED
        BY <1>2, <2>1, <2>2 DEF CreateRun, TypeOK
<1>3. ASSUME NEW c \in Callers, GetRun(c)
      PROVE  ViewsAreHistory' /\ NoStaleDecision'
    <2>1. \A d \in Callers : view'[d] =
            IF d = c THEN [status |-> run.status, version |-> run.version] ELSE view[d]
        BY <1>3 DEF GetRun, TypeOK
    <2> QED
        BY <1>3, <2>1 DEF GetRun, TypeOK
<1>4. ASSUME NEW c \in Callers, NEW s \in RunStatuses, TransitionRun(c, s)
      PROVE  ViewsAreHistory' /\ NoStaleDecision'
    <2>1. \A d \in Callers : view'[d] =
            IF d = c THEN [status |-> s, version |-> run.version + 1] ELSE view[d]
        BY <1>4 DEF TransitionRun, TypeOK
    <2>2. run'.status = s /\ run'.version = run.version + 1
        BY <1>4 DEF TransitionRun
    <2>3. run.version \in Nat /\ \A d \in Callers : view[d].version \in Nat
        BY DEF TypeOK
    <2> QED
        BY <2>1, <2>2, <2>3
<1>5. ASSUME NEW c \in Callers, Return(c)
      PROVE  ViewsAreHistory' /\ NoStaleDecision'
    <2>1. \A d \in Callers : view'[d] = IF d = c THEN NoView ELSE view[d]
        BY <1>5 DEF Return, TypeOK
    <2> QED
        BY <1>5, <2>1 DEF Return, TypeOK, NoView
<1> QED
    BY <1>1, <1>2, <1>3, <1>4, <1>5
    DEF vars, Next, Tick, CallerStep, Operation, AcquireLease, ReleaseLease, AssertLease,
        RecordStep, RecordAttempt, ReserveModelAttempt, RecordCheckpoint, CheckPolicyDecision,
        InsertPolicyDecision

\* A call whose expected version is the authoritative one decides on the
\* authoritative status, however many calls share an owner string.
THEOREM NoStaleDecisionHolds == Spec => []NoStaleDecision
<1>1. Init => ViewsAreHistory /\ NoStaleDecision
    BY VersionInit
<1>2. TypeOK /\ ViewsAreHistory /\ NoStaleDecision /\ [Next]_vars
        => ViewsAreHistory' /\ NoStaleDecision'
    BY VersionStep
<1> QED
    BY <1>1, <1>2, TypeCorrect, PTL DEF Spec

------------------------------------------------------------------------------
(* The Model Execution Budget.                                                *)

\* The rows the next reservation is compared with carry the purposes granted.
PurposesStored == purpose = granted

LEMMA PurposesKept == TypeOK /\ PurposesStored /\ [Next]_vars => PurposesStored'
BY DEF PurposesStored, vars, rowVars, journalVars, callerVars, historyVars, Next, Tick, CallerStep, Operation,
       CreateRun, GetRun, AcquireLease, ReleaseLease, AssertLease, TransitionRun, RecordStep,
       RecordAttempt, ReserveModelAttempt, RecordCheckpoint, CheckPolicyDecision,
       InsertPolicyDecision, Return

\* One more member is within a limit that had room.
LEMMA OneMore ==
    ASSUME NEW S, IsFiniteSet(S), NEW T, NEW a, T \subseteq S \cup {a},
           NEW max \in Nat \cup {NoLimit}, HasRoom(Cardinality(S), max)
    PROVE  Within(Cardinality(T), max)
<1>1. IsFiniteSet(S \cup {a}) /\ Cardinality(S \cup {a}) <= Cardinality(S) + 1
    <2>1. IsFiniteSet(S \cup {a})
        BY FS_AddElement
    <2>2. Cardinality(S \cup {a}) = IF a \in S THEN Cardinality(S) ELSE Cardinality(S) + 1
        BY FS_AddElement
    <2>3. Cardinality(S) \in Nat
        BY FS_CardinalityType
    <2> QED
        BY <2>1, <2>2, <2>3
<1>2. IsFiniteSet(T) /\ Cardinality(T) <= Cardinality(S \cup {a})
    BY <1>1, FS_Subset
<1>3. /\ Cardinality(S) \in Nat
      /\ Cardinality(S \cup {a}) \in Nat
      /\ Cardinality(T) \in Nat
    BY <1>1, <1>2, FS_CardinalityType
<1> QED
    BY <1>1, <1>2, <1>3 DEF HasRoom, Within

\* However the reservations of concurrent calls interleave, with takeovers and
\* with the later writes of their attempts, the model requests granted exceed
\* neither run_max_attempts nor the maximum for their purpose; no budget means no
\* limit.
THEOREM BudgetHolds == Spec => []BudgetNeverOverdrawn
<1>1. Init => PurposesStored /\ BudgetNeverOverdrawn
    <2> SUFFICES ASSUME Init PROVE PurposesStored /\ BudgetNeverOverdrawn
        OBVIOUS
    <2>1. ModelAttempts(granted) = {}
        BY DEF Init, ModelAttempts
    <2>2. \A p \in Purposes : PurposeAttempts(granted, p) = {}
        BY DEF Init, PurposeAttempts, Purposes, NoPurpose
    <2>3. Cardinality({}) = 0
        BY FS_EmptySet
    <2>4. \A max \in Nat \cup {NoLimit} : Within(0, max)
        BY DEF Within
    <2>5. /\ RunMaxAttempts \in Nat \cup {NoLimit}
          /\ \A p \in Purposes : PurposeMaxAttempts[p] \in Nat \cup {NoLimit}
        BY BoundsAssumption
    <2>6. BudgetNeverOverdrawn
        BY <2>1, <2>2, <2>3, <2>4, <2>5 DEF BudgetNeverOverdrawn
    <2> QED
        BY <2>6 DEF Init, PurposesStored
<1>2. ASSUME TypeOK, PurposesStored, BudgetNeverOverdrawn, [Next]_vars
      PROVE  BudgetNeverOverdrawn'
    <2>1. CASE UNCHANGED granted
        BY <1>2, <2>1 DEF BudgetNeverOverdrawn, ModelAttempts, PurposeAttempts
    <2>2. ASSUME NEW c \in Callers, NEW s \in StepIds, NEW a \in AttemptIds, NEW p \in Purposes,
                 ReserveModelAttempt(c, s, a, p)
          PROVE  BudgetNeverOverdrawn'
        <3>1. \A b \in AttemptIds : granted'[b] = IF b = a THEN p ELSE granted[b]
            BY <1>2, <2>2 DEF ReserveModelAttempt, TypeOK
        <3>2. /\ IsFiniteSet(ModelAttempts(granted))
              /\ \A q \in Purposes : IsFiniteSet(PurposeAttempts(granted, q))
            BY FiniteAssumption, FS_Subset DEF ModelAttempts, PurposeAttempts
        <3>3. Within(Cardinality(ModelAttempts(granted')), RunMaxAttempts)
            <4>1. ModelAttempts(granted') \subseteq ModelAttempts(granted) \cup {a}
                BY <3>1 DEF ModelAttempts
            <4>2. HasRoom(Cardinality(ModelAttempts(granted)), RunMaxAttempts)
                BY <1>2, <2>2 DEF ReserveModelAttempt, PurposesStored
            <4> QED
                BY <3>2, <4>1, <4>2, OneMore, BoundsAssumption
        <3>4. ASSUME NEW q \in Purposes
              PROVE  Within(Cardinality(PurposeAttempts(granted', q)), PurposeMaxAttempts[q])
            <4>1. CASE q = p
                <5>1. PurposeAttempts(granted', p) \subseteq PurposeAttempts(granted, p) \cup {a}
                    BY <3>1 DEF PurposeAttempts
                <5>2. HasRoom(Cardinality(PurposeAttempts(granted, p)), PurposeMaxAttempts[p])
                    BY <1>2, <2>2 DEF ReserveModelAttempt, PurposesStored
                <5>3. PurposeMaxAttempts[p] \in Nat \cup {NoLimit}
                    BY BoundsAssumption
                <5> QED
                    BY <3>2, <4>1, <5>1, <5>2, <5>3, OneMore
            <4>2. CASE q # p
                <5>2. PurposeAttempts(granted', q) \subseteq PurposeAttempts(granted, q)
                    BY <3>1, <4>2 DEF PurposeAttempts
                <5>3. Cardinality(PurposeAttempts(granted', q)) <= Cardinality(PurposeAttempts(granted, q))
                    BY <3>2, <5>2, FS_Subset
                <5>4. /\ Cardinality(PurposeAttempts(granted', q)) \in Nat
                      /\ Cardinality(PurposeAttempts(granted, q)) \in Nat
                    BY <3>2, <5>2, FS_Subset, FS_CardinalityType
                <5>5. Within(Cardinality(PurposeAttempts(granted, q)), PurposeMaxAttempts[q])
                    BY <1>2 DEF BudgetNeverOverdrawn
                <5>6. PurposeMaxAttempts[q] \in Nat \cup {NoLimit}
                    BY BoundsAssumption
                <5> QED
                    BY <5>3, <5>4, <5>5, <5>6 DEF Within
            <4> QED
                BY <4>1, <4>2
        <3> QED
            BY <3>3, <3>4 DEF BudgetNeverOverdrawn, ModelAttempts, PurposeAttempts
    <2> QED
        BY <1>2, <2>1, <2>2
        DEF vars, rowVars, journalVars, callerVars, historyVars, Next, Tick, CallerStep, Operation,
            CreateRun, GetRun, AcquireLease, ReleaseLease, AssertLease, TransitionRun, RecordStep,
            RecordAttempt, RecordCheckpoint, CheckPolicyDecision, InsertPolicyDecision, Return
<1>3. TypeOK /\ PurposesStored /\ [Next]_vars => PurposesStored'
    BY PurposesKept
<1> QED
    BY <1>1, <1>2, <1>3, TypeCorrect, PTL DEF Spec

------------------------------------------------------------------------------
(* Refinement.                                                                *)

\* The row of the store implements the abstract life of a Run: every operation
\* is one edge of the transition table with one version, or invisible.
THEOREM LifecycleHolds == Spec => LifecycleSpec
<1>1. Init => Lifecycle!Init
    BY DEF Init, Lifecycle!Init, NoReason, Lifecycle!NoReason
<1>2. ASSUME TypeOK, ViewsAreHistory, [Next]_vars PROVE [Lifecycle!Next]_(Lifecycle!vars)
    <2> USE DEF rowVars, Lifecycle!vars
    <2>1. CASE UNCHANGED run
        BY <2>1
    <2>2. ASSUME NEW c \in Callers, CreateRun(c) PROVE Lifecycle!Next
        BY <1>2, <2>2
        DEF CreateRun, ViewsAreHistory, Lifecycle!Next, Lifecycle!Appear, NoReason,
            Lifecycle!NoReason
    <2>3. ASSUME NEW c \in Callers, NEW s \in RunStatuses, TransitionRun(c, s)
          PROVE  Lifecycle!Next
        <3>1. run.status \in RunStatuses
            BY <1>2, <2>3 DEF TransitionRun, Fenced, CurrentVersion, TypeOK
        <3> QED
            BY <2>3, <3>1
            DEF TransitionRun, LegalTransition, Lifecycle!Next, Lifecycle!Advance,
                RunStatuses, AllowedTransitions, WaitingReasons, NoReason, Lifecycle!RunStatuses,
                Lifecycle!AllowedTransitions, Lifecycle!WaitingReasons, Lifecycle!NoReason
    <2> QED
        BY <1>2, <2>1, <2>2, <2>3
        DEF vars, journalVars, callerVars, historyVars, Next, Tick, CallerStep, Operation,
            GetRun, AcquireLease, ReleaseLease, AssertLease, RecordStep,
            RecordAttempt, ReserveModelAttempt, RecordCheckpoint, CheckPolicyDecision,
            InsertPolicyDecision, Return
<1>3. Init => ViewsAreHistory /\ NoStaleDecision
    BY VersionInit
<1>4. TypeOK /\ ViewsAreHistory /\ NoStaleDecision /\ [Next]_vars
        => ViewsAreHistory' /\ NoStaleDecision'
    BY VersionStep
<1> QED
    BY <1>1, <1>2, <1>3, <1>4, TypeCorrect, PTL DEF Spec, LifecycleSpec, Lifecycle!Spec

=============================================================================
