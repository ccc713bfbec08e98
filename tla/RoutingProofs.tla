--------------------------- MODULE RoutingProofs ---------------------------
(***************************************************************************)
(* Proofs about Routing for any number of applications and Runs, any       *)
(* catalogs, policies and snapshots: every decision that was ever made     *)
(* rests on sound evidence, is the best and serves, whatever was           *)
(* collected, published and registered since; decisions are stored as they *)
(* were made and account for their Runs.                                   *)
(***************************************************************************)
EXTENDS Routing, RouterProofs

\* The catalog and the policies are what the Router takes; the identity of a
\* policy names one.
InputTypes ==
    /\ IsCatalog(catalog) /\ \A e \in Range(catalog) : e.definition \in Definitions
    /\ Len(sequence) \in Nat \ {0} /\ DOMAIN sequence = 1..Len(sequence)
    /\ \A n \in DOMAIN sequence : IsPolicy(sequence[n])
    /\ \A m, n \in DOMAIN sequence : sequence[m].identity = sequence[n].identity => m = n
    /\ now \in Nat /\ evidence \subseteq DOMAIN Snapshots

\* The Variants and the policy of a decision are there.
KnownEntry(x) == \E e \in CanonicalEntries(catalog) : Identity(e) = x
Known(m) ==
    /\ KnownEntry(m.decision.id.selected)
    /\ \A x \in DOMAIN m.decision.trace : KnownEntry(x)
    /\ \E n \in DOMAIN sequence : sequence[n].identity = m.decision.id.policy

\* An application holds a decision that was made.
HeldAsMade ==
    \A a \in Apps : held[a] # None => \E m \in made : m.decision = held[a]

\* What is bound exists.
RunsBound == \A b \in bindings : b.run \in Runs /\ runs[b.run] # None

IInv ==
    /\ InputTypes
    /\ runs \in [Runs -> RunRecords \cup {None}] /\ DOMAIN held = Apps
    /\ \A m \in made : Known(m)
    /\ HeldAsMade /\ StoredAsMade /\ RunsBound /\ RunsAccounted
    /\ SoundEvidenceOnly /\ BestSelected /\ SelectedServes

------------------------------------------------------------------------------
(* The inputs only grow. *)

InputsGrow ==
    /\ InputTypes'
    /\ CanonicalEntries(catalog) \subseteq CanonicalEntries(catalog')
    /\ \A n \in DOMAIN sequence : \E k \in DOMAIN sequence' : sequence'[k] = sequence[n]
    /\ evidence' \ Later = evidence \ Later

\* An identity that is known names its entry for ever.
LEMMA EntryStays ==
    ASSUME InputTypes, InputsGrow, NEW x, KnownEntry(x)
    PROVE  /\ EntryOf(x)' = EntryOf(x) /\ KnownEntry(x)'
           /\ EntryOf(x) \in CanonicalEntries(catalog) /\ Identity(EntryOf(x)) = x
<1>1. PICK e \in CanonicalEntries(catalog) : Identity(e) = x
    BY DEF KnownEntry
<1>2. e \in CanonicalEntries(catalog')
    BY DEF InputsGrow
<1>3. \A f \in CanonicalEntries(catalog) : Identity(f) = x => f = e
    BY <1>1, CanonicalFacts DEF InputTypes
<1>4. \A f \in CanonicalEntries(catalog') : Identity(f) = x => f = e
    BY <1>1, <1>2, CanonicalFacts DEF InputsGrow, InputTypes
<1>5. EntryOf(x) = e
    BY <1>1, <1>3 DEF EntryOf
<1>6. EntryOf(x)' = e
    BY <1>1, <1>2, <1>4 DEF EntryOf
<1>7. KnownEntry(x)'
    BY <1>1, <1>2 DEF KnownEntry
<1> QED
    BY <1>1, <1>5, <1>6, <1>7

\* The same within one state.
LEMMA EntryFacts ==
    ASSUME InputTypes, NEW e \in CanonicalEntries(catalog)
    PROVE  EntryOf(Identity(e)) = e /\ KnownEntry(Identity(e))
<1>1. \A f \in CanonicalEntries(catalog) : Identity(f) = Identity(e) => f = e
    BY CanonicalFacts DEF InputTypes
<1> QED
    BY <1>1 DEF EntryOf, KnownEntry

\* The policy of a decision stays.
LEMMA PolicyStays ==
    ASSUME InputTypes, InputsGrow, NEW m, Known(m)
    PROVE  PolicyOf(m)' = PolicyOf(m)
<1>1. PICK n \in DOMAIN sequence : sequence[n].identity = m.decision.id.policy
    BY DEF Known
<1>2. PICK k \in DOMAIN sequence' : sequence'[k] = sequence[n]
    BY DEF InputsGrow
<1>3. \A p \in Range(sequence) : p.identity = m.decision.id.policy => p = sequence[n]
    BY <1>1 DEF InputTypes, Range
<1>4. \A p \in Range(sequence') : p.identity = m.decision.id.policy => p = sequence[n]
    <2>1. \A i, j \in DOMAIN sequence' : sequence'[i].identity = sequence'[j].identity => i = j
        BY DEF InputsGrow, InputTypes
    <2>2. sequence'[k].identity = m.decision.id.policy
        BY <1>1, <1>2
    <2>3. ASSUME NEW j \in DOMAIN sequence', sequence'[j].identity = m.decision.id.policy
          PROVE  sequence'[j] = sequence[n]
        BY <1>2, <2>1, <2>2, <2>3
    <2> QED
        BY <2>3 DEF Range
<1>5. sequence[n] \in Range(sequence) /\ sequence[n] \in Range(sequence')
    BY <1>2 DEF Range
<1>6. PolicyOf(m) = sequence[n]
    BY <1>1, <1>3, <1>5 DEF PolicyOf
<1>7. PolicyOf(m)' = sequence[n]
    BY <1>1, <1>4, <1>5 DEF PolicyOf
<1> QED
    BY <1>6, <1>7

LEMMA PolicyFacts ==
    ASSUME InputTypes, NEW n \in DOMAIN sequence, NEW m,
           m.decision.id.policy = sequence[n].identity
    PROVE  PolicyOf(m) = sequence[n]
<1>1. \A p \in Range(sequence) : p.identity = m.decision.id.policy => p = sequence[n]
    BY DEF InputTypes, Range
<1>2. sequence[n] \in Range(sequence)
    BY DEF Range
<1> QED
    BY <1>1, <1>2 DEF PolicyOf

------------------------------------------------------------------------------
(* What holds of a decision holds for ever. *)

DecisionHolds(m) == Known(m) /\ SoundlyJudged(m) /\ BestOfRanked(m) /\ Served(m)

LEMMA DecisionStays ==
    ASSUME InputTypes, InputsGrow, NEW m, DecisionHolds(m)
    PROVE  DecisionHolds(m)'
<1>1. Known(m)
    BY DEF DecisionHolds
<1>2. PICK p : p = PolicyOf(m)
    OBVIOUS
<1>3. PolicyOf(m)' = p
    BY <1>1, <1>2, PolicyStays
<1>4. PICK e : e = Selected(m.decision)
    OBVIOUS
<1>5. Selected(m.decision)' = e
    BY <1>1, <1>4, EntryStays DEF Known, Selected
<1>6. \A x \in DOMAIN m.decision.trace : EntryOf(x)' = EntryOf(x)
    BY <1>1, EntryStays DEF Known
<1>7. Known(m)'
    <2>1. KnownEntry(m.decision.id.selected)' /\ \A x \in DOMAIN m.decision.trace : KnownEntry(x)'
        BY <1>1, EntryStays DEF Known
    <2>2. \E n \in DOMAIN sequence' : sequence'[n].identity = m.decision.id.policy
        BY <1>1 DEF Known, InputsGrow
    <2> QED
        BY <2>1, <2>2 DEF Known
<1>8. SoundlyJudged(m)'
    <2>1. SoundlyJudged(m)
        BY DEF DecisionHolds
    <2>2. (evidence \ Later)' = evidence \ Later
        BY DEF InputsGrow
    <2> QED
        BY <1>2, <1>3, <1>4, <1>5, <1>6, <2>1, <2>2 DEF SoundlyJudged
<1>9. BestOfRanked(m)'
    <2>1. BestOfRanked(m)
        BY DEF DecisionHolds
    <2> QED
        BY <1>2, <1>3, <2>1 DEF BestOfRanked
<1>10. Served(m)'
    <2>1. Served(m)
        BY DEF DecisionHolds
    <2> QED
        BY <1>2, <1>3, <1>4, <1>5, <2>1 DEF Served
<1> QED
    BY <1>7, <1>8, <1>9, <1>10 DEF DecisionHolds

\* Nothing but the inputs changes.
RestUnchanged == UNCHANGED <<held, storeVars, runs, replacements, made>>

LEMMA InputStep ==
    ASSUME IInv, InputsGrow, RestUnchanged
    PROVE  IInv'
<1>1. /\ held' = held /\ stored' = stored /\ bindings' = bindings /\ runs' = runs
      /\ replacements' = replacements /\ made' = made
    BY DEF RestUnchanged, storeVars
<1>2. InputTypes /\ InputTypes'
    BY DEF IInv, InputsGrow
<1>3. \A m \in made : DecisionHolds(m)
    BY DEF IInv, DecisionHolds, SoundEvidenceOnly, BestSelected, SelectedServes
<1>4. \A m \in made : DecisionHolds(m)'
    BY <1>2, <1>3, DecisionStays
<1>5. \A m \in made' : Known(m)' /\ SoundlyJudged(m)' /\ BestOfRanked(m)' /\ Served(m)'
    BY <1>1, <1>4 DEF DecisionHolds
<1>6. HeldAsMade' /\ StoredAsMade' /\ RunsBound'
    BY <1>1 DEF IInv, HeldAsMade, StoredAsMade, RunsBound
<1>7. RunsAccounted'
    <2>1. ASSUME NEW s \in stored PROVE Selected(s.decision)' = Selected(s.decision)
        <3>1. PICK m \in made : m.decision = s.decision
            BY DEF IInv, StoredAsMade
        <3>2. KnownEntry(s.decision.id.selected)
            BY <3>1 DEF IInv, Known
        <3> QED
            BY <1>2, <3>2, EntryStays DEF Selected
    <2>2. RunsAccounted
        BY DEF IInv
    <2>3. ASSUME NEW b \in bindings
          PROVE  \E s \in stored : /\ s.decision.id = b.decision
                                   /\ runs[b.run].definition = Selected(s.decision)'.definition
                                   /\ runs[b.run].fingerprint =
                                        ContractOf(Selected(s.decision)').fingerprint
        BY <2>1, <2>2 DEF RunsAccounted
    <2> QED
        BY <1>1, <2>2, <2>3 DEF RunsAccounted
<1> QED
    BY <1>1, <1>2, <1>5, <1>6, <1>7
    DEF IInv, SoundEvidenceOnly, BestSelected, SelectedServes

\* Time passes, snapshots arrive.
LEMMA TimeAndEvidence ==
    ASSUME IInv, Tick \/ \E s \in Later : Collect(s)
    PROVE  IInv'
<1>1. /\ catalog' = catalog /\ sequence' = sequence /\ RestUnchanged
      /\ now' \in Nat /\ evidence' \ Later = evidence \ Later /\ evidence' \subseteq DOMAIN Snapshots
    BY InputAssumption DEF IInv, InputTypes, Tick, Collect, RestUnchanged, storeVars
<1>2. InputsGrow
    BY <1>1 DEF IInv, InputsGrow, InputTypes
<1> QED
    BY <1>1, <1>2, InputStep

\* A policy is published before the others.
LEMMA Publication ==
    ASSUME IInv, PublishRecommendation
    PROVE  IInv'
<1>1. PICK base : base = sequence[1]
    OBVIOUS
<1>2. PICK p : p = [base EXCEPT !.identity = base.identity + 1, !.allowed = {Recommended}]
    OBVIOUS
<1>3. sequence' = <<p, base>> /\ Len(sequence) = 1
    BY <1>1, <1>2 DEF PublishRecommendation
<1>4. DOMAIN sequence = {1} /\ IsPolicy(base)
    BY <1>1, <1>3 DEF IInv, InputTypes
<1>5. IsPolicy(p) /\ p.identity # base.identity
    <2>1. base.identity \in Nat
        BY <1>4 DEF IsPolicy
    <2>2. PICK k : k = base.identity + 1
        OBVIOUS
    <2>3. PICK scope : scope = {Recommended}
        OBVIOUS
    <2>4. p = [base EXCEPT !.identity = k, !.allowed = scope]
        BY <1>2, <2>2, <2>3
    <2>5. base = [identity |-> base.identity, allowed |-> base.allowed,
                  requirements |-> base.requirements, regions |-> base.regions,
                  retention |-> base.retention, gates |-> base.gates,
                  objectives |-> base.objectives, soft |-> base.soft]
        BY <1>4 DEF IsPolicy
    <2>6. p = [identity |-> k, allowed |-> scope,
               requirements |-> base.requirements, regions |-> base.regions,
               retention |-> base.retention, gates |-> base.gates,
               objectives |-> base.objectives, soft |-> base.soft]
        BY <2>4, <2>5
    <2>7. k \in Nat /\ k # base.identity
        BY <2>1, <2>2
    <2> QED
        BY <1>4, <2>6, <2>7 DEF IsPolicy
<1>6. /\ DOMAIN sequence' = {1, 2} /\ Len(sequence') = 2 /\ 1..2 = {1, 2}
      /\ sequence'[1] = p /\ sequence'[2] = base
    BY <1>3
<1>7. /\ catalog' = catalog /\ evidence' = evidence /\ now' = now /\ RestUnchanged
    BY DEF PublishRecommendation, RestUnchanged
<1>8. InputTypes'
    BY <1>4, <1>5, <1>6, <1>7 DEF IInv, InputTypes
<1>9. InputsGrow
    BY <1>1, <1>4, <1>6, <1>7, <1>8 DEF InputsGrow
<1> QED
    BY <1>7, <1>9, InputStep

\* A new version of a Variant joins the catalog at its end.
LEMMA Registration ==
    ASSUME IInv, NEW n \in DOMAIN catalog, RegisterVariant(n)
    PROVE  IInv'
<1>1. PICK old : old = catalog[n]
    OBVIOUS
<1>2. PICK policies : policies = old.policies \cup {sequence[1].identity}
    OBVIOUS
<1>3. PICK version : version = old.version + 1
    OBVIOUS
<1>4. PICK new : new = [old EXCEPT !.version = version, !.policies = policies]
    OBVIOUS
<1>5. catalog' = Append(catalog, new)
    BY <1>1, <1>2, <1>3, <1>4 DEF RegisterVariant
<1>6. /\ catalog \in Seq(Range(catalog))
      /\ \A e \in Range(catalog) : IsEntry(e) /\ e.definition \in Definitions
    BY DEF IInv, InputTypes, IsCatalog
<1>7. old \in Range(catalog) /\ IsEntry(old) /\ old.definition \in Definitions
    BY <1>1, <1>6 DEF Range
<1>8. IsEntry(new) /\ new.definition \in Definitions
    <2>1. version \in Nat
        BY <1>3, <1>7 DEF IsEntry
    <2>2. old = [id |-> old.id, version |-> old.version, definition |-> old.definition,
                 binding |-> old.binding, policies |-> old.policies, region |-> old.region,
                 retention |-> old.retention, attempts |-> old.attempts]
        BY <1>7 DEF IsEntry
    <2>3. new = [id |-> old.id, version |-> version, definition |-> old.definition,
                 binding |-> old.binding, policies |-> policies, region |-> old.region,
                 retention |-> old.retention, attempts |-> old.attempts]
        BY <1>4, <2>2
    <2> QED
        BY <1>7, <2>1, <2>3 DEF IsEntry
<1>9. PICK len \in Nat : len = Len(catalog) /\ DOMAIN catalog = 1..len
    BY <1>6
<1>10. /\ DOMAIN catalog' = 1..(len + 1) /\ catalog'[len + 1] = new
       /\ \A k \in 1..len : catalog'[k] = catalog[k]
    BY <1>5, <1>6, <1>9
<1>11. Range(catalog') = Range(catalog) \cup {new}
    BY <1>9, <1>10 DEF Range
<1>12. catalog' \in Seq(Range(catalog'))
    <2>1. catalog \in Seq(Range(catalog) \cup {new})
        BY <1>6
    <2> QED
        BY <1>5, <1>11, <2>1
<1>13. CanonicalEntries(catalog) \subseteq CanonicalEntries(catalog')
    <2> SUFFICES ASSUME NEW e \in CanonicalEntries(catalog)
                 PROVE  e \in CanonicalEntries(catalog')
        OBVIOUS
    <2>1. PICK m \in 1..len : e = catalog[m] /\ \A k \in 1..(m - 1) :
                                    Identity(catalog[k]) # Identity(catalog[m])
        BY <1>9 DEF CanonicalEntries
    <2>2. m \in DOMAIN catalog' /\ catalog'[m] = e
        BY <1>10, <2>1
    <2>3. \A k \in 1..(m - 1) : Identity(catalog'[k]) # Identity(catalog'[m])
        BY <1>10, <2>1
    <2> QED
        BY <2>2, <2>3 DEF CanonicalEntries
<1>14. sequence' = sequence /\ evidence' = evidence /\ now' = now /\ RestUnchanged
    BY DEF RegisterVariant, RestUnchanged
<1>15. InputTypes'
    BY <1>6, <1>8, <1>11, <1>12, <1>14 DEF IInv, InputTypes, IsCatalog
<1>16. InputsGrow
    BY <1>13, <1>14, <1>15 DEF InputsGrow
<1> QED
    BY <1>14, <1>16, InputStep

------------------------------------------------------------------------------
(* Routing. *)

Given == {Snapshots[s] : s \in evidence}

LEMMA GivenIsEvidence ==
    ASSUME InputTypes
    PROVE  IsEvidence(Given)
<1>1. evidence \subseteq DOMAIN Snapshots
    BY DEF InputTypes
<1>2. IsFiniteSet(evidence)
    BY <1>1, InputAssumption, FS_Subset
<1> DEFINE f == [s \in evidence |-> Snapshots[s]]
<1>3. f \in Surjection(evidence, Given)
    BY DEF Surjection, Given
<1>4. IsFiniteSet(Given)
    BY <1>2, <1>3, FS_Surjection
<1>5. \A s \in Given : s # None /\ IsSnapshot(s)
    BY <1>1, InputAssumption DEF Given
<1> QED
    BY <1>4, <1>5 DEF IsEvidence

\* What BestOfRanked says of one candidate x.
Behind(trace, best, x, objectives, warnings) ==
    LET Reading(y) == trace[y].code[2] IN
    /\ \/ Reading(x) = Reading(best) /\ Before(best, x)
       \/ \E n \in DOMAIN objectives :
            /\ \A k \in 1..(n - 1) : Reading(best)[k] = Reading(x)[k]
            /\ Better(Reading(best)[n], Reading(x)[n], objectives[n])
    /\ \A n \in DOMAIN objectives :
        Reading(x)[n] = None => <<x, objectives[n].dimension>> \in warnings

LEMMA OthersBehind ==
    ASSUME NEW c, NEW policy, NEW ev, NEW asOf, Selects(c, policy, ev, asOf),
           NEW result, result = Select(c, policy, ev, asOf),
           NEW e \in CanonicalEntries(c), result.decision.trace[Identity(e)].verdict = "pass",
           Identity(e) # Identity(result.decision.selected)
    PROVE  Behind(result.decision.trace, Identity(result.decision.selected), Identity(e),
                  policy.objectives, result.warnings)
<1> DEFINE trace == Select(c, policy, ev, asOf).decision.trace
           best == Identity(Select(c, policy, ev, asOf).decision.selected)
           warnings == Select(c, policy, ev, asOf).warnings
<1>1. trace[Identity(e)].verdict = "pass" /\ Identity(e) # best
    OBVIOUS
<1>2. Behind(trace, best, Identity(e), policy.objectives, warnings)
    BY <1>1, SelectionIsBest DEF Behind
<1> QED
    BY <1>2

\* A decision that is made holds.
LEMMA RoutedHolds ==
    ASSUME InputTypes, NEW n \in DOMAIN sequence, NEW result,
           result = Select(catalog, sequence[n], Given, now), result.outcome = "SELECTED",
           NEW m, m = [decision |-> DecisionOf(result, sequence[n]), asOf |-> now,
                       warnings |-> result.warnings]
    PROVE  DecisionHolds(m)
<1>1. PICK p : p = sequence[n]
    OBVIOUS
<1>2. Selects(catalog, p, Given, now)
    BY <1>1, GivenIsEvidence DEF Selects, InputTypes
<1>3. PICK best : best = result.decision.selected
    OBVIOUS
<1>4. /\ m.asOf = now /\ m.warnings = result.warnings
      /\ m.decision.id.selected = Identity(best) /\ m.decision.id.policy = p.identity
      /\ m.decision.id.evidence = evidence \cap Later
      /\ m.decision.references = result.decision.references
      /\ m.decision.trace = result.decision.trace
    BY <1>1, <1>3 DEF DecisionOf, EvidenceDigest
<1>5. best \in CanonicalEntries(catalog)
    BY <1>1, <1>2, <1>3, DecisionFacts DEF Survivors
<1>6. DOMAIN m.decision.trace = {Identity(e) : e \in CanonicalEntries(catalog)}
    BY <1>1, <1>2, <1>4, DecisionFacts
<1>7. \A e \in CanonicalEntries(catalog) : EntryOf(Identity(e)) = e /\ KnownEntry(Identity(e))
    BY EntryFacts
<1>8. Selected(m.decision) = best
    BY <1>4, <1>5, <1>7 DEF Selected
<1>9. PolicyOf(m) = p
    BY <1>1, <1>4, PolicyFacts
<1>10. Known(m)
    BY <1>1, <1>4, <1>5, <1>6, <1>7 DEF Known
<1>11. SoundlyJudged(m)
    <2>1. (evidence \ Later) \cup m.decision.id.evidence = evidence
        BY <1>4
    <2> DEFINE Judged(e, k) == \E s \in evidence :
                    Snapshots[s].kind = k /\ Sound(Snapshots[s], e, now)
    <2>2. ASSUME NEW e, NEW k, \E s \in Given : s.kind = k /\ Sound(s, e, now)
          PROVE  Judged(e, k)
        BY <2>2 DEF Given
    <2>3. ASSUME NEW s \in m.decision.references PROVE Sound(Snapshots[s], best, now)
        <3>1. PICK t \in Given : t.name = s /\ Sound(t, best, now)
            BY <1>1, <1>2, <1>3, <1>4, SelectionIsSound
        <3>2. t = Snapshots[s]
            BY <3>1, InputAssumption DEF Given, InputTypes
        <3> QED
            BY <3>1, <3>2
    <2>4. ASSUME NEW x \in DOMAIN m.decision.trace
          PROVE  LET v == m.decision.trace[x] IN
                 /\ v.verdict = "pass" => \A k \in HardKinds(p.gates) : Judged(EntryOf(x), k)
                 /\ v.verdict # "abort"
                 /\ v.verdict = "fail" /\ v.code \in DOMAIN GateKind =>
                        Judged(EntryOf(x), GateKind[v.code])
        <3>1. PICK e \in CanonicalEntries(catalog) : x = Identity(e)
            BY <1>6
        <3>2. EntryOf(x) = e
            BY <1>7, <3>1
        <3>3. PICK v : v = m.decision.trace[x]
            OBVIOUS
        <3>4. /\ v.verdict = "pass" =>
                    \A k \in HardKinds(p.gates) : \E s \in Given : s.kind = k /\ Sound(s, e, now)
              /\ v.verdict # "abort"
              /\ v.verdict = "fail" /\ v.code \in DOMAIN GateKind =>
                    \E s \in Given : s.kind = GateKind[v.code] /\ Sound(s, e, now)
            BY <1>1, <1>2, <1>4, <3>1, <3>3, SelectionIsSound
        <3> HIDE DEF Judged
        <3> QED
            BY <2>2, <3>2, <3>3, <3>4
    <2> QED
        BY <1>4, <1>8, <1>9, <2>1, <2>3, <2>4 DEF SoundlyJudged
<1>12. BestOfRanked(m)
    <2>1. PICK trace, b, objectives, warnings :
            /\ trace = m.decision.trace /\ b = m.decision.id.selected
            /\ objectives = p.objectives /\ warnings = m.warnings
        OBVIOUS
    <2>2. ASSUME NEW x \in DOMAIN trace, trace[x].verdict = "pass", x # b
          PROVE  Behind(trace, b, x, objectives, warnings)
        <3>1. PICK e \in CanonicalEntries(catalog) : x = Identity(e)
            BY <1>6, <2>1, <2>2
        <3>2. /\ trace = result.decision.trace /\ b = Identity(result.decision.selected)
              /\ warnings = result.warnings
            BY <1>3, <1>4, <2>1
        <3> QED
            BY <1>1, <1>2, <2>1, <2>2, <3>1, <3>2, OthersBehind
    <2>3. PolicyOf(m).objectives = objectives
        BY <1>9, <2>1
    <2>4. \A x \in {y \in DOMAIN trace : trace[y].verdict = "pass"} \ {b} :
                Behind(trace, b, x, objectives, warnings)
        BY <2>2
    <2>5. \A x \in {y \in DOMAIN m.decision.trace : m.decision.trace[y].verdict = "pass"}
                        \ {m.decision.id.selected} :
                Behind(m.decision.trace, m.decision.id.selected, x, PolicyOf(m).objectives,
                       m.warnings)
        BY <2>1, <2>3, <2>4
    <2> QED
        BY <2>5 DEF BestOfRanked, Behind
<1>13. Served(m)
    BY <1>1, <1>2, <1>3, <1>8, <1>9, InputAssumption, SelectionServes DEF Served
<1> QED
    BY <1>10, <1>11, <1>12, <1>13 DEF DecisionHolds

\* Nothing moves the inputs.
InputsStay == UNCHANGED inputVars

\* What is said of the inputs and of decisions stays when the inputs do.
LEMMA QuietInputs ==
    ASSUME IInv, InputsStay
    PROVE  /\ InputTypes'
           /\ \A m : DecisionHolds(m)' <=> DecisionHolds(m)
           /\ \A d : Selected(d)' = Selected(d)
<1>1. catalog' = catalog /\ sequence' = sequence /\ evidence' = evidence /\ now' = now
    BY DEF InputsStay, inputVars
<1>2. InputTypes'
    BY <1>1 DEF IInv, InputTypes
<1>3. \A d : Selected(d)' = Selected(d)
    BY <1>1 DEF Selected, EntryOf
<1>4. \A m : DecisionHolds(m)' <=> DecisionHolds(m)
    BY <1>1 DEF DecisionHolds, Known, KnownEntry, SoundlyJudged, BestOfRanked, Served, Selected,
        EntryOf, PolicyOf
<1> QED
    BY <1>2, <1>3, <1>4

LEMMA AllHold == IInv => InputTypes /\ \A m \in made : DecisionHolds(m)
BY DEF IInv, DecisionHolds, SoundEvidenceOnly, BestSelected, SelectedServes

LEMMA RouteStep ==
    ASSUME IInv, NEW a \in Apps, Route(a)
    PROVE  IInv'
<1>1. InputsStay /\ UNCHANGED <<storeVars, runs, replacements>>
    BY DEF Route, InputsStay
<1>2. PICK chosen : /\ chosen = Fallback(catalog, sequence, Given, now)
                    /\ chosen.result.outcome = "SELECTED"
                    /\ held' = [held EXCEPT ![a] = DecisionOf(chosen.result, chosen.policy)]
                    /\ made' = made \cup {[decision |-> DecisionOf(chosen.result, chosen.policy),
                                           asOf |-> now, warnings |-> chosen.result.warnings]}
    BY DEF Route, Given
<1>3. PICK n \in DOMAIN sequence : chosen.policy = sequence[n] /\
            chosen.result = Select(catalog, sequence[n], Given, now)
    BY <1>2, FallbackFacts DEF IInv, InputTypes
<1>4. PICK d : d = DecisionOf(chosen.result, chosen.policy)
    OBVIOUS
<1>5. PICK m : m = [decision |-> d, asOf |-> now, warnings |-> chosen.result.warnings]
    OBVIOUS
<1>6. made' = made \cup {m} /\ held' = [held EXCEPT ![a] = d] /\ m.decision = d
    BY <1>2, <1>4, <1>5
<1>7. DecisionHolds(m)
    BY <1>2, <1>3, <1>4, <1>5, AllHold, RoutedHolds
<1>8. InputTypes' /\ \A x \in made' : DecisionHolds(x)'
    BY <1>1, <1>6, <1>7, AllHold, QuietInputs
<1>9. stored' = stored /\ bindings' = bindings /\ runs' = runs /\ replacements' = replacements
    BY <1>1 DEF storeVars
<1>10. HeldAsMade' /\ DOMAIN held' = Apps
    BY <1>6 DEF IInv, HeldAsMade
<1>11. StoredAsMade' /\ RunsBound'
    BY <1>6, <1>9 DEF IInv, StoredAsMade, RunsBound
<1>12. RunsAccounted'
    BY <1>1, <1>9, QuietInputs DEF IInv, RunsAccounted
<1> QED
    BY <1>8, <1>9, <1>10, <1>11, <1>12
    DEF IInv, DecisionHolds, SoundEvidenceOnly, BestSelected, SelectedServes

------------------------------------------------------------------------------
(* The store and the Runs. *)

\* The inputs and what was made stay.
DecisionsStay == InputsStay /\ made' = made

LEMMA QuietDecisions ==
    ASSUME IInv, DecisionsStay
    PROVE  /\ InputTypes' /\ \A m \in made' : Known(m)'
           /\ SoundEvidenceOnly' /\ BestSelected' /\ SelectedServes'
           /\ \A d : Selected(d)' = Selected(d)
<1>1. \A m \in made' : DecisionHolds(m)'
    BY AllHold, QuietInputs DEF DecisionsStay
<1> QED
    BY <1>1, QuietInputs
    DEF DecisionsStay, DecisionHolds, SoundEvidenceOnly, BestSelected, SelectedServes

\* The entry of a decision that is held is in the catalog.
LEMMA HeldEntry ==
    ASSUME IInv, NEW a \in Apps, held[a] # None
    PROVE  /\ Selected(held[a]).definition \in Definitions
           /\ Selected(held[a]).binding \in DOMAIN Bindings
<1>1. KnownEntry(held[a].id.selected)
    BY DEF IInv, HeldAsMade, Known
<1>2. PICK e \in CanonicalEntries(catalog) : Identity(e) = held[a].id.selected
    BY <1>1 DEF KnownEntry
<1>3. Selected(held[a]) = e
    BY <1>2, EntryFacts DEF IInv, Selected
<1>4. e \in Range(catalog) /\ IsEntry(e)
    BY CanonicalFacts DEF IInv, InputTypes
<1> QED
    BY <1>3, <1>4 DEF IInv, InputTypes, IsEntry

LEMMA SaveAndForget ==
    ASSUME IInv, NEW a \in Apps, SaveDecision(a) \/ Forget(a)
    PROVE  IInv'
<1>1. /\ DecisionsStay /\ bindings' = bindings /\ runs' = runs /\ replacements' = replacements
    BY DEF SaveDecision, Forget, DecisionsStay, InputsStay, storeVars
<1>2. \A d : Selected(d)' = Selected(d)
    BY <1>1, QuietDecisions
<1>3. HeldAsMade' /\ DOMAIN held' = Apps
    BY <1>1 DEF IInv, HeldAsMade, SaveDecision, Forget, DecisionsStay
<1>4. stored \subseteq stored'
    BY DEF SaveDecision, Forget, StoreDecision, storeVars
<1>5. StoredAsMade'
    <2> SUFFICES ASSUME NEW s \in stored'
                 PROVE  \E m \in made : m.decision = s.decision /\ m.decision.id.evidence = s.evidence
        BY <1>1 DEF StoredAsMade, DecisionsStay
    <2>1. CASE s \in stored
        BY <2>1 DEF IInv, StoredAsMade
    <2>2. CASE s \notin stored
        <3>1. PICK ev : /\ held[a] # None /\ held[a].id.evidence = EvidenceDigest(ev)
                        /\ s = [decision |-> held[a], evidence |-> EvidenceDigest(ev)]
            BY <2>2 DEF SaveDecision, Forget, StoreDecision, VerifyPair, storeVars
        <3>2. PICK m \in made : m.decision = held[a]
            BY <3>1 DEF IInv, HeldAsMade
        <3> QED
            BY <3>1, <3>2
    <2> QED
        BY <2>1, <2>2
<1>6. RunsBound' /\ RunsAccounted'
    BY <1>1, <1>2, <1>4 DEF IInv, RunsBound, RunsAccounted
<1> QED
    BY <1>1, <1>3, <1>5, <1>6, QuietDecisions DEF IInv

LEMMA CreateStep ==
    ASSUME IInv, NEW a \in Apps, NEW r \in Runs, CreateRun(a, r)
    PROVE  IInv'
<1>1. /\ DecisionsStay /\ held' = held /\ stored' = stored /\ bindings' = bindings
      /\ replacements' = replacements
    BY DEF CreateRun, DecisionsStay, InputsStay, storeVars
<1>2. held[a] # None /\ runs[r] = None
    BY DEF CreateRun
<1>3. PICK fingerprint \in {ContractOf(Selected(held[a])).fingerprint, None} :
            runs' = [runs EXCEPT ![r] = [definition |-> Selected(held[a]).definition,
                                         fingerprint |-> fingerprint, status |-> "CREATED"]]
    BY DEF CreateRun
<1>4. PICK new : new = [definition |-> Selected(held[a]).definition,
                        fingerprint |-> fingerprint, status |-> "CREATED"]
    OBVIOUS
<1>5. new \in RunRecords
    <2>1. fingerprint \in {Bindings[b].contract.fingerprint : b \in DOMAIN Bindings} \cup {None}
        BY <1>2, <1>3, HeldEntry DEF ContractOf
    <2> QED
        BY <1>2, <1>4, <2>1, HeldEntry DEF RunRecords, RunStatuses
<1>6. /\ runs' \in [Runs -> RunRecords \cup {None}]
      /\ \A x \in Runs : runs[x] # None => runs'[x] = runs[x]
    BY <1>2, <1>3, <1>4, <1>5 DEF IInv
<1>7. \A b \in bindings : b.run \in Runs /\ runs'[b.run] = runs[b.run] /\ runs[b.run] # None
    BY <1>6 DEF IInv, RunsBound
<1>8. RunsBound'
    BY <1>1, <1>7 DEF RunsBound
<1>9. RunsAccounted'
    <2>1. \A d : Selected(d)' = Selected(d)
        BY <1>1, QuietDecisions
    <2>2. RunsAccounted
        BY DEF IInv
    <2>3. \A x \in replacements : runs'[x.before.run].status \in TERMINAL_STATUSES
        BY <1>7, <2>2 DEF RunsAccounted
    <2> QED
        BY <1>1, <1>7, <2>1, <2>2, <2>3 DEF RunsAccounted
<1>10. HeldAsMade' /\ StoredAsMade'
    BY <1>1 DEF IInv, HeldAsMade, StoredAsMade, DecisionsStay
<1> QED
    BY <1>1, <1>6, <1>8, <1>9, <1>10, QuietDecisions DEF IInv

LEMMA BindStep ==
    ASSUME IInv, NEW a \in Apps, NEW r \in Runs, BindRun(a, r)
    PROVE  IInv'
<1>1. /\ DecisionsStay /\ held' = held /\ stored' = stored /\ runs' = runs
      /\ replacements' = replacements
    BY DEF BindRun, DecisionsStay, InputsStay
<1>2. PICK b : b = [decision |-> held[a].id, run |-> r]
    OBVIOUS
<1>3. bindings' = bindings \cup {b} /\ b.run = r /\ b.decision = held[a].id
    BY <1>2 DEF BindRun
<1>4. /\ runs[r] # None /\ runs[r].definition = Selected(held[a]).definition
      /\ runs[r].fingerprint = ContractOf(Selected(held[a])).fingerprint
    BY DEF BindRun, Binds
<1>5. PICK s \in stored : s.decision.id = held[a].id
    BY DEF BindRun
<1>6. Selected(s.decision) = Selected(held[a])
    BY <1>5 DEF Selected
<1>7. RunsBound'
    BY <1>1, <1>3, <1>4 DEF IInv, RunsBound
<1>8. RunsAccounted'
    <2>1. \A d : Selected(d)' = Selected(d)
        BY <1>1, QuietDecisions
    <2>2. RunsAccounted
        BY DEF IInv
    <2> QED
        BY <1>1, <1>3, <1>4, <1>5, <1>6, <2>1, <2>2 DEF RunsAccounted
<1>9. HeldAsMade' /\ StoredAsMade'
    BY <1>1 DEF IInv, HeldAsMade, StoredAsMade, DecisionsStay
<1> QED
    BY <1>1, <1>7, <1>8, <1>9, QuietDecisions DEF IInv

LEMMA EndStep ==
    ASSUME IInv, NEW r \in Runs, RunEnds(r)
    PROVE  IInv'
<1>1. /\ DecisionsStay /\ held' = held /\ stored' = stored /\ bindings' = bindings
      /\ replacements' = replacements
    BY DEF RunEnds, DecisionsStay, InputsStay, storeVars
<1>2. /\ runs[r] \in RunRecords /\ runs[r].status \notin TERMINAL_STATUSES
      /\ runs' = [runs EXCEPT ![r] = [runs[r] EXCEPT !.status = "FAILED"]]
    BY DEF RunEnds, IInv
<1>3. PICK new : new = [runs[r] EXCEPT !.status = "FAILED"]
    OBVIOUS
<1>4. /\ new \in RunRecords /\ new.definition = runs[r].definition
      /\ new.fingerprint = runs[r].fingerprint
    <2>1. "FAILED" \in RunStatuses
        BY DEF RunStatuses
    <2> QED
        BY <1>2, <1>3, <2>1 DEF RunRecords
<1>5. new # None
    BY <1>4, InputAssumption
<1>6. /\ runs' \in [Runs -> RunRecords \cup {None}]
      /\ runs'[r] = new /\ \A x \in Runs : x # r => runs'[x] = runs[x]
    BY <1>2, <1>3, <1>4 DEF IInv
<1>7. RunsBound'
    BY <1>1, <1>5, <1>6 DEF IInv, RunsBound
<1>8. ASSUME NEW b \in bindings
      PROVE  /\ runs'[b.run].definition = runs[b.run].definition
             /\ runs'[b.run].fingerprint = runs[b.run].fingerprint
             /\ (runs[b.run].status \in TERMINAL_STATUSES => runs'[b.run] = runs[b.run])
    <2>1. b.run \in Runs
        BY DEF IInv, RunsBound
    <2> QED
        BY <1>2, <1>4, <1>6, <2>1
<1>9. RunsAccounted'
    <2>1. \A d : Selected(d)' = Selected(d)
        BY <1>1, QuietDecisions
    <2>2. RunsAccounted
        BY DEF IInv
    <2>3. ASSUME NEW b \in bindings
          PROVE  \E s \in stored : /\ s.decision.id = b.decision
                                   /\ runs'[b.run].definition = Selected(s.decision)'.definition
                                   /\ runs'[b.run].fingerprint =
                                        ContractOf(Selected(s.decision)').fingerprint
        <3>1. PICK s \in stored : /\ s.decision.id = b.decision
                                  /\ runs[b.run].definition = Selected(s.decision).definition
                                  /\ runs[b.run].fingerprint =
                                        ContractOf(Selected(s.decision)).fingerprint
            BY <2>2 DEF RunsAccounted
        <3>2. /\ runs'[b.run].definition = runs[b.run].definition
              /\ runs'[b.run].fingerprint = runs[b.run].fingerprint
            BY <1>8
        <3>3. Selected(s.decision)' = Selected(s.decision)
            BY <2>1
        <3> QED
            BY <3>1, <3>2, <3>3
    <2>4. ASSUME NEW x \in replacements PROVE runs'[x.before.run].status \in TERMINAL_STATUSES
        <3>1. x.before \in bindings /\ runs[x.before.run].status \in TERMINAL_STATUSES
            BY <2>2 DEF RunsAccounted
        <3>2. runs'[x.before.run] = runs[x.before.run]
            BY <1>8, <3>1
        <3> QED
            BY <3>1, <3>2
    <2> QED
        BY <1>1, <2>2, <2>3, <2>4 DEF RunsAccounted
<1>10. HeldAsMade' /\ StoredAsMade'
    BY <1>1 DEF IInv, HeldAsMade, StoredAsMade, DecisionsStay
<1> QED
    BY <1>1, <1>6, <1>7, <1>9, <1>10, QuietDecisions DEF IInv

LEMMA ReplaceStep ==
    ASSUME IInv, ReplaceRun
    PROVE  IInv'
<1>1. /\ DecisionsStay /\ held' = held /\ stored' = stored /\ bindings' = bindings /\ runs' = runs
    BY DEF ReplaceRun, DecisionsStay, InputsStay, storeVars
<1>2. PICK before \in bindings, after \in bindings :
            /\ Replaceable(before, after)
            /\ replacements' = replacements \cup {[before |-> before, after |-> after]}
    BY DEF ReplaceRun
<1>3. RunsAccounted'
    <2>1. \A d : Selected(d)' = Selected(d)
        BY <1>1, QuietDecisions
    <2> QED
        BY <1>1, <1>2, <2>1 DEF IInv, RunsAccounted, Replaceable
<1>4. HeldAsMade' /\ StoredAsMade' /\ RunsBound'
    BY <1>1 DEF IInv, HeldAsMade, StoredAsMade, RunsBound, DecisionsStay
<1> QED
    BY <1>1, <1>3, <1>4, QuietDecisions DEF IInv

------------------------------------------------------------------------------
(* The theorems. *)

LEMMA InvInit == Init => IInv
<1> SUFFICES ASSUME Init PROVE IInv
    OBVIOUS
<1>1. PICK s \in Setups : catalog = s.catalog /\ sequence = <<s.policy>> /\ evidence = s.evidence
    BY DEF Init
<1>2. IsCatalog(catalog) /\ \A e \in Range(catalog) : e.definition \in Definitions
    BY <1>1, InputAssumption DEF IsCatalog, Definitions
<1>3. DOMAIN sequence = {1} /\ Len(sequence) = 1 /\ 1..1 = {1} /\ sequence[1] = s.policy
    BY <1>1
<1>4. InputTypes
    BY <1>1, <1>2, <1>3, InputAssumption DEF Init, InputTypes
<1> QED
    BY <1>4 DEF Init, IInv, HeldAsMade, StoredAsMade, RunsBound, RunsAccounted, SoundEvidenceOnly,
        BestSelected, SelectedServes

LEMMA InvStep == IInv /\ [Next]_vars => IInv'
<1> SUFFICES ASSUME IInv, [Next]_vars PROVE IInv'
    OBVIOUS
<1>1. CASE UNCHANGED vars
    <2>1. /\ DecisionsStay /\ held' = held /\ stored' = stored /\ bindings' = bindings
          /\ runs' = runs /\ replacements' = replacements
        BY <1>1 DEF vars, DecisionsStay, InputsStay, storeVars
    <2>2. HeldAsMade' /\ StoredAsMade' /\ RunsBound'
        BY <2>1 DEF IInv, HeldAsMade, StoredAsMade, RunsBound, DecisionsStay
    <2>3. RunsAccounted'
        BY <2>1, QuietDecisions DEF IInv, RunsAccounted
    <2> QED
        BY <2>1, <2>2, <2>3, QuietDecisions DEF IInv
<1>2. CASE Tick \/ \E s \in Later : Collect(s)
    BY <1>2, TimeAndEvidence
<1>3. CASE PublishRecommendation
    BY <1>3, Publication
<1>4. CASE \E n \in DOMAIN catalog : RegisterVariant(n)
    BY <1>4, Registration
<1>5. ASSUME NEW a \in Apps, Route(a) \/ SaveDecision(a) \/ Forget(a) PROVE IInv'
    BY <1>5, RouteStep, SaveAndForget
<1>6. ASSUME NEW a \in Apps, NEW r \in Runs, CreateRun(a, r) \/ BindRun(a, r) PROVE IInv'
    BY <1>6, CreateStep, BindStep
<1>7. ASSUME NEW r \in Runs, RunEnds(r) PROVE IInv'
    BY <1>7, EndStep
<1>8. CASE ReplaceRun
    BY <1>8, ReplaceStep
<1> QED
    BY <1>1, <1>2, <1>3, <1>4, <1>5, <1>6, <1>7, <1>8 DEF Next

LEMMA Invariance == Spec => []IInv
<1> QED
    BY InvInit, InvStep, PTL DEF Spec

\* Whatever has been collected, published or registered since, no decision that
\* was ever made rests on evidence that was missing, stale, drifted or broken.
THEOREM SoundEvidenceOnlyHolds == Spec => []SoundEvidenceOnly
<1>1. IInv => SoundEvidenceOnly
    BY DEF IInv
<1> QED
    BY <1>1, Invariance, PTL

\* The selected Variant is ahead of every other ranked one, in the order of the
\* decision's own policy.
THEOREM BestSelectedHolds == Spec => []BestSelected
<1>1. IInv => BestSelected
    BY DEF IInv
<1> QED
    BY <1>1, Invariance, PTL

\* The selected Contract serves the policy and the Variant's own bindings, each
\* in one request.
THEOREM SelectedServesHolds == Spec => []SelectedServes
<1>1. IInv => SelectedServes
    BY DEF IInv
<1> QED
    BY <1>1, Invariance, PTL

\* A decision is stored with the evidence it was made from, although more may
\* have been collected before it was saved.
THEOREM StoredAsMadeHolds == Spec => []StoredAsMade
<1>1. IInv => StoredAsMade
    BY DEF IInv
<1> QED
    BY <1>1, Invariance, PTL

\* A bound Run has the Definition and the frozen Contract of a stored decision,
\* and a replaced Run has ended.
THEOREM RunsAccountedHolds == Spec => []RunsAccounted
<1>1. IInv => RunsAccounted
    BY DEF IInv
<1> QED
    BY <1>1, Invariance, PTL

\* What the Routing Store has is never rewritten.
THEOREM AuditTrailGrowsHolds == Spec => AuditTrailGrows
<1>1. [Next]_vars => [stored \subseteq stored' /\ bindings \subseteq bindings']_vars
    BY DEF Next, vars, storeVars, Tick, Collect, PublishRecommendation, RegisterVariant, Route,
        SaveDecision, StoreDecision, Forget, CreateRun, BindRun, RunEnds, ReplaceRun
<1> QED
    BY <1>1, PTL DEF Spec, AuditTrailGrows
=============================================================================
