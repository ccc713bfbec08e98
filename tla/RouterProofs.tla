---------------------------- MODULE RouterProofs ----------------------------
(***************************************************************************)
(* What the Router's selection guarantees, for every catalog, policy, set  *)
(* of snapshots and time: the operators of ModelMatch and ModelRouter.     *)
(***************************************************************************)
EXTENDS ModelRouter, TLAPS, FiniteSetTheorems

------------------------------------------------------------------------------
(* Least elements of finite orders. *)

\* R orders X: irreflexive and transitive.
StrictOrder(R, X) ==
    /\ \A x \in X : <<x, x>> \notin R
    /\ \A x, y, z \in X : <<x, y>> \in R /\ <<y, z>> \in R => <<x, z>> \in R

\* A finite set that is ordered has an element that nothing goes before.
LEMMA FirstOfFinite ==
    ASSUME NEW X, IsFiniteSet(X), X # {}, NEW R, StrictOrder(R, X)
    PROVE  \E x \in X : \A y \in X : <<y, x>> \notin R
<1> DEFINE Behind(x) == {y \in X : <<y, x>> \in R}
           T == {Behind(x) : x \in X}
<1>1. IsWellFoundedOn(StrictSubsetOrdering(X), FiniteSubsetsOf(X))
    BY FS_StrictSubsetOrderingWellFounded
<1>2. FiniteSubsetsOf(X) = SUBSET X
    BY FS_FiniteSubsetsOfFinite
<1>3. T \subseteq SUBSET X /\ T # {}
    OBVIOUS
<1>4. \E t \in T : \A u \in T : <<u, t>> \notin StrictSubsetOrdering(X)
    <2> HIDE DEF T
    <2> QED
        BY <1>1, <1>2, <1>3, WFMin
<1>5. PICK x \in X : \A u \in T : <<u, Behind(x)>> \notin StrictSubsetOrdering(X)
    BY <1>4
<1>6. ASSUME NEW y \in X, <<y, x>> \in R PROVE FALSE
    <2>1. Behind(y) \subseteq Behind(x)
        BY <1>6 DEF StrictOrder
    <2>2. y \in Behind(x) /\ y \notin Behind(y)
        BY <1>6 DEF StrictOrder
    <2>3. Behind(y) # Behind(x)
        BY <2>2
    <2>4. <<Behind(y), Behind(x)>> \in StrictSubsetOrdering(X)
        BY <2>1, <2>3 DEF StrictSubsetOrdering
    <2> QED
        BY <1>5, <2>4
<1> QED
    BY <1>6

\* A set of positions that is not empty has a first.
LEMMA FirstPosition ==
    ASSUME NEW n \in Nat, NEW S, S \subseteq 1..n, S # {}
    PROVE  \E i \in S : \A j \in S : i <= j
<1> DEFINE R == {p \in S \X S : p[1] < p[2]}
<1>1. IsFiniteSet(S)
    <2>1. IsFiniteSet(1..n)
        <3>1. 1 \in Int /\ n \in Int
            OBVIOUS
        <3> QED
            BY <3>1, FS_Interval
    <2>2. S \in SUBSET (1..n)
        OBVIOUS
    <2> QED
        BY <2>1, <2>2, FS_Subset
<1>2. StrictOrder(R, S)
    BY DEF StrictOrder
<1>3. PICK i \in S : \A j \in S : <<j, i>> \notin R
    <2> HIDE DEF R
    <2> QED BY <1>1, <1>2, FirstOfFinite
<1>4. \A j \in S : ~(j < i)
    BY <1>3
<1> QED
    BY <1>4

------------------------------------------------------------------------------
(* match *)

LEMMA ProtocolFacts ==
    /\ Protocols[1] = "streaming" /\ Protocols[2] = "tool_calling"
    /\ Protocols[3] = "structured_output" /\ Protocols[4] = "usage_reporting"
    /\ DOMAIN Protocols = 1..4
    /\ ProtocolSet = {"streaming", "tool_calling", "structured_output", "usage_reporting"}
<1>1. DOMAIN Protocols = 1..4
    BY DEF Protocols
<1>2. /\ Protocols[1] = "streaming" /\ Protocols[2] = "tool_calling"
      /\ Protocols[3] = "structured_output" /\ Protocols[4] = "usage_reporting"
    BY DEF Protocols
<1>3. 1..4 = {1, 2, 3, 4}
    OBVIOUS
<1>4. ProtocolSet = {Protocols[n] : n \in 1..4}
    BY <1>1 DEF ProtocolSet, Range
<1>5. ProtocolSet = {Protocols[1], Protocols[2], Protocols[3], Protocols[4]}
    BY <1>3, <1>4
<1> QED
    BY <1>1, <1>2, <1>5

\* FirstUnsupported names a protocol unless all serve.
LEMMA AllSupported ==
    ASSUME NEW caps, NEW required, FirstUnsupported(caps, required) = "SATISFIED"
    PROVE  CombinationSupports(caps.modes, required)
<1> DEFINE missing == {i \in DOMAIN Protocols :
                        ~ModeSupports(caps.modes[Protocols[i]], required[Protocols[i]])}
           first == CHOOSE i \in missing : \A j \in missing : i <= j
<1>1. ASSUME missing # {} PROVE FALSE
    <2>1. missing \subseteq 1..4
        BY ProtocolFacts
    <2>2. \E i \in missing : \A j \in missing : i <= j
        <3> HIDE DEF missing
        <3> QED
            BY <2>1, <1>1, FirstPosition
    <2>3. first \in missing
        <3> HIDE DEF missing
        <3> QED
            BY <2>2
    <2>4. first \in 1..4
        BY <2>1, <2>3
    <2>5. Protocols[first] # "SATISFIED"
        <3> HIDE DEF first
        <3> QED
            BY <2>4, ProtocolFacts
    <2>6. FirstUnsupported(caps, required) = Protocols[first]
        BY <1>1 DEF FirstUnsupported
    <2> QED
        BY <2>5, <2>6
<1>2. \A n \in 1..4 : ModeSupports(caps.modes[Protocols[n]], required[Protocols[n]])
    BY <1>1, ProtocolFacts
<1> QED
    BY <1>2, ProtocolFacts DEF CombinationSupports

\* The usage report a Contract guarantees is merged into the requirement.
LEMMA EffectiveIsWanted ==
    ASSUME NEW q, IsRequirements(q), NEW contract, contract.usageRequired \in BOOLEAN
    PROVE  \A p \in ProtocolSet :
                EffectiveFor(q.modes, contract)[p] =
                    [q.modes EXCEPT !["usage_reporting"] =
                        IF contract.usageRequired THEN "PROVIDER_REPORTED" ELSE @][p]
<1>1. ASSUME NEW p \in ProtocolSet, p # "usage_reporting"
      PROVE  MergedModes(q.modes, [NoModes EXCEPT !["usage_reporting"] = "PROVIDER_REPORTED"])[p]
                = q.modes[p]
    BY <1>1 DEF MergedModes, NoModes, ModeSupports
<1>2. MergedModes(q.modes, [NoModes EXCEPT !["usage_reporting"] = "PROVIDER_REPORTED"])["usage_reporting"]
        = "PROVIDER_REPORTED"
    <2>1. "usage_reporting" \in ProtocolSet
        BY ProtocolFacts
    <2>2. q.modes["usage_reporting"] \in {"NONE", "PROVIDER_REPORTED"}
        BY <2>1 DEF IsRequirements, Modes
    <2> QED
        BY <2>1, <2>2 DEF MergedModes, NoModes, ModeSupports
<1> QED
    BY <1>1, <1>2, ProtocolFacts DEF EffectiveFor, IsRequirements

\* At most one element.
LEMMA AtMostOne ==
    ASSUME NEW S, IsFiniteSet(S), Cardinality(S) <= 1
    PROVE  \A x, y \in S : x = y
<1>1. Cardinality(S) \in Nat
    BY FS_CardinalityType
<1>2. Cardinality(S) = 0 \/ Cardinality(S) = 1
    BY <1>1
<1> QED
    BY <1>2, FS_EmptySet, FS_Singleton

\* A Contract that matches a requirement serves it, in one request.
THEOREM MatchServes ==
    ASSUME NEW q, IsRequirements(q), NEW contract,
           contract.window \in Nat, contract.output \in Nat, contract.usageRequired \in BOOLEAN,
           Match(q, contract) = "SATISFIED"
    PROVE  Serves(contract, q)
<1> DEFINE caps == contract.capabilities
           required == EffectiveFor(q.modes, contract)
           wanted == [q.modes EXCEPT !["usage_reporting"] =
                        IF contract.usageRequired THEN "PROVIDER_REPORTED" ELSE @]
           alone == {[NoModes EXCEPT ![p] = caps.modes[p]] : p \in ProtocolSet}
           first == FirstUnsupported(caps, required)
<1>1. /\ first = "SATISFIED" /\ Supports(caps, required)
      /\ contract.window >= q.minWindow /\ contract.output >= q.minOutput
    <2> DEFINE ok == Supports(caps, required)
    <2>1. Match(q, contract) =
            CASE first # "SATISFIED" -> first
              [] first = "SATISFIED" /\ ~ok -> "combination"
              [] OTHER -> IF contract.window < q.minWindow THEN "context_window"
                          ELSE IF contract.output < q.minOutput THEN "max_output"
                          ELSE "SATISFIED"
        BY DEF Match
    <2> HIDE DEF first, ok
    <2>2. first = "SATISFIED" /\ ok
        BY <2>1
    <2>3. ~(contract.window < q.minWindow) /\ ~(contract.output < q.minOutput)
        BY <2>1, <2>2
    <2> QED
        BY <2>2, <2>3 DEF IsRequirements, ok
<1>2. \A p \in ProtocolSet : required[p] = wanted[p]
    BY EffectiveIsWanted
<1>3. \E usable \in caps.combinations \cup alone : CombinationSupports(usable, required)
    <2>1. CASE \E c \in caps.combinations : CombinationSupports(c, required)
        BY <2>1
    <2>2. CASE Cardinality(Active(required)) <= 1
        <3>1. IsFiniteSet(Active(required))
            <4>1. IsFiniteSet(ProtocolSet)
                <5>1. IsFiniteSet({"streaming"})
                    BY FS_Singleton
                <5>2. IsFiniteSet({"streaming"} \cup {"tool_calling"})
                    BY <5>1, FS_AddElement
                <5>3. IsFiniteSet({"streaming"} \cup {"tool_calling"} \cup {"structured_output"})
                    BY <5>2, FS_AddElement
                <5>4. IsFiniteSet({"streaming"} \cup {"tool_calling"} \cup {"structured_output"}
                                    \cup {"usage_reporting"})
                    BY <5>3, FS_AddElement
                <5>5. ProtocolSet = {"streaming"} \cup {"tool_calling"} \cup {"structured_output"}
                                    \cup {"usage_reporting"}
                    BY ProtocolFacts
                <5> QED
                    BY <5>4, <5>5
            <4> QED
                BY <4>1, FS_Subset DEF Active
        <3>2. PICK x \in ProtocolSet : \A p \in ProtocolSet : required[p] # "NONE" => p = x
            <4>1. \A p, r \in Active(required) : p = r
                BY <2>2, <3>1, AtMostOne
            <4>2. CASE Active(required) = {}
                BY <4>2, ProtocolFacts DEF Active
            <4>3. CASE Active(required) # {}
                BY <4>1, <4>3 DEF Active
            <4> QED
                BY <4>2, <4>3
        <3>3. CombinationSupports([NoModes EXCEPT ![x] = caps.modes[x]], required)
            <4>1. ModeSupports(caps.modes[x], required[x])
                BY <1>1 DEF Supports, CombinationSupports
            <4>2. \A p \in ProtocolSet : p # x => required[p] = "NONE"
                BY <3>2
            <4> QED
                BY <4>1, <4>2 DEF CombinationSupports, NoModes, ModeSupports
        <3> QED
            BY <3>3
    <2> QED
        BY <1>1, <2>1, <2>2 DEF Supports, SupportsCombination
<1>4. \E usable \in caps.combinations \cup alone : CombinationSupports(usable, wanted)
    <2> HIDE DEF required, wanted, alone
    <2> QED
        BY <1>2, <1>3 DEF CombinationSupports
<1> QED
    BY <1>1, <1>4 DEF Serves

------------------------------------------------------------------------------
(* Evidence *)

\* Snapshots the Router can be given.
IsEvidence(ev) == IsFiniteSet(ev) /\ \A s \in ev : s # None /\ IsSnapshot(s)

\* The latest snapshot is one of its kind and subject: finitely many have a last.
LEMMA LatestFacts ==
    ASSUME NEW ev, IsEvidence(ev), NEW kind, NEW e, Latest(ev, kind, e) # None
    PROVE  /\ Latest(ev, kind, e) \in ev
           /\ Latest(ev, kind, e).kind = kind /\ Latest(ev, kind, e).subject = Identity(e)
<1> DEFINE matching == {s \in ev : s.kind = kind /\ s.subject = Identity(e)}
           Newest(s) == \A t \in matching : t.at < s.at \/ (t.at = s.at /\ t.version <= s.version)
           R == {p \in matching \X matching :
                    p[2].at < p[1].at \/ (p[2].at = p[1].at /\ p[2].version < p[1].version)}
<1>1. matching # {} /\ Latest(ev, kind, e) = CHOOSE s \in matching : Newest(s)
    BY DEF Latest
<1>2. \A s \in matching : s.at \in Nat /\ s.version \in Nat
    BY DEF IsEvidence, IsSnapshot
<1>3. IsFiniteSet(matching)
    BY FS_Subset DEF IsEvidence
<1>4. StrictOrder(R, matching)
    <2> HIDE DEF matching
    <2> QED
        BY <1>2 DEF StrictOrder
<1>5. PICK s \in matching : \A t \in matching : <<t, s>> \notin R
    <2> HIDE DEF R, matching
    <2> QED
        BY <1>1, <1>3, <1>4, FirstOfFinite
<1>6. Newest(s)
    <2> SUFFICES ASSUME NEW t \in matching
                 PROVE  t.at < s.at \/ (t.at = s.at /\ t.version <= s.version)
        OBVIOUS
    <2>1. ~(s.at < t.at \/ (s.at = t.at /\ s.version < t.version))
        <3>1. <<t, s>> \in matching \X matching /\ <<t, s>>[1] = t /\ <<t, s>>[2] = s
            OBVIOUS
        <3> HIDE DEF matching
        <3> QED
            BY <1>5, <3>1
    <2> HIDE DEF matching
    <2> QED
        BY <1>2, <2>1
<1>7. (CHOOSE x \in matching : Newest(x)) \in matching
    <2> HIDE DEF matching, Newest
    <2> QED
        BY <1>6
<1>8. Latest(ev, kind, e) \in matching
    BY <1>1, <1>7
<1> QED
    BY <1>8

\* A snapshot the Router takes for VALID is sound evidence of its kind.
LEMMA ValidIsSound ==
    ASSUME NEW ev, IsEvidence(ev), NEW kind, NEW e, NEW asOf \in Nat,
           Status(ev, kind, e, asOf) = "VALID"
    PROVE  /\ Latest(ev, kind, e) \in ev /\ Latest(ev, kind, e).kind = kind
           /\ Sound(Latest(ev, kind, e), e, asOf)
<1>1. PICK s : s = Latest(ev, kind, e)
    OBVIOUS
<1>2. SnapshotStatus(s, e, asOf) = "VALID"
    BY <1>1 DEF Status
<1>3. s # None
    BY <1>2 DEF SnapshotStatus
<1>4. s \in ev /\ s.kind = kind /\ s.subject = Identity(e)
    BY <1>1, <1>3, LatestFacts
<1>5. s.until \in Nat /\ s.at \in Nat
    BY <1>4 DEF IsEvidence, IsSnapshot
<1>6. ~(s.until < asOf) /\ ~(s.kind = "PRICING" /\ s.at > asOf)
    BY <1>2, <1>3 DEF SnapshotStatus
<1>7. s.kind \in Sealed => s.intact /\ s.fingerprint \in {None, ContractOf(e).fingerprint}
    BY <1>2, <1>3 DEF SnapshotStatus
<1>8. Sound(s, e, asOf)
    BY <1>4, <1>5, <1>6, <1>7 DEF Sound
<1> QED
    BY <1>1, <1>4, <1>8

\* The first of several verdicts that stops a candidate.
LEMMA FirstVerdictFacts ==
    ASSUME NEW n \in Nat, NEW vs, DOMAIN vs = 1..n
    PROVE  \/ (\A i \in 1..n : vs[i].verdict = "pass") /\ FirstVerdict(vs) = Pass
           \/ \E i \in 1..n : vs[i].verdict # "pass" /\ FirstVerdict(vs) = vs[i]
<1> DEFINE stops == {i \in DOMAIN vs : vs[i].verdict # "pass"}
           first == CHOOSE i \in stops : \A j \in stops : i <= j
<1>1. CASE stops = {}
    BY <1>1 DEF FirstVerdict
<1>2. CASE stops # {}
    <2>1. stops \subseteq 1..n
        OBVIOUS
    <2>2. \E i \in stops : \A j \in stops : i <= j
        <3> HIDE DEF stops
        <3> QED
            BY <1>2, <2>1, FirstPosition
    <2>3. first \in stops
        <3> HIDE DEF stops
        <3> QED
            BY <2>2
    <2>4. FirstVerdict(vs) = vs[first]
        BY <1>2 DEF FirstVerdict
    <2> HIDE DEF first
    <2> QED
        BY <2>3, <2>4
<1> QED
    BY <1>1, <1>2

\* A gate that was declared and passed, or that failed with its code, rests on a
\* VALID snapshot.
Settled(v, declared, kind, code, e, ev, asOf) ==
    /\ v.verdict = "pass" /\ declared => Status(ev, kind, e, asOf) = "VALID"
    /\ v.verdict = "fail" => v.code = code /\ Status(ev, kind, e, asOf) = "VALID"

LEMMA GatesSettled ==
    ASSUME NEW e, NEW gates, NEW ev, NEW asOf
    PROVE  LET v == HardGates(e, gates, ev, asOf)
               Valid(kind) == Status(ev, kind, e, asOf) = "VALID"
           IN  /\ v.verdict = "pass" => \A k \in HardKinds(gates) : Valid(k)
               /\ v.verdict = "fail" => v.code \in DOMAIN GateKind /\ Valid(GateKind[v.code])
<1> DEFINE g1 == Gate(gates.maxPrice # None, "PRICING", e, ev, asOf,
                      LAMBDA s : s.input <= gates.maxPrice, "HARD_PRICE_GATE_FAILED")
           g2 == Gate(gates.minQuality # None, "MODEL_EVIDENCE", e, ev, asOf,
                      LAMBDA s : s.quality >= gates.minQuality, "HARD_QUALITY_GATE_FAILED")
           g3 == Gate(gates.availability, "AVAILABILITY", e, ev, asOf,
                      LAMBDA s : s.available, "HARD_AVAILABILITY_GATE_FAILED")
           g4 == LimitsVerdict(e, gates.minQuota, ev, asOf)
           g5 == CostVerdict(e, gates.costCap, ev, asOf)
           vs == <<g1, g2, g3, g4, g5>>
<1>1. Settled(g1, gates.maxPrice # None, "PRICING", "HARD_PRICE_GATE_FAILED", e, ev, asOf)
    BY DEF Settled, Gate, Pass, PassIf, Filtered, Abort
<1>2. Settled(g2, gates.minQuality # None, "MODEL_EVIDENCE", "HARD_QUALITY_GATE_FAILED", e, ev, asOf)
    BY DEF Settled, Gate, Pass, PassIf, Filtered, Abort
<1>3. Settled(g3, gates.availability, "AVAILABILITY", "HARD_AVAILABILITY_GATE_FAILED", e, ev, asOf)
    BY DEF Settled, Gate, Pass, PassIf, Filtered, Abort
<1>4. Settled(g4, gates.minQuota # None, "OPERATIONAL_LIMITS", "HARD_OPERATIONAL_LIMIT_GATE_FAILED",
              e, ev, asOf)
    BY DEF Settled, LimitsVerdict, Gate, Pass, PassIf, Filtered, Abort
<1>5. Settled(g5, gates.costCap # None, "PRICING", "HARD_COST_GATE_FAILED", e, ev, asOf)
    BY DEF Settled, CostVerdict, EstimateRunCost, Status, Pass, PassIf, Filtered, Abort
<1>6. HardGates(e, gates, ev, asOf) = FirstVerdict(vs)
    BY DEF HardGates
<1> HIDE DEF g1, g2, g3, g4, g5
<1>7. /\ DOMAIN vs = 1..5
      /\ vs[1] = g1 /\ vs[2] = g2 /\ vs[3] = g3 /\ vs[4] = g4 /\ vs[5] = g5
    OBVIOUS
<1> HIDE DEF vs
<1>8. Pass.verdict = "pass"
    BY DEF Pass
<1>9. PICK v : v = FirstVerdict(vs)
    OBVIOUS
<1>10. ASSUME v.verdict = "pass", NEW k \in HardKinds(gates)
       PROVE  Status(ev, k, e, asOf) = "VALID"
    <2>1. \A i \in 1..5 : vs[i].verdict = "pass"
        BY <1>7, <1>9, <1>10, FirstVerdictFacts
    <2>2. g1.verdict = "pass" /\ g2.verdict = "pass" /\ g3.verdict = "pass" /\ g4.verdict = "pass"
          /\ g5.verdict = "pass"
        BY <1>7, <2>1
    <2> QED
        BY <1>1, <1>2, <1>3, <1>4, <1>5, <1>10, <2>2 DEF Settled, HardKinds
<1>11. ASSUME v.verdict = "fail"
       PROVE  v.code \in DOMAIN GateKind /\ Status(ev, GateKind[v.code], e, asOf) = "VALID"
    <2>1. PICK i \in 1..5 : v = vs[i]
        BY <1>7, <1>8, <1>9, <1>11, FirstVerdictFacts
    <2>2. v \in {g1, g2, g3, g4, g5}
        BY <1>7, <2>1
    <2> QED
        BY <1>1, <1>2, <1>3, <1>4, <1>5, <1>11, <2>2 DEF Settled, GateKind
<1> QED
    BY <1>6, <1>9, <1>10, <1>11

\* A compatible candidate matches what its bindings and the policy require; an
\* incompatible one is filtered under a code that is not a gate's.
LEMMA CompatibilityFacts ==
    ASSUME NEW e, NEW policy, NEW ev, NEW asOf
    PROVE  LET v == Compatibility(e, policy, ev, asOf) IN
           /\ v.verdict = "pass" =>
                /\ Match(Bindings[e.binding].requirements, ContractOf(e)) = "SATISFIED"
                /\ Match(policy.requirements, ContractOf(e)) = "SATISFIED"
           /\ v.verdict = "fail" => v.code \notin DOMAIN GateKind
<1> DEFINE own == Match(Bindings[e.binding].requirements, ContractOf(e)) = "SATISFIED"
           asked == Match(policy.requirements, ContractOf(e)) = "SATISFIED"
           v1 == PassIf(policy.identity \in e.policies, "NOT_REGISTERED_FOR_POLICY")
           v2 == PassIf(policy.allowed = None \/ Identity(e) \in policy.allowed,
                        "NOT_IN_CANDIDATE_SCOPE")
           v3 == PassIf(own, "MODEL_REQUIREMENTS")
           v4 == PassIf(asked, "MODEL_REQUIREMENTS")
           v5 == PassIf(policy.regions = None \/ e.region \in policy.regions, "REGION_NOT_ALLOWED")
           v6 == RetentionVerdict(e, policy, ev, asOf)
           vs == <<v1, v2, v3, v4, v5, v6>>
           Plain(x) == x.verdict = "fail" => x.code \notin DOMAIN GateKind
<1>1. Compatibility(e, policy, ev, asOf) = FirstVerdict(vs)
    BY DEF Compatibility
<1>2. DOMAIN GateKind = {"HARD_PRICE_GATE_FAILED", "HARD_COST_GATE_FAILED",
                         "HARD_QUALITY_GATE_FAILED", "HARD_AVAILABILITY_GATE_FAILED",
                         "HARD_OPERATIONAL_LIMIT_GATE_FAILED"}
    BY DEF GateKind
<1>3. Plain(v1) /\ Plain(v2) /\ Plain(v3) /\ Plain(v4) /\ Plain(v5)
    BY <1>2 DEF PassIf, Pass, Filtered
<1>4. Plain(v6)
    BY <1>2 DEF RetentionVerdict, Gate, PassIf, Pass, Filtered, Abort
<1>5. (v3.verdict = "pass" => own) /\ (v4.verdict = "pass" => asked)
    BY DEF PassIf, Pass, Filtered
<1> HIDE DEF v1, v2, v3, v4, v5, v6, own, asked, Plain
<1>6. /\ DOMAIN vs = 1..6
      /\ vs[1] = v1 /\ vs[2] = v2 /\ vs[3] = v3 /\ vs[4] = v4 /\ vs[5] = v5 /\ vs[6] = v6
    OBVIOUS
<1> HIDE DEF vs
<1>7. PICK v : v = FirstVerdict(vs)
    OBVIOUS
<1>8. ASSUME v.verdict = "pass" PROVE own /\ asked
    <2>1. \A i \in 1..6 : vs[i].verdict = "pass"
        BY <1>6, <1>7, <1>8, FirstVerdictFacts
    <2> QED
        BY <1>5, <1>6, <2>1
<1>9. Plain(v)
    <2>1. CASE v = Pass
        BY <2>1 DEF Plain, Pass
    <2>2. CASE \E i \in 1..6 : v = vs[i]
        BY <1>3, <1>4, <1>6, <2>2
    <2> QED
        BY <1>6, <1>7, <2>1, <2>2, FirstVerdictFacts
<1> QED
    BY <1>1, <1>7, <1>8, <1>9 DEF own, asked, Plain

------------------------------------------------------------------------------
(* Ordering *)

Values == Nat \cup {None}

\* _compare_objective orders the values, None first or last.
LEMMA CompareFacts ==
    ASSUME NEW a \in Values, NEW b \in Values, NEW o \in Objectives
    PROVE  LET cmp == CompareObjective(a, b, o) IN
           /\ cmp \in {-1, 0, 1} /\ (cmp = 0 <=> a = b)
           /\ cmp > 0 => Better(b, a, o)
           /\ (cmp < 0 <=> Better(a, b, o))
<1>1. /\ o.direction \in {"MINIMIZE", "MAXIMIZE"}
      /\ o.missing \in {"ORDER_FIRST", "ORDER_LAST"}
    BY DEF Objectives
<1>2. CASE a = None \/ b = None
    BY <1>1, <1>2, NoneAssumption DEF CompareObjective, Better, Values
<1>3. CASE a \in Nat /\ b \in Nat
    BY <1>1, <1>3, NoneAssumption DEF CompareObjective, Better, Values
<1> QED
    BY <1>2, <1>3 DEF Values

LEMMA BetterIsTransitive ==
    ASSUME NEW a \in Values, NEW b \in Values, NEW c \in Values, NEW o \in Objectives,
           Better(a, b, o), Better(b, c, o)
    PROVE  Better(a, c, o)
BY NoneAssumption DEF Better, Values, Objectives

\* What the comparator looks at in the candidates of X.
Comparable(X, objectives, readings) ==
    /\ objectives \in Seq(Objectives)
    /\ \A x \in X : /\ x.id \in Nat /\ x.version \in Nat
                    /\ \A n \in DOMAIN objectives : readings[x][n] \in Values

\* x goes before y: equal in all objectives and before it by identity, or better
\* in the first objective in which they differ.
Ahead(x, y, objectives, readings) ==
    \/ (\A n \in DOMAIN objectives : readings[x][n] = readings[y][n]) /\ Before(Identity(x), Identity(y))
    \/ \E n \in DOMAIN objectives :
            /\ \A k \in 1..(n - 1) : readings[x][k] = readings[y][k]
            /\ Better(readings[x][n], readings[y][n], objectives[n])

LEMMA GoesBeforeIsAhead ==
    ASSUME NEW X, NEW objectives, NEW readings, Comparable(X, objectives, readings),
           NEW x \in X, NEW y \in X
    PROVE  GoesBefore(x, y, objectives, readings) <=> Ahead(x, y, objectives, readings)
<1> DEFINE cmp == [n \in DOMAIN objectives |->
                    CompareObjective(readings[x][n], readings[y][n], objectives[n])]
           tell == {n \in DOMAIN objectives : cmp[n] # 0}
           first == CHOOSE n \in tell : \A m \in tell : n <= m
<1>1. PICK len \in Nat : DOMAIN objectives = 1..len
    BY DEF Comparable
<1>2. \A n \in 1..len : /\ objectives[n] \in Objectives
                         /\ readings[x][n] \in Values /\ readings[y][n] \in Values
    BY <1>1 DEF Comparable
<1>3. \A n \in 1..len : /\ cmp[n] = CompareObjective(readings[x][n], readings[y][n], objectives[n])
                         /\ (n \in tell <=> cmp[n] # 0)
    BY <1>1
<1>4. \A n \in 1..len : /\ (n \in tell <=> readings[x][n] # readings[y][n])
                         /\ (cmp[n] < 0 <=> Better(readings[x][n], readings[y][n], objectives[n]))
    BY <1>2, <1>3, CompareFacts
<1>5. GoesBefore(x, y, objectives, readings) =
        IF tell = {} THEN Before(Identity(x), Identity(y)) ELSE cmp[first] < 0
    BY DEF GoesBefore
<1>6. tell \subseteq 1..len
    BY <1>1
<1>7. CASE tell = {}
    <2>1. \A n \in 1..len : readings[x][n] = readings[y][n]
        BY <1>4, <1>7
    <2>2. \A n \in 1..len : ~Better(readings[x][n], readings[y][n], objectives[n])
        BY <2>1 DEF Better
    <2> QED
        BY <1>1, <1>5, <1>7, <2>1, <2>2 DEF Ahead
<1>8. CASE tell # {}
    <2> HIDE DEF tell, cmp
    <2>1. first \in tell /\ \A m \in tell : first <= m
        BY <1>6, <1>8, FirstPosition
    <2> HIDE DEF first
    <2>2. first \in 1..len /\ readings[x][first] # readings[y][first]
        BY <1>4, <1>6, <2>1
    <2>3. \A k \in 1..(first - 1) : readings[x][k] = readings[y][k]
        BY <1>4, <1>6, <2>1, <2>2
    <2>4. ASSUME NEW n \in 1..len, \A k \in 1..(n - 1) : readings[x][k] = readings[y][k],
                 Better(readings[x][n], readings[y][n], objectives[n])
          PROVE  n = first
        <3>1. n \in tell
            BY <1>4, <2>4 DEF Better
        <3>2. ~(first < n)
            BY <2>2, <2>4
        <3> QED
            BY <2>1, <2>2, <3>1, <3>2
    <2> QED
        BY <1>1, <1>4, <1>5, <1>8, <2>2, <2>3, <2>4 DEF Ahead
<1> QED
    BY <1>7, <1>8

LEMMA AheadIsOrder ==
    ASSUME NEW X, NEW objectives, NEW readings, Comparable(X, objectives, readings)
    PROVE  /\ \A x \in X : ~Ahead(x, x, objectives, readings)
           /\ \A x, y, z \in X :
                Ahead(x, y, objectives, readings) /\ Ahead(y, z, objectives, readings) =>
                    Ahead(x, z, objectives, readings)
<1>1. PICK len \in Nat : DOMAIN objectives = 1..len
    BY DEF Comparable
<1>2. \A n \in 1..len : objectives[n] \in Objectives /\ \A x \in X : readings[x][n] \in Values
    BY <1>1 DEF Comparable
<1>3. ASSUME NEW x \in X PROVE ~Ahead(x, x, objectives, readings)
    BY DEF Ahead, Before, Identity, Better, Comparable
<1>4. ASSUME NEW x \in X, NEW y \in X, NEW z \in X,
             Ahead(x, y, objectives, readings), Ahead(y, z, objectives, readings)
      PROVE  Ahead(x, z, objectives, readings)
    <2> DEFINE Same(a, b) == \A n \in 1..len : readings[a][n] = readings[b][n]
               At(a, b, n) == /\ \A k \in 1..(n - 1) : readings[a][k] = readings[b][k]
                              /\ Better(readings[a][n], readings[b][n], objectives[n])
    <2>1. \A a, b \in X : Ahead(a, b, objectives, readings) <=>
            (\/ Same(a, b) /\ Before(Identity(a), Identity(b))
             \/ \E n \in 1..len : At(a, b, n))
        BY <1>1 DEF Ahead
    <2>2. CASE Same(x, y) /\ Same(y, z)
        <3>1. Same(x, z)
            BY <2>2
        <3>2. ~(\E n \in 1..len : At(x, y, n)) /\ ~(\E n \in 1..len : At(y, z, n))
            BY <2>2 DEF Better
        <3>3. Before(Identity(x), Identity(y)) /\ Before(Identity(y), Identity(z))
            BY <1>4, <2>1, <3>2
        <3>4. Before(Identity(x), Identity(z))
            BY <3>3 DEF Before, Identity, Comparable
        <3> QED
            BY <2>1, <3>1, <3>4
    <2>3. ASSUME NEW n \in 1..len, At(x, y, n), Same(y, z) PROVE Ahead(x, z, objectives, readings)
        <3>1. At(x, z, n)
            BY <1>2, <2>3
        <3> QED
            BY <2>1, <3>1
    <2>4. ASSUME NEW n \in 1..len, At(y, z, n), Same(x, y) PROVE Ahead(x, z, objectives, readings)
        <3>1. At(x, z, n)
            BY <1>2, <2>4
        <3> QED
            BY <2>1, <3>1
    <2>5. ASSUME NEW m \in 1..len, NEW n \in 1..len, At(x, y, m), At(y, z, n)
          PROVE  Ahead(x, z, objectives, readings)
        <3>1. CASE m < n
            <4>1. At(x, z, m)
                BY <1>2, <2>5, <3>1
            <4> QED
                BY <2>1, <4>1
        <3>2. CASE n < m
            <4>1. At(x, z, n)
                BY <1>2, <2>5, <3>2
            <4> QED
                BY <2>1, <4>1
        <3>3. CASE m = n
            <4>1. Better(readings[x][n], readings[z][n], objectives[n])
                BY <1>2, <2>5, <3>3, BetterIsTransitive
            <4>2. At(x, z, n)
                BY <2>5, <3>3, <4>1
            <4> QED
                BY <2>1, <4>2
        <3> QED
            BY <3>1, <3>2, <3>3
    <2> QED
        BY <1>4, <2>1, <2>2, <2>3, <2>4, <2>5
<1> QED
    BY <1>3, <1>4

\* Of two candidates with different identities one goes before the other.
LEMMA AheadIsTotal ==
    ASSUME NEW X, NEW objectives, NEW readings, Comparable(X, objectives, readings),
           NEW x \in X, NEW y \in X, Identity(x) # Identity(y)
    PROVE  Ahead(x, y, objectives, readings) \/ Ahead(y, x, objectives, readings)
<1>1. PICK len \in Nat : DOMAIN objectives = 1..len
    BY DEF Comparable
<1>2. \A n \in 1..len : /\ objectives[n] \in Objectives
                         /\ readings[x][n] \in Values /\ readings[y][n] \in Values
    BY <1>1 DEF Comparable
<1> DEFINE tell == {n \in 1..len : readings[x][n] # readings[y][n]}
<1>3. CASE tell = {}
    <2>1. \A n \in 1..len : readings[x][n] = readings[y][n]
        BY <1>3
    <2>2. Before(Identity(x), Identity(y)) \/ Before(Identity(y), Identity(x))
        BY DEF Before, Identity, Comparable
    <2> QED
        BY <1>1, <2>1, <2>2 DEF Ahead
<1>4. CASE tell # {}
    <2>1. tell \subseteq 1..len
        OBVIOUS
    <2>2. PICK n \in tell : \A m \in tell : n <= m
        <3> HIDE DEF tell
        <3> QED
            BY <1>4, <2>1, FirstPosition
    <2>3. n \in 1..len /\ readings[x][n] # readings[y][n]
        BY <2>2
    <2>4. \A k \in 1..(n - 1) : readings[x][k] = readings[y][k]
        BY <2>2, <2>3
    <2>5. \/ Better(readings[x][n], readings[y][n], objectives[n])
          \/ Better(readings[y][n], readings[x][n], objectives[n])
        BY <1>2, <2>3, CompareFacts
    <2> QED
        BY <1>1, <2>3, <2>4, <2>5 DEF Ahead
<1> QED
    BY <1>3, <1>4

\* The sort has a first candidate, and all others are behind it.
LEMMA RankOneIsFirst ==
    ASSUME NEW objectives, NEW readings, IsFiniteSet(DOMAIN readings), DOMAIN readings # {},
           Comparable(DOMAIN readings, objectives, readings)
    PROVE  /\ \E e \in DOMAIN readings : Rank(e, readings, objectives) = 1
           /\ \A e \in DOMAIN readings : Rank(e, readings, objectives) = 1 =>
                \A y \in DOMAIN readings :
                    Identity(y) # Identity(e) => Ahead(e, y, objectives, readings)
<1> DEFINE X == DOMAIN readings
           Behind(e) == {y \in X : GoesBefore(y, e, objectives, readings)}
           R == {p \in X \X X : Ahead(p[1], p[2], objectives, readings)}
<1>1. \A x, y \in X : <<x, y>> \in R <=> Ahead(x, y, objectives, readings)
    OBVIOUS
<1>2. StrictOrder(R, X)
    <2> HIDE DEF R
    <2> QED
        BY <1>1, AheadIsOrder DEF StrictOrder
<1>3. PICK first \in X : \A y \in X : <<y, first>> \notin R
    <2> HIDE DEF R
    <2> QED
        BY <1>2, FirstOfFinite
<1>4. \A x, y \in X : GoesBefore(x, y, objectives, readings) <=> Ahead(x, y, objectives, readings)
    BY GoesBeforeIsAhead
<1>5. ASSUME NEW e \in X PROVE Rank(e, readings, objectives) = 1 <=> Behind(e) = {}
    <2>1. IsFiniteSet(Behind(e))
        BY FS_Subset
    <2>2. Rank(e, readings, objectives) = 1 + Cardinality(Behind(e))
        BY DEF Rank
    <2> HIDE DEF Behind
    <2>3. Cardinality(Behind(e)) \in Nat
        BY <2>1, FS_CardinalityType
    <2> QED
        BY <2>1, <2>2, <2>3, FS_EmptySet
<1>6. Behind(first) = {}
    BY <1>1, <1>3, <1>4
<1>7. ASSUME NEW e \in X, Behind(e) = {}, NEW y \in X, Identity(y) # Identity(e)
      PROVE  Ahead(e, y, objectives, readings)
    <2>1. ~Ahead(y, e, objectives, readings)
        BY <1>4, <1>7
    <2> QED
        BY <1>7, <2>1, AheadIsTotal
<1> QED
    BY <1>5, <1>6, <1>7

------------------------------------------------------------------------------
(* select *)

IsCatalog(c) == c \in Seq(Range(c)) /\ \A e \in Range(c) : IsEntry(e)

\* Canonical entries are entries, and an identity names one of them.
LEMMA CanonicalFacts ==
    ASSUME NEW c, IsCatalog(c)
    PROVE  /\ CanonicalEntries(c) \subseteq Range(c) /\ IsFiniteSet(CanonicalEntries(c))
           /\ \A e \in CanonicalEntries(c) : IsEntry(e)
           /\ \A e, f \in CanonicalEntries(c) : Identity(e) = Identity(f) => e = f
<1>1. PICK len \in Nat : DOMAIN c = 1..len
    BY DEF IsCatalog
<1> DEFINE firsts == {m \in DOMAIN c : \A k \in 1..(m - 1) : Identity(c[k]) # Identity(c[m])}
<1>2. CanonicalEntries(c) = {c[n] : n \in firsts}
    BY DEF CanonicalEntries
<1>3. CanonicalEntries(c) \subseteq Range(c)
    BY <1>2 DEF Range
<1>4. IsFiniteSet(CanonicalEntries(c))
    <2>1. IsFiniteSet(firsts)
        <3>1. 1 \in Int /\ len \in Int
            OBVIOUS
        <3>2. IsFiniteSet(1..len)
            BY <3>1, FS_Interval
        <3> QED
            BY <1>1, <3>2, FS_Subset
    <2> DEFINE f == [n \in firsts |-> c[n]]
    <2>2. f \in Surjection(firsts, CanonicalEntries(c))
        <3> HIDE DEF firsts
        <3> QED
            BY <1>2 DEF Surjection
    <2> QED
        BY <2>1, <2>2, FS_Surjection
<1>5. ASSUME NEW e \in CanonicalEntries(c), NEW f \in CanonicalEntries(c), Identity(e) = Identity(f)
      PROVE  e = f
    <2>1. PICK m \in firsts : e = c[m]
        BY <1>2
    <2>2. PICK n \in firsts : f = c[n]
        BY <1>2
    <2>3. m \in 1..len /\ n \in 1..len
        BY <1>1
    <2>4. ~(m < n) /\ ~(n < m)
        BY <1>5, <2>1, <2>2, <2>3
    <2> QED
        BY <2>1, <2>2, <2>3, <2>4
<1> QED
    BY <1>3, <1>4, <1>5 DEF IsCatalog

\* What a selection judges, and what is left of it.
Judgements(c, policy, ev, asOf) == {Judge(e, policy, ev, asOf) : e \in CanonicalEntries(c)}
Survivors(c, policy, ev, asOf) ==
    {e \in CanonicalEntries(c) : Judge(e, policy, ev, asOf).stage = "gates"
                                    /\ Judge(e, policy, ev, asOf).verdict = "pass"}
SurvivorReadings(c, policy, ev, asOf) ==
    [e \in Survivors(c, policy, ev, asOf) |-> Readings(e, policy, ev, asOf)]

\* A verdict keeps its candidate, and says what its stage says.
LEMMA JudgeFacts ==
    ASSUME NEW e, NEW policy, NEW ev, NEW asOf
    PROVE  LET j == Judge(e, policy, ev, asOf)
               compatibility == Compatibility(e, policy, ev, asOf)
               gates == HardGates(e, policy.gates, ev, asOf)
           IN  /\ j.entry = e
               /\ \/ /\ j.stage = "gates" /\ compatibility.verdict = "pass"
                     /\ j.verdict = gates.verdict /\ j.code = gates.code
                  \/ /\ j.stage = "compatibility" /\ compatibility.verdict # "pass"
                     /\ j.verdict = compatibility.verdict /\ j.code = compatibility.code
BY DEF Judge

\* A selection was made from complete verdicts, of which none lacked evidence.
LEMMA SelectFacts ==
    ASSUME NEW c, NEW policy, NEW ev, NEW asOf,
           Select(c, policy, ev, asOf).outcome = "SELECTED"
    PROVE  /\ \A j \in Judgements(c, policy, ev, asOf) : j.verdict # "abort"
           /\ Survivors(c, policy, ev, asOf) # {}
           /\ Select(c, policy, ev, asOf).decision =
                Decide(Judgements(c, policy, ev, asOf), SurvivorReadings(c, policy, ev, asOf),
                       policy, ev, asOf)
           /\ Select(c, policy, ev, asOf).warnings =
                Warnings(Survivors(c, policy, ev, asOf), policy, ev, asOf)
<1> DEFINE judged == Judgements(c, policy, ev, asOf)
           At(stage, verdict) == {j \in judged : j.stage = stage /\ j.verdict = verdict}
           survivors == {j.entry : j \in At("gates", "pass")}
           Least(stage) == CHOOSE j \in At(stage, "abort") : \A k \in At(stage, "abort") :
                                k = j \/ Before(Identity(j.entry), Identity(k.entry))
           Unavailable(stage) == NoDecision("EVIDENCE_UNAVAILABLE", Least(stage).code)
           decision == Decide(judged, [e \in survivors |-> Readings(e, policy, ev, asOf)],
                              policy, ev, asOf)
           warnings == Warnings(survivors, policy, ev, asOf)
<1>1. Select(c, policy, ev, asOf) = Conclude(judged, policy, ev, asOf)
    BY DEF Select, NoDecision, Judgements
<1>2. Conclude(judged, policy, ev, asOf) =
        IF At("compatibility", "abort") # {} THEN Unavailable("compatibility")
        ELSE IF \A j \in judged : j.stage = "compatibility"
        THEN NoDecision("NO_COMPATIBLE_VARIANT", "NO_COMPATIBLE_VARIANT")
        ELSE IF At("gates", "abort") # {} THEN Unavailable("gates")
        ELSE IF survivors = {} THEN NoDecision("POLICY_UNSATISFIED", "POLICY_UNSATISFIED")
        ELSE [outcome |-> "SELECTED", code |-> "SELECTED", decision |-> decision,
              warnings |-> warnings]
    BY DEF Conclude
<1>3. survivors = Survivors(c, policy, ev, asOf)
    BY JudgeFacts DEF Judgements, Survivors
<1>4. ASSUME NEW j \in judged PROVE j.stage \in {"gates", "compatibility"}
    BY JudgeFacts DEF Judgements
<1> HIDE DEF judged, survivors, Least, decision, warnings
<1>5. /\ At("compatibility", "abort") = {} /\ At("gates", "abort") = {} /\ survivors # {}
      /\ Conclude(judged, policy, ev, asOf) =
            [outcome |-> "SELECTED", code |-> "SELECTED", decision |-> decision,
             warnings |-> warnings]
    <2> HIDE DEF At
    <2> QED
        BY <1>1, <1>2 DEF NoDecision
<1>6. \A j \in judged : j.verdict # "abort"
    BY <1>4, <1>5
<1>7. /\ Select(c, policy, ev, asOf).decision = decision
      /\ Select(c, policy, ev, asOf).warnings = warnings
    BY <1>1, <1>5
<1> QED
    BY <1>3, <1>5, <1>6, <1>7 DEF judged, decision, warnings, SurvivorReadings

\* A selection on inputs of the right types.
Selects(c, policy, ev, asOf) ==
    /\ IsCatalog(c) /\ IsPolicy(policy) /\ IsEvidence(ev) /\ asOf \in Nat
    /\ Select(c, policy, ev, asOf).outcome = "SELECTED"

\* The readings of a candidate are values.
LEMMA ReadingFacts ==
    ASSUME NEW e, NEW policy, IsPolicy(policy), NEW ev, IsEvidence(ev), NEW asOf
    PROVE  /\ DOMAIN Readings(e, policy, ev, asOf) = DOMAIN policy.objectives
           /\ \A n \in DOMAIN policy.objectives : Readings(e, policy, ev, asOf)[n] \in Values
<1>1. DOMAIN Readings(e, policy, ev, asOf) = DOMAIN policy.objectives
    BY DEF Readings
<1>2. ASSUME NEW n \in DOMAIN policy.objectives
      PROVE  Readings(e, policy, ev, asOf)[n] \in Values
    <2>1. PICK dimension : dimension = policy.objectives[n].dimension
        OBVIOUS
    <2>2. policy.objectives[n] \in Objectives
        BY DEF IsPolicy
    <2>3. dimension \in {"COST", "QUALITY", "LATENCY"}
        BY <2>1, <2>2 DEF Objectives
    <2>4. Readings(e, policy, ev, asOf)[n] = ObjectiveValue(e, dimension, ev, asOf)
        BY <2>1 DEF Readings
    <2>5. PICK s : s = Latest(ev, KindOf(dimension), e)
        OBVIOUS
    <2>6. CASE SnapshotStatus(s, e, asOf) # "VALID"
        BY <2>4, <2>5, <2>6 DEF ObjectiveValue, Values
    <2>7. CASE SnapshotStatus(s, e, asOf) = "VALID"
        <3>1. s # None
            BY <2>7 DEF SnapshotStatus
        <3>2. s \in ev
            BY <2>5, <3>1, LatestFacts
        <3>3. s.input \in Values /\ s.quality \in Values /\ s.latency \in Values
            BY <3>2 DEF IsEvidence, IsSnapshot, Values
        <3>4. ObjectiveValue(e, dimension, ev, asOf) =
                CASE dimension = "COST" -> s.input
                  [] dimension = "QUALITY" -> s.quality
                  [] dimension = "LATENCY" -> s.latency
            BY <2>5, <2>7 DEF ObjectiveValue
        <3> QED
            BY <2>3, <2>4, <3>3, <3>4
    <2> QED
        BY <2>6, <2>7
<1> QED
    BY <1>1, <1>2

\* The decision: its trace has the verdict on every candidate, and it selects a
\* survivor that is ahead of all others.
LEMMA DecisionFacts ==
    ASSUME NEW c, NEW policy, NEW ev, NEW asOf, Selects(c, policy, ev, asOf)
    PROVE  LET d == Select(c, policy, ev, asOf).decision
               readings == SurvivorReadings(c, policy, ev, asOf)
           IN  /\ d.selected \in Survivors(c, policy, ev, asOf)
               /\ \A e \in Survivors(c, policy, ev, asOf) : Identity(e) # Identity(d.selected) =>
                    Ahead(d.selected, e, policy.objectives, readings)
               /\ d.references = {s.name : s \in References(d.selected, policy, ev, asOf)}
               /\ DOMAIN d.trace = {Identity(e) : e \in CanonicalEntries(c)}
               /\ \A e \in CanonicalEntries(c) :
                    LET j == Judge(e, policy, ev, asOf)
                        traced == d.trace[Identity(e)]
                    IN  /\ traced.verdict = j.verdict
                        /\ j.verdict # "pass" => traced.code = j.code
                        /\ j.verdict = "pass" => e \in Survivors(c, policy, ev, asOf)
                                                /\ traced.code[2] = readings[e]
<1> DEFINE judged == Judgements(c, policy, ev, asOf)
           survivors == Survivors(c, policy, ev, asOf)
           readings == SurvivorReadings(c, policy, ev, asOf)
           rank == [e \in DOMAIN readings |-> Rank(e, readings, policy.objectives)]
           best == CHOOSE e \in DOMAIN readings : rank[e] = 1
           Traced(j) == [verdict |-> j.verdict,
                         code |-> IF j.verdict = "pass" THEN <<rank[j.entry], readings[j.entry]>>
                                  ELSE j.code]
           trace == [x \in {Identity(j.entry) : j \in judged} |->
                        Traced(CHOOSE j \in judged : Identity(j.entry) = x)]
           d == Select(c, policy, ev, asOf).decision
<1>1. /\ d.selected = best /\ d.trace = trace
      /\ d.references = {s.name : s \in References(best, policy, ev, asOf)}
    <2>1. d = Decide(judged, readings, policy, ev, asOf)
        BY SelectFacts DEF Selects
    <2> HIDE DEF judged, readings, d
    <2> QED
        BY <2>1 DEF Decide
<1>2. DOMAIN readings = survivors /\ survivors # {} /\ survivors \subseteq CanonicalEntries(c)
    <2>1. survivors # {}
        BY SelectFacts DEF Selects
    <2>2. DOMAIN readings = survivors
        BY DEF SurvivorReadings
    <2>3. survivors \subseteq CanonicalEntries(c)
        BY DEF Survivors
    <2> QED
        BY <2>1, <2>2, <2>3
<1>3. IsFiniteSet(survivors)
    BY <1>2, CanonicalFacts, FS_Subset DEF Selects
<1>4. Comparable(survivors, policy.objectives, readings)
    <2>1. policy.objectives \in Seq(Objectives)
        BY DEF Selects, IsPolicy
    <2>2. ASSUME NEW x \in survivors PROVE x.id \in Nat /\ x.version \in Nat
        BY <1>2, CanonicalFacts DEF Selects, IsEntry
    <2>3. ASSUME NEW x \in survivors, NEW n \in DOMAIN policy.objectives
          PROVE  readings[x][n] \in Values
        <3>1. readings[x] = Readings(x, policy, ev, asOf)
            BY DEF SurvivorReadings
        <3> QED
            BY <3>1, ReadingFacts DEF Selects
    <2> HIDE DEF survivors, readings
    <2> QED
        BY <2>1, <2>2, <2>3 DEF Comparable
<1>5. /\ best \in survivors
      /\ \A e \in survivors : Identity(e) # Identity(best) =>
            Ahead(best, e, policy.objectives, readings)
    <2> HIDE DEF survivors, readings
    <2>1. \E e \in DOMAIN readings : rank[e] = 1
        BY <1>2, <1>3, <1>4, RankOneIsFirst
    <2>2. best \in DOMAIN readings /\ rank[best] = 1
        <3> HIDE DEF rank
        <3> QED
            BY <2>1
    <2> HIDE DEF best
    <2>3. Rank(best, readings, policy.objectives) = 1
        BY <2>2
    <2> QED
        BY <1>2, <1>3, <1>4, <2>2, <2>3, RankOneIsFirst
<1>6. \A j \in judged : j.entry \in CanonicalEntries(c) /\ j = Judge(j.entry, policy, ev, asOf)
    BY JudgeFacts DEF Judgements
<1>7. \A e \in CanonicalEntries(c) :
        Judge(e, policy, ev, asOf) \in judged /\ Judge(e, policy, ev, asOf).entry = e
    BY JudgeFacts DEF Judgements
<1>8. DOMAIN trace = {Identity(e) : e \in CanonicalEntries(c)}
    <2> HIDE DEF judged, Traced
    <2> QED
        BY <1>6, <1>7
<1>9. ASSUME NEW e \in CanonicalEntries(c)
      PROVE  trace[Identity(e)] = Traced(Judge(e, policy, ev, asOf))
    <2>1. Identity(e) \in {Identity(j.entry) : j \in judged}
        BY <1>7
    <2> DEFINE chosen == CHOOSE j \in judged : Identity(j.entry) = Identity(e)
    <2>2. chosen \in judged /\ Identity(chosen.entry) = Identity(e)
        <3> HIDE DEF judged
        <3> QED
            BY <1>7
    <2>3. trace[Identity(e)] = Traced(chosen)
        <3> HIDE DEF Traced, judged
        <3> QED
            BY <2>1
    <2> HIDE DEF chosen, Traced, judged
    <2>4. chosen.entry = e
        BY <1>6, <2>2, CanonicalFacts DEF Selects
    <2>5. chosen = Judge(e, policy, ev, asOf)
        BY <1>6, <2>2, <2>4
    <2> QED
        BY <2>3, <2>5
<1>10. ASSUME NEW e \in CanonicalEntries(c)
       PROVE  LET j == Judge(e, policy, ev, asOf)
                  traced == trace[Identity(e)]
              IN  /\ traced.verdict = j.verdict
                  /\ j.verdict # "pass" => traced.code = j.code
                  /\ j.verdict = "pass" => e \in survivors /\ traced.code[2] = readings[e]
    <2>1. PICK j : j = Judge(e, policy, ev, asOf)
        OBVIOUS
    <2>2. trace[Identity(e)] = Traced(j) /\ j.entry = e
        <3> HIDE DEF trace, Traced
        <3> QED
            BY <1>7, <1>9, <2>1
    <2>3. j.verdict = "pass" => e \in survivors
        BY <2>1, JudgeFacts DEF Survivors
    <2> HIDE DEF trace, readings, rank, survivors
    <2> QED
        BY <2>1, <2>2, <2>3
<1> HIDE DEF judged, survivors, readings, rank, best, trace, d
<1> QED
    BY <1>1, <1>5, <1>8, <1>10 DEF d, survivors, readings

\* The fallback's selection is the selection of one of the policies.
LEMMA FallbackFacts ==
    ASSUME NEW c, NEW sequence, NEW ev, NEW asOf, Len(sequence) \in Nat \ {0},
           DOMAIN sequence = 1..Len(sequence),
           Fallback(c, sequence, ev, asOf).result.outcome = "SELECTED"
    PROVE  \E n \in DOMAIN sequence :
                /\ Fallback(c, sequence, ev, asOf).policy = sequence[n]
                /\ Fallback(c, sequence, ev, asOf).result = Select(c, sequence[n], ev, asOf)
<1> DEFINE results == [n \in DOMAIN sequence |-> Select(c, sequence[n], ev, asOf)]
           hits == {n \in DOMAIN sequence : results[n].outcome = "SELECTED"}
           least == CHOOSE n \in hits : \A m \in hits : n <= m
           last == IF hits = {} THEN Len(sequence) ELSE least
<1>1. Fallback(c, sequence, ev, asOf) = [result |-> results[last], policy |-> sequence[last]]
    BY DEF Fallback, FirstSelected
<1>2. last \in DOMAIN sequence
    <2>1. CASE hits = {}
        BY <2>1
    <2>2. CASE hits # {}
        <3>1. hits \subseteq 1..Len(sequence)
            OBVIOUS
        <3>2. least \in hits
            <4> HIDE DEF hits
            <4> QED
                BY <2>2, <3>1, FirstPosition
        <3> HIDE DEF least
        <3> QED
            BY <2>2, <3>1, <3>2
    <2> QED
        BY <2>1, <2>2
<1>3. results[last] = Select(c, sequence[last], ev, asOf)
    <2> HIDE DEF last
    <2> QED
        BY <1>2
<1> HIDE DEF last, results
<1> QED
    BY <1>1, <1>2, <1>3

------------------------------------------------------------------------------
(* What a selection guarantees. *)

\* A decision refers to sound evidence of the Variant it selects, and every
\* candidate it ranked or failed at a gate was judged on sound evidence of its
\* own (_router: missing, stale or drifted evidence is never taken for healthy).
THEOREM SelectionIsSound ==
    ASSUME NEW c, NEW policy, NEW ev, NEW asOf, Selects(c, policy, ev, asOf)
    PROVE  LET d == Select(c, policy, ev, asOf).decision
               Judged(e, k) == \E s \in ev : s.kind = k /\ Sound(s, e, asOf)
           IN  /\ \A n \in d.references : \E s \in ev : s.name = n /\ Sound(s, d.selected, asOf)
               /\ \A e \in CanonicalEntries(c) :
                    LET v == d.trace[Identity(e)] IN
                    /\ v.verdict = "pass" => \A k \in HardKinds(policy.gates) : Judged(e, k)
                    /\ v.verdict # "abort"
                    /\ v.verdict = "fail" /\ v.code \in DOMAIN GateKind =>
                        Judged(e, GateKind[v.code])
<1> DEFINE d == Select(c, policy, ev, asOf).decision
           Judged(e, k) == \E s \in ev : s.kind = k /\ Sound(s, e, asOf)
<1>1. ASSUME NEW e, NEW k, Status(ev, k, e, asOf) = "VALID"
      PROVE  Judged(e, k) /\ Latest(ev, k, e) \in ev /\ Sound(Latest(ev, k, e), e, asOf)
    BY <1>1, ValidIsSound DEF Selects
<1>2. ASSUME NEW n \in d.references PROVE \E s \in ev : s.name = n /\ Sound(s, d.selected, asOf)
    <2>1. PICK s \in References(d.selected, policy, ev, asOf) : n = s.name
        BY DecisionFacts
    <2>2. PICK k : Status(ev, k, d.selected, asOf) = "VALID" /\ s = Latest(ev, k, d.selected)
        <3> HIDE DEF d
        <3> QED
            BY DEF References
    <2> HIDE DEF d
    <2> QED
        BY <1>1, <2>1, <2>2
<1>3. ASSUME NEW e \in CanonicalEntries(c)
      PROVE  LET v == d.trace[Identity(e)] IN
             /\ v.verdict = "pass" => \A k \in HardKinds(policy.gates) : Judged(e, k)
             /\ v.verdict # "abort"
             /\ v.verdict = "fail" /\ v.code \in DOMAIN GateKind => Judged(e, GateKind[v.code])
    <2>1. PICK j : j = Judge(e, policy, ev, asOf)
        OBVIOUS
    <2>2. PICK v : v = d.trace[Identity(e)]
        OBVIOUS
    <2>3. v.verdict = j.verdict /\ (j.verdict # "pass" => v.code = j.code)
        BY <2>1, <2>2, DecisionFacts
    <2>4. j.verdict # "abort"
        <3>1. j \in Judgements(c, policy, ev, asOf)
            BY <2>1 DEF Judgements
        <3> QED
            BY <3>1, SelectFacts DEF Selects
    <2> HIDE DEF d, Judged
    <2>5. ASSUME j.verdict = "pass", NEW k \in HardKinds(policy.gates) PROVE Judged(e, k)
        <3>1. HardGates(e, policy.gates, ev, asOf).verdict = "pass"
            BY <2>1, <2>5, JudgeFacts
        <3> QED
            BY <1>1, <2>5, <3>1, GatesSettled
    <2>6. ASSUME j.verdict = "fail", j.code \in DOMAIN GateKind PROVE Judged(e, GateKind[j.code])
        <3>1. CASE j.stage = "gates"
            <4>1. /\ HardGates(e, policy.gates, ev, asOf).verdict = "fail"
                  /\ HardGates(e, policy.gates, ev, asOf).code = j.code
                BY <2>1, <2>6, <3>1, JudgeFacts
            <4>2. Status(ev, GateKind[j.code], e, asOf) = "VALID"
                BY <4>1, GatesSettled
            <4> QED
                BY <1>1, <4>2
        <3>2. CASE j.stage = "compatibility"
            <4>1. /\ Compatibility(e, policy, ev, asOf).verdict = "fail"
                  /\ Compatibility(e, policy, ev, asOf).code = j.code
                BY <2>1, <2>6, <3>2, JudgeFacts
            <4> QED
                BY <2>6, <4>1, CompatibilityFacts
        <3> QED
            BY <2>1, <3>1, <3>2, JudgeFacts
    <2> QED
        BY <2>2, <2>3, <2>4, <2>5, <2>6
<1> QED
    BY <1>2, <1>3

\* Every ranked candidate but the selected one is behind it in the order the
\* policy declares, and what it lacked is warned of (_ordering_comparator).
THEOREM SelectionIsBest ==
    ASSUME NEW c, NEW policy, NEW ev, NEW asOf, Selects(c, policy, ev, asOf)
    PROVE  LET result == Select(c, policy, ev, asOf)
               best == Identity(result.decision.selected)
               Reading(x) == result.decision.trace[x].code[2]
           IN  \A e \in CanonicalEntries(c) :
                result.decision.trace[Identity(e)].verdict = "pass" /\ Identity(e) # best =>
                    /\ \/ Reading(Identity(e)) = Reading(best) /\ Before(best, Identity(e))
                       \/ \E n \in DOMAIN policy.objectives :
                            /\ \A k \in 1..(n - 1) : Reading(best)[k] = Reading(Identity(e))[k]
                            /\ Better(Reading(best)[n], Reading(Identity(e))[n],
                                      policy.objectives[n])
                    /\ \A n \in DOMAIN policy.objectives : Reading(Identity(e))[n] = None =>
                        <<Identity(e), policy.objectives[n].dimension>> \in result.warnings
<1> DEFINE d == Select(c, policy, ev, asOf).decision
           survivors == Survivors(c, policy, ev, asOf)
           readings == SurvivorReadings(c, policy, ev, asOf)
<1>1. d.selected \in survivors /\ d.selected \in CanonicalEntries(c)
    BY DecisionFacts DEF Survivors
<1>2. ASSUME NEW e \in survivors
      PROVE  /\ d.trace[Identity(e)].code[2] = readings[e]
             /\ readings[e] = Readings(e, policy, ev, asOf)
             /\ e \in CanonicalEntries(c)
    <2>1. e \in CanonicalEntries(c) /\ Judge(e, policy, ev, asOf).verdict = "pass"
        BY DEF Survivors
    <2>2. readings[e] = Readings(e, policy, ev, asOf)
        BY DEF SurvivorReadings
    <2> QED
        BY <2>1, <2>2, DecisionFacts
<1>3. ASSUME NEW e \in CanonicalEntries(c), d.trace[Identity(e)].verdict = "pass",
             Identity(e) # Identity(d.selected)
      PROVE  /\ e \in survivors
             /\ Ahead(d.selected, e, policy.objectives, readings)
    BY <1>3, DecisionFacts
<1>4. ASSUME NEW e \in survivors, NEW f \in survivors,
             \A n \in DOMAIN policy.objectives : readings[e][n] = readings[f][n]
      PROVE  readings[e] = readings[f]
    <2>1. /\ readings[e] = [n \in DOMAIN policy.objectives |->
                    ObjectiveValue(e, policy.objectives[n].dimension, ev, asOf)]
          /\ readings[f] = [n \in DOMAIN policy.objectives |->
                    ObjectiveValue(f, policy.objectives[n].dimension, ev, asOf)]
        BY <1>2 DEF Readings
    <2> HIDE DEF readings
    <2> QED
        BY <1>4, <2>1
<1>5. ASSUME NEW e \in survivors, NEW n \in DOMAIN policy.objectives, readings[e][n] = None
      PROVE  <<Identity(e), policy.objectives[n].dimension>> \in Select(c, policy, ev, asOf).warnings
    <2>1. Select(c, policy, ev, asOf).warnings = Warnings(survivors, policy, ev, asOf)
        BY SelectFacts DEF Selects
    <2>2. Readings(e, policy, ev, asOf)[n] = None
        BY <1>2, <1>5
    <2> DEFINE Missing(x) == {m \in DOMAIN policy.objectives : Readings(x, policy, ev, asOf)[m] = None}
               warned == {<<Identity(e), policy.objectives[m].dimension>> : m \in Missing(e)}
    <2>3. <<Identity(e), policy.objectives[n].dimension>> \in warned
        BY <2>2
    <2>4. warned \in {{<<Identity(x), policy.objectives[m].dimension>> : m \in Missing(x)} :
                        x \in survivors}
        <3> HIDE DEF survivors, Missing
        <3> QED
            OBVIOUS
    <2>5. UNION {{<<Identity(x), policy.objectives[m].dimension>> : m \in Missing(x)} :
                    x \in survivors} \subseteq Warnings(survivors, policy, ev, asOf)
        BY DEF Warnings
    <2> HIDE DEF survivors, Missing, warned
    <2> QED
        BY <2>1, <2>3, <2>4, <2>5
<1> HIDE DEF d, survivors, readings
<1>6. ASSUME NEW e \in CanonicalEntries(c), d.trace[Identity(e)].verdict = "pass",
             Identity(e) # Identity(d.selected)
      PROVE  LET mine == d.trace[Identity(e)].code[2]
                 best == d.trace[Identity(d.selected)].code[2]
             IN  /\ \/ mine = best /\ Before(Identity(d.selected), Identity(e))
                    \/ \E n \in DOMAIN policy.objectives :
                        /\ \A k \in 1..(n - 1) : best[k] = mine[k]
                        /\ Better(best[n], mine[n], policy.objectives[n])
                 /\ \A n \in DOMAIN policy.objectives : mine[n] = None =>
                        <<Identity(e), policy.objectives[n].dimension>>
                            \in Select(c, policy, ev, asOf).warnings
    <2>1. e \in survivors /\ Ahead(d.selected, e, policy.objectives, readings)
        BY <1>3, <1>6
    <2>2. /\ d.trace[Identity(e)].code[2] = readings[e]
          /\ d.trace[Identity(d.selected)].code[2] = readings[d.selected]
        BY <1>1, <1>2, <2>1
    <2>3. (\A n \in DOMAIN policy.objectives : readings[d.selected][n] = readings[e][n]) =>
            readings[e] = readings[d.selected]
        BY <1>1, <1>4, <2>1
    <2> QED
        BY <1>5, <2>1, <2>2, <2>3 DEF Ahead
<1> QED
    BY <1>6 DEF d

\* The Contract of the selected Variant serves the policy's requirements and the
\* Variant's own, each in one request (ModelRequirements.match).
THEOREM SelectionServes ==
    ASSUME NEW c, NEW policy, NEW ev, NEW asOf, Selects(c, policy, ev, asOf),
           \A b \in DOMAIN Bindings : IsBinding(Bindings[b])
    PROVE  LET e == Select(c, policy, ev, asOf).decision.selected IN
           \A q \in {policy.requirements, Bindings[e.binding].requirements} :
                Serves(ContractOf(e), q)
<1>1. PICK e : e = Select(c, policy, ev, asOf).decision.selected
    OBVIOUS
<1>2. e \in CanonicalEntries(c) /\ Judge(e, policy, ev, asOf).stage = "gates"
    BY <1>1, DecisionFacts DEF Survivors
<1>3. Compatibility(e, policy, ev, asOf).verdict = "pass"
    BY <1>2, JudgeFacts
<1>4. /\ Match(Bindings[e.binding].requirements, ContractOf(e)) = "SATISFIED"
      /\ Match(policy.requirements, ContractOf(e)) = "SATISFIED"
    BY <1>3, CompatibilityFacts
<1>5. IsBinding(Bindings[e.binding])
    BY <1>2, CanonicalFacts DEF Selects, IsEntry
<1>6. IsRequirements(policy.requirements) /\ IsRequirements(Bindings[e.binding].requirements)
    BY <1>5 DEF Selects, IsPolicy, IsBinding
<1>7. /\ ContractOf(e).window \in Nat /\ ContractOf(e).output \in Nat
      /\ ContractOf(e).usageRequired \in BOOLEAN
    BY <1>5 DEF IsBinding, ContractOf
<1> QED
    BY <1>1, <1>4, <1>6, <1>7, MatchServes
=============================================================================
