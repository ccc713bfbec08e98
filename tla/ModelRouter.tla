---------------------------- MODULE ModelRouter ----------------------------
(***************************************************************************)
(* The Router of companion/routing as a function of its inputs: catalog,   *)
(* policy, evidence snapshots and the time of the decision.                *)
(*                                                                         *)
(* A Variant's identity is <<id, version>>, ordered as the code orders it. *)
(* The purposes of a binding set share one Contract; provider, region and  *)
(* endpoint class, which are treated alike, are one deployment attribute,  *)
(* and so are the four operational limits one quota.                       *)
(***************************************************************************)
EXTENDS ModelMatch

CONSTANTS
    None,
    Bindings    \* the model bindings of the entries, by name: [contract, requirements]

ASSUME NoneAssumption == None \notin Nat

\* The records the Router is given, with the fields their classes declare.
IsRequirements(q) ==
    /\ DOMAIN q.modes = ProtocolSet /\ \A p \in ProtocolSet : q.modes[p] \in Modes[p]
    /\ q.minWindow \in Nat /\ q.minOutput \in Nat

IsBinding(b) ==
    /\ IsRequirements(b.requirements)
    /\ b.contract.window \in Nat /\ b.contract.output \in Nat
    /\ b.contract.usageRequired \in BOOLEAN

IsEntry(e) ==
    /\ e = [id |-> e.id, version |-> e.version, definition |-> e.definition,
            binding |-> e.binding, policies |-> e.policies, region |-> e.region,
            retention |-> e.retention, attempts |-> e.attempts]
    /\ e.id \in Nat /\ e.version \in Nat /\ e.binding \in DOMAIN Bindings

Objectives == [dimension : {"COST", "QUALITY", "LATENCY"}, direction : {"MINIMIZE", "MAXIMIZE"},
               missing : {"ORDER_FIRST", "ORDER_LAST"}]

IsPolicy(p) ==
    /\ p = [identity |-> p.identity, allowed |-> p.allowed, requirements |-> p.requirements,
            regions |-> p.regions, retention |-> p.retention, gates |-> p.gates,
            objectives |-> p.objectives, soft |-> p.soft]
    /\ p.identity \in Nat /\ IsRequirements(p.requirements)
    /\ p.gates.availability \in BOOLEAN /\ p.objectives \in Seq(Objectives)

IsSnapshot(s) ==
    /\ s.at \in Nat /\ s.version \in Nat /\ s.until \in Nat /\ s.intact \in BOOLEAN
    /\ s.input \in Nat /\ s.quality \in Nat /\ s.latency \in Nat \cup {None}

\* primary_contract
ContractOf(e) == Bindings[e.binding].contract

\* identity of an entry of the catalog
Identity(e) == <<e.id, e.version>>
Before(x, y) == x[1] < y[1] \/ (x[1] = y[1] /\ x[2] < y[2])

\* canonical_entries: of several entries with one identity the first declared.
CanonicalEntries(catalog) ==
    {catalog[n] : n \in {m \in DOMAIN catalog :
                            \A k \in 1..(m - 1) : Identity(catalog[k]) # Identity(catalog[m])}}

------------------------------------------------------------------------------
(* Evidence snapshots *)

\* _latest: by time, then by version.
Latest(evidence, kind, e) ==
    LET matching == {s \in evidence : s.kind = kind /\ s.subject = Identity(e)} IN
    IF matching = {} THEN None
    ELSE CHOOSE s \in matching : \A t \in matching :
            t.at < s.at \/ (t.at = s.at /\ t.version <= s.version)

\* Sealed snapshots carry a digest of their content and may name the Contract
\* they were taken of.
Sealed == {"PRICING", "AVAILABILITY", "OPERATIONAL_LIMITS"}

\* Fault: a snapshot without a digest is not told from a sound one.
SnapshotStatus_Unsealed(s, e, asOf) ==
    IF s = None THEN "MISSING" ELSE IF s.until < asOf THEN "STALE" ELSE "VALID"

\* _evaluate_snapshot for the sealed kinds; of Model Evidence and retention
\* evidence only the validity is checked.
SnapshotStatus(s, e, asOf) ==
    IF s = None THEN "MISSING"
    ELSE IF s.kind \in Sealed /\ s.fingerprint \notin {None, ContractOf(e).fingerprint}
    THEN "FINGERPRINT_DRIFT"
    ELSE IF s.kind \in Sealed /\ ~s.intact THEN "INTEGRITY_FAILURE"
    ELSE IF s.kind = "PRICING" /\ s.at > asOf THEN "NOT_EFFECTIVE"
    ELSE IF s.until < asOf THEN "STALE" ELSE "VALID"

Status(evidence, kind, e, asOf) == SnapshotStatus(Latest(evidence, kind, e), e, asOf)

------------------------------------------------------------------------------
(* Cost *)

\* The price per token is a number here, and so is a cost.
Spend(price, input, output) == input * price.input + output * price.output

\* estimate_run_cost with WORST_CASE_TOKEN_BUDGET: a bound, or the gaps in the
\* evidence for one.
EstimateRunCost(evidence, e, currency, asOf) ==
    LET price == Latest(evidence, "PRICING", e)
        status == SnapshotStatus(price, e, asOf)
        gaps == IF status # "VALID" THEN {status}
                ELSE (IF price.currency # currency THEN {"CURRENCY_MISMATCH"} ELSE {})
                        \cup (IF price.output = None THEN {"OUTPUT_PRICE_MISSING"} ELSE {})
    IN  [gaps |-> gaps,
         upper |-> IF gaps # {} THEN None
                   ELSE e.attempts * Spend(price, ContractOf(e).window + ContractOf(e).output,
                                           ContractOf(e).output)]

------------------------------------------------------------------------------
(* Filtering *)

\* A verdict on one candidate: it passes, it is filtered, or its evidence is
\* missing and the whole selection ends.
Pass == [verdict |-> "pass", code |-> "SELECTED"]
Filtered(code) == [verdict |-> "fail", code |-> code]

Abort(kind, status) == [verdict |-> "abort", code |-> <<kind, status>>]

\* The first verdict that is not a pass.
FirstVerdict(verdicts) ==
    LET stops == {n \in DOMAIN verdicts : verdicts[n].verdict # "pass"} IN
    IF stops = {} THEN Pass ELSE verdicts[CHOOSE n \in stops : \A m \in stops : n <= m]

PassIf(condition, code) == IF condition THEN Pass ELSE Filtered(code)

\* A gate that needs evidence of a kind, which passes on a VALID snapshot with
\* Ok(snapshot).
Gate(declared, kind, e, evidence, asOf, Ok(_), code) ==
    IF ~declared THEN Pass
    ELSE IF Status(evidence, kind, e, asOf) # "VALID"
    THEN Abort(kind, Status(evidence, kind, e, asOf))
    ELSE PassIf(Ok(Latest(evidence, kind, e)), code)

\* The retention stage of _compatibility_failure.
RetentionVerdict(e, policy, evidence, asOf) ==
    IF policy.retention = None THEN Pass
    ELSE IF e.retention = None THEN Filtered("RETENTION_EVIDENCE_UNKNOWN")
    ELSE Gate(TRUE, "RETENTION", e, evidence, asOf,
              LAMBDA s : e.retention \in policy.retention /\ s.value = e.retention,
              "RETENTION_EVIDENCE_VERSION")

\* _compatibility_failure
Compatibility(e, policy, evidence, asOf) ==
    FirstVerdict(<<
        PassIf(policy.identity \in e.policies, "NOT_REGISTERED_FOR_POLICY"),
        PassIf(policy.allowed = None \/ Identity(e) \in policy.allowed, "NOT_IN_CANDIDATE_SCOPE"),
        PassIf(Match(Bindings[e.binding].requirements, ContractOf(e)) = "SATISFIED", "MODEL_REQUIREMENTS"),
        PassIf(Match(policy.requirements, ContractOf(e)) = "SATISFIED", "MODEL_REQUIREMENTS"),
        PassIf(policy.regions = None \/ e.region \in policy.regions, "REGION_NOT_ALLOWED"),
        RetentionVerdict(e, policy, evidence, asOf)>>)

\* _operational_limits_gate_failure: a limit that is not reported is not enough.
LimitsVerdict(e, minimum, evidence, asOf) ==
    LET s == Latest(evidence, "OPERATIONAL_LIMITS", e) IN
    IF minimum # None /\ SnapshotStatus(s, e, asOf) = "VALID" /\ s.value = None
    THEN Abort("OPERATIONAL_LIMITS", "UNKNOWN")
    ELSE Gate(minimum # None, "OPERATIONAL_LIMITS", e, evidence, asOf,
              LAMBDA t : t.value >= minimum, "HARD_OPERATIONAL_LIMIT_GATE_FAILED")

\* _worst_case_cost_gate_failure
CostVerdict(e, cap, evidence, asOf) ==
    IF cap = None THEN Pass
    ELSE LET estimate == EstimateRunCost(evidence, e, cap.currency, asOf) IN
         IF estimate.upper = None THEN Abort("PRICING", estimate.gaps)
         ELSE PassIf(estimate.upper <= cap.max, "HARD_COST_GATE_FAILED")

\* _hard_gate_failure, gate by gate.
HardGates(e, gates, evidence, asOf) ==
    FirstVerdict(<<
        Gate(gates.maxPrice # None, "PRICING", e, evidence, asOf,
             LAMBDA s : s.input <= gates.maxPrice, "HARD_PRICE_GATE_FAILED"),
        Gate(gates.minQuality # None, "MODEL_EVIDENCE", e, evidence, asOf,
             LAMBDA s : s.quality >= gates.minQuality, "HARD_QUALITY_GATE_FAILED"),
        Gate(gates.availability, "AVAILABILITY", e, evidence, asOf,
             LAMBDA s : s.available, "HARD_AVAILABILITY_GATE_FAILED"),
        LimitsVerdict(e, gates.minQuota, evidence, asOf),
        CostVerdict(e, gates.costCap, evidence, asOf)>>)

------------------------------------------------------------------------------
(* Ordering *)

KindOf(dimension) == IF dimension = "COST" THEN "PRICING" ELSE "MODEL_EVIDENCE"

\* _objective_value: None if there is no VALID snapshot, or no latency in it.
ObjectiveValue(e, dimension, evidence, asOf) ==
    LET s == Latest(evidence, KindOf(dimension), e) IN
    IF SnapshotStatus(s, e, asOf) # "VALID" THEN None
    ELSE CASE dimension = "COST" -> s.input
           [] dimension = "QUALITY" -> s.quality
           [] dimension = "LATENCY" -> s.latency

Readings(e, policy, evidence, asOf) ==
    [n \in DOMAIN policy.objectives |->
        ObjectiveValue(e, policy.objectives[n].dimension, evidence, asOf)]

\* Fault: a missing value is taken for the best.
CompareObjective_MissingFirst(left, right, objective) ==
    IF left = right THEN 0 ELSE IF left = None THEN -1 ELSE IF right = None THEN 1
    ELSE IF left < right THEN -1 ELSE 1

\* _compare_objective: negative if left goes first.
CompareObjective(left, right, objective) ==
    IF left = right THEN 0
    ELSE IF left = None THEN IF objective.missing = "ORDER_LAST" THEN 1 ELSE -1
    ELSE IF right = None THEN IF objective.missing = "ORDER_LAST" THEN -1 ELSE 1
    ELSE IF (left < right) = (objective.direction = "MINIMIZE") THEN -1 ELSE 1

\* _ordering_comparator: the first objective that tells them apart, then identity
\* (readings: candidate -> its value in each objective).
GoesBefore(x, y, objectives, readings) ==
    LET cmp == [n \in DOMAIN objectives |->
                    CompareObjective(readings[x][n], readings[y][n], objectives[n])]
        tell == {n \in DOMAIN objectives : cmp[n] # 0}
    IN  IF tell = {} THEN Before(Identity(x), Identity(y))
        ELSE cmp[CHOOSE n \in tell : \A m \in tell : n <= m] < 0

Rank(x, readings, objectives) ==
    1 + Cardinality({y \in DOMAIN readings : GoesBefore(y, x, objectives, readings)})

------------------------------------------------------------------------------
(* select *)

\* _policy_structure_error
InvalidPolicy(policy) ==
    \/ policy.allowed = {}
    \/ \E m, n \in DOMAIN policy.objectives :
            m # n /\ policy.objectives[m].dimension = policy.objectives[n].dimension

\* _catalog_conflict: one identity with two contents (the deployment is not
\* part of them), or one Contract version with two fingerprints.
Content(e) == [e EXCEPT !.region = None, !.retention = None]
CatalogConflict(catalog) ==
    \E m, n \in DOMAIN catalog :
        \/ Identity(catalog[m]) = Identity(catalog[n]) /\ Content(catalog[m]) # Content(catalog[n])
        \/ /\ ContractOf(catalog[m]).id = ContractOf(catalog[n]).id
           /\ ContractOf(catalog[m]).fingerprint # ContractOf(catalog[n]).fingerprint

Tracked == {"AVAILABILITY", "OPERATIONAL_LIMITS"}

\* _objective_value and _emit_soft_preference_warnings: what is missing is said.
Warnings(survivors, policy, evidence, asOf) ==
    LET Missing(e) == {n \in DOMAIN policy.objectives : Readings(e, policy, evidence, asOf)[n] = None}
        Unhealthy(e) == {k \in Tracked : policy.soft /\
                            \/ Status(evidence, k, e, asOf) # "VALID"
                            \/ k = "AVAILABILITY" /\ ~Latest(evidence, k, e).available}
    IN  UNION {{<<Identity(e), policy.objectives[n].dimension>> : n \in Missing(e)} : e \in survivors}
        \cup UNION {{<<Identity(e), k>> : k \in Unhealthy(e)} : e \in survivors}

\* The snapshots a decision rests on (_record_reference).
References(e, policy, evidence, asOf) ==
    LET gates == policy.gates
        kinds == (IF gates.maxPrice # None \/ gates.costCap # None THEN {"PRICING"} ELSE {})
            \cup (IF gates.minQuality # None THEN {"MODEL_EVIDENCE"} ELSE {})
            \cup (IF gates.availability THEN {"AVAILABILITY"} ELSE {})
            \cup (IF gates.minQuota # None THEN {"OPERATIONAL_LIMITS"} ELSE {})
            \cup (IF policy.retention # None THEN {"RETENTION"} ELSE {})
            \cup {KindOf(policy.objectives[n].dimension) : n \in DOMAIN policy.objectives}
            \cup {k \in Tracked : policy.soft /\ (k = "AVAILABILITY" =>
                    Latest(evidence, k, e) # None /\ Latest(evidence, k, e).available)}
    IN  {Latest(evidence, k, e) : k \in {x \in kinds : Status(evidence, x, e, asOf) = "VALID"}}

NoDecision(outcome, code) == [outcome |-> outcome, code |-> code, decision |-> None, warnings |-> {}]

\* The verdict on a candidate of the stage it reaches.
Judge(e, policy, evidence, asOf) ==
    LET Staged(stage, v) == [entry |-> e, stage |-> stage, verdict |-> v.verdict, code |-> v.code]
        compatibility == Compatibility(e, policy, evidence, asOf)
    IN  IF compatibility.verdict = "pass"
        THEN Staged("gates", HardGates(e, policy.gates, evidence, asOf))
        ELSE Staged("compatibility", compatibility)

\* The decision on the candidates that passed all gates, of all that were judged.
Decide(judged, readings, policy, evidence, asOf) ==
    LET rank == [e \in DOMAIN readings |-> Rank(e, readings, policy.objectives)]
        best == CHOOSE e \in DOMAIN readings : rank[e] = 1
        Traced(j) == [verdict |-> j.verdict,
                      code |-> IF j.verdict = "pass" THEN <<rank[j.entry], readings[j.entry]>>
                               ELSE j.code]
    IN  [selected |-> best,
         references |-> {s.name : s \in References(best, policy, evidence, asOf)},
         trace |-> [x \in {Identity(j.entry) : j \in judged} |->
                        Traced(CHOOSE j \in judged : Identity(j.entry) = x)],
         tieBreak |-> \E e \in DOMAIN readings : rank[e] = 2 /\ readings[e] = readings[best]]

\* The outcome of a selection from the verdicts: evidence that cannot be judged
\* ends it at its stage, for the least such candidate.
Conclude(judged, policy, evidence, asOf) ==
    LET At(stage, verdict) == {j \in judged : j.stage = stage /\ j.verdict = verdict}
        Unavailable(stage) ==
            LET least == CHOOSE j \in At(stage, "abort") : \A k \in At(stage, "abort") :
                            k = j \/ Before(Identity(j.entry), Identity(k.entry))
            IN  NoDecision("EVIDENCE_UNAVAILABLE", least.code)
        survivors == {j.entry : j \in At("gates", "pass")}
    IN  IF At("compatibility", "abort") # {} THEN Unavailable("compatibility")
        ELSE IF \A j \in judged : j.stage = "compatibility"
        THEN NoDecision("NO_COMPATIBLE_VARIANT", "NO_COMPATIBLE_VARIANT")
        ELSE IF At("gates", "abort") # {} THEN Unavailable("gates")
        ELSE IF survivors = {} THEN NoDecision("POLICY_UNSATISFIED", "POLICY_UNSATISFIED")
        ELSE [outcome |-> "SELECTED", code |-> "SELECTED",
              decision |-> Decide(judged, [e \in survivors |-> Readings(e, policy, evidence, asOf)],
                                  policy, evidence, asOf),
              warnings |-> Warnings(survivors, policy, evidence, asOf)]

\* ModelRouter.select
Select(catalog, policy, evidence, asOf) ==
    IF InvalidPolicy(policy) THEN NoDecision("INVALID_POLICY", "POLICY")
    ELSE IF CatalogConflict(catalog) THEN NoDecision("CATALOG_CONFLICT", "CATALOG")
    ELSE Conclude({Judge(e, policy, evidence, asOf) : e \in CanonicalEntries(catalog)},
                  policy, evidence, asOf)

\* The policies in their order, up to the first that selects; with none, the
\* outcome of the last.
FirstSelected(sequence, results) ==
    LET hits == {n \in DOMAIN sequence : results[n].outcome = "SELECTED"}
        last == IF hits = {} THEN Len(sequence) ELSE CHOOSE n \in hits : \A m \in hits : n <= m
    IN  [result |-> results[last], policy |-> sequence[last]]

\* execute_pre_run_fallback
Fallback(catalog, sequence, evidence, asOf) ==
    FirstSelected(sequence,
                  [n \in DOMAIN sequence |-> Select(catalog, sequence[n], evidence, asOf)])

------------------------------------------------------------------------------
(* What a selection is held to *)

\* The kind of evidence behind a gate's failure.
GateKind ==
    [HARD_PRICE_GATE_FAILED |-> "PRICING", HARD_COST_GATE_FAILED |-> "PRICING",
     HARD_QUALITY_GATE_FAILED |-> "MODEL_EVIDENCE",
     HARD_AVAILABILITY_GATE_FAILED |-> "AVAILABILITY",
     HARD_OPERATIONAL_LIMIT_GATE_FAILED |-> "OPERATIONAL_LIMITS"]

HardKinds(gates) ==
    {k \in {"PRICING", "MODEL_EVIDENCE", "AVAILABILITY", "OPERATIONAL_LIMITS"} :
        CASE k = "PRICING" -> gates.maxPrice # None \/ gates.costCap # None
          [] k = "MODEL_EVIDENCE" -> gates.minQuality # None
          [] k = "AVAILABILITY" -> gates.availability
          [] k = "OPERATIONAL_LIMITS" -> gates.minQuota # None}

\* A snapshot that may be relied on for the Variant e at a time.
Sound(s, e, asOf) ==
    /\ s.subject = Identity(e) /\ s.until >= asOf
    /\ s.kind \in Sealed => s.intact /\ s.fingerprint \in {None, ContractOf(e).fingerprint}
    /\ s.kind = "PRICING" => s.at <= asOf

\* The reading a of an objective is strictly better than b.
Better(a, b, objective) ==
    /\ a # b
    /\ \/ a = None /\ objective.missing = "ORDER_FIRST"
       \/ b = None /\ objective.missing = "ORDER_LAST"
       \/ a # None /\ b # None /\ (IF objective.direction = "MINIMIZE" THEN a < b ELSE a > b)
=============================================================================
