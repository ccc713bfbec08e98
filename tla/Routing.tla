------------------------------ MODULE Routing ------------------------------
(***************************************************************************)
(* Applications that select a Variant before they create a Run, and the    *)
(* Routing Store that keeps their decisions (companion/routing).           *)
(*                                                                         *)
(* Snapshots arrive, time passes, a Recommendation is published as a new   *)
(* policy and a Variant is registered for it while an application is       *)
(* between routing, saving the decision, creating the Run and binding it;  *)
(* a restart forgets what it held.                                         *)
(*                                                                         *)
(* Digests identify content: a snapshot and a model binding stand for      *)
(* theirs by name.  A decision's id is made of the digests of its inputs,  *)
(* of which the time is none.                                              *)
(***************************************************************************)
EXTENDS ModelRouter, RunStatus, TLC

CONSTANTS
    Apps, Runs,
    Setups,        \* what to begin with: [catalog, policy, evidence]
    Snapshots,     \* all snapshots, by name
    Later,         \* the names of those collected later
    Recommended,   \* the Variant an evaluation recommends
    MaxTime, MaxDecisions, MaxCatalog  \* bounds

ASSUME RoutingAssumption ==
    /\ MaxTime \in Nat /\ MaxDecisions \in Nat /\ MaxCatalog \in Nat
    /\ \A b \in DOMAIN Bindings : WellFormed(Bindings[b].contract.capabilities)

\* The Definitions of the Variants, and the Runs made of them.
Definitions == UNION {{e.definition : e \in Range(s.catalog)} : s \in Setups}
RunRecords == [definition : Definitions, status : RunStatuses,
               fingerprint : {Bindings[b].contract.fingerprint : b \in DOMAIN Bindings} \cup {None}]

ASSUME InputAssumption ==
    /\ None \notin RunRecords
    /\ \A b \in DOMAIN Bindings : IsBinding(Bindings[b])
    /\ IsFiniteSet(DOMAIN Snapshots)
    /\ \A n \in DOMAIN Snapshots :
        Snapshots[n].name = n /\ Snapshots[n] # None /\ IsSnapshot(Snapshots[n])
    /\ Later \subseteq DOMAIN Snapshots
    /\ \A s \in Setups :
        /\ s.catalog \in Seq(Range(s.catalog)) /\ \A e \in Range(s.catalog) : IsEntry(e)
        /\ IsPolicy(s.policy) /\ s.evidence \subseteq DOMAIN Snapshots

VARIABLES
    catalog, sequence, now,
    evidence,      \* the names of the snapshots collected
    held,          \* app -> the outcome of its last routing
    stored,        \* routing_decisions: [decision, evidence]
    bindings,      \* routing_run_bindings
    runs,          \* run -> the frozen Definition and the status
    replacements,  \* the relations registered
    made           \* history: decision -> the inputs it was made from

inputVars == <<catalog, sequence, evidence, now>>
storeVars == <<stored, bindings>>
vars == <<inputVars, held, storeVars, runs, replacements, made>>

Init ==
    /\ \E s \in Setups : catalog = s.catalog /\ sequence = <<s.policy>> /\ evidence = s.evidence
    /\ now = 0
    /\ held = [a \in Apps |-> None]
    /\ stored = {} /\ bindings = {}
    /\ runs = [r \in Runs |-> None]
    /\ replacements = {} /\ made = {}

------------------------------------------------------------------------------
(* The inputs of the Router *)

Tick ==
    /\ now < MaxTime /\ now' = now + 1
    /\ UNCHANGED <<catalog, sequence, evidence, held, storeVars, runs, replacements, made>>

\* The application collects a snapshot.
Collect(s) ==
    /\ s \in Later \ evidence
    /\ evidence' = evidence \cup {s}
    /\ UNCHANGED <<catalog, sequence, now, held, storeVars, runs, replacements, made>>

\* publish_recommendation_as_policy for a recommendation with both gates passed
\* and not expired: a new version with the target as its only candidate, tried
\* before the base policy.
PublishRecommendation ==
    LET base == sequence[1] IN
    /\ Len(sequence) = 1
    /\ sequence' = <<[base EXCEPT !.identity = base.identity + 1, !.allowed = {Recommended}], base>>
    /\ UNCHANGED <<catalog, evidence, now, held, storeVars, runs, replacements, made>>

\* register_variant_for_policy: a new version of the Variant, next to the old.
RegisterVariant(n) ==
    LET e == catalog[n]
        policy == sequence[1].identity
    IN
    /\ policy \notin e.policies
    /\ Len(catalog) < MaxCatalog
    /\ catalog' = Append(catalog, [e EXCEPT !.version = e.version + 1, !.policies = @ \cup {policy}])
    /\ UNCHANGED <<sequence, evidence, now, held, storeVars, runs, replacements, made>>

------------------------------------------------------------------------------
(* An application *)

\* Within one behaviour, catalogs differ in what was registered and evidence in
\* what was collected since.
CatalogDigest == [n \in DOMAIN catalog |-> Identity(catalog[n])]
EvidenceDigest(ev) == ev \cap Later

\* The decision of a result, under its id.
DecisionOf(result, policy) ==
    [id |-> [selected |-> Identity(result.decision.selected), policy |-> policy.identity,
             catalog |-> CatalogDigest, evidence |-> EvidenceDigest(evidence)],
     references |-> result.decision.references, trace |-> result.decision.trace,
     tieBreak |-> result.decision.tieBreak]

EntryOf(x) == CHOOSE e \in CanonicalEntries(catalog) : Identity(e) = x
Selected(d) == EntryOf(d.id.selected)

\* execute_pre_run_fallback; no claim and no Run exists yet.
Route(a) ==
    /\ held[a] = None /\ Cardinality(made) < MaxDecisions
    /\ \E chosen \in {Fallback(catalog, sequence, {Snapshots[s] : s \in evidence}, now)} :
        /\ chosen.result.outcome = "SELECTED"
        /\ held' = [held EXCEPT ![a] = DecisionOf(chosen.result, chosen.policy)]
        /\ made' = made \cup {[decision |-> DecisionOf(chosen.result, chosen.policy),
                               asOf |-> now, warnings |-> chosen.result.warnings]}
    /\ UNCHANGED <<inputVars, storeVars, runs, replacements>>

\* Fault: any evidence may be stored with a decision.
VerifyPair_Any(decision, ev) == TRUE

\* _verify_pair: the evidence given is the evidence of the decision.
VerifyPair(decision, ev) == decision.id.evidence = EvidenceDigest(ev)

\* Fault: a decision replaces the one stored with its id.
StoreDecision_Replaces(d, ev) ==
    stored' = {s \in stored : s.decision.id # d.id} \cup {[decision |-> d, evidence |-> EvidenceDigest(ev)]}

\* save_decision: stored once; the same id with another content is a conflict.
StoreDecision(d, ev) ==
    stored' = IF \E s \in stored : s.decision.id = d.id THEN stored
              ELSE stored \cup {[decision |-> d, evidence |-> EvidenceDigest(ev)]}

\* The application saves with the evidence it routed with, or reads it again.
SaveDecision(a) ==
    /\ held[a] # None
    /\ \E ev \in {(evidence \ Later) \cup held[a].id.evidence, evidence} :
        VerifyPair(held[a], ev) /\ StoreDecision(held[a], ev)
    /\ UNCHANGED <<inputVars, held, bindings, runs, replacements, made>>

\* create_run with the Definition of the Variant; what is registered by then may
\* have another Contract, or a legacy Run has no snapshot of it.
CreateRun(a, r) ==
    /\ held[a] # None /\ runs[r] = None
    /\ \E drift \in {ContractOf(Selected(held[a])).fingerprint, None} :
        runs' = [runs EXCEPT ![r] = [definition |-> Selected(held[a]).definition,
                                     fingerprint |-> drift, status |-> "CREATED"]]
    /\ UNCHANGED <<inputVars, held, storeVars, replacements, made>>

\* Fault: the frozen Contract is not compared.
Binds_Definition(d, r) == runs[r] # None /\ runs[r].definition = Selected(d).definition

\* bind_decision_to_run
Binds(d, r) ==
    /\ runs[r] # None
    /\ runs[r].definition = Selected(d).definition
    /\ runs[r].fingerprint = ContractOf(Selected(d)).fingerprint

\* attach_run_binding raises for a decision that is not stored.
BindRun(a, r) ==
    /\ held[a] # None /\ Binds(held[a], r)
    /\ \E s \in stored : s.decision.id = held[a].id
    /\ bindings' = bindings \cup {[decision |-> held[a].id, run |-> r]}
    /\ UNCHANGED <<inputVars, held, stored, runs, replacements, made>>

\* The process is restarted or the application is done with this request.
Forget(a) ==
    /\ held[a] # None
    /\ held' = [held EXCEPT ![a] = None]
    /\ UNCHANGED <<inputVars, storeVars, runs, replacements, made>>

\* FAILED stands for every terminal status.
RunEnds(r) ==
    /\ runs[r] # None /\ runs[r].status \notin TERMINAL_STATUSES
    /\ runs' = [runs EXCEPT ![r].status = "FAILED"]
    /\ UNCHANGED <<inputVars, held, storeVars, replacements, made>>

\* The conditions of register_replacement_run.
Replaceable(before, after) ==
    /\ before.run # after.run /\ before.decision # after.decision
    /\ runs[before.run].status \in TERMINAL_STATUSES

\* register_replacement_run
ReplaceRun ==
    /\ \E before, after \in bindings :
        /\ Replaceable(before, after)
        /\ replacements' = replacements \cup {[before |-> before, after |-> after]}
    /\ UNCHANGED <<inputVars, held, storeVars, runs, made>>

Next ==
    \/ Tick \/ \E s \in Later : Collect(s)
    \/ PublishRecommendation
    \/ \E n \in DOMAIN catalog : RegisterVariant(n)
    \/ \E a \in Apps : Route(a) \/ SaveDecision(a) \/ Forget(a)
    \/ \E a \in Apps, r \in Runs : CreateRun(a, r) \/ BindRun(a, r)
    \/ \E r \in Runs : RunEnds(r)
    \/ ReplaceRun

Spec == Init /\ [][Next]_vars

------------------------------------------------------------------------------
(* Properties *)

\* Every variable has its type.
TypeOK ==
    /\ now \in 0..MaxTime /\ evidence \subseteq DOMAIN Snapshots
    /\ \A s \in stored : s.evidence \subseteq Later
    /\ \A b \in bindings : runs[b.run] # None
    /\ \A r \in Runs : runs[r] = None \/ runs[r].status \in RunStatuses

\* The policy of a decision.
PolicyOf(m) == CHOOSE p \in Range(sequence) : p.identity = m.decision.id.policy

\* What the decision of m refers to is sound, and every candidate that was ranked
\* or failed a gate was judged on sound evidence of its own.
SoundlyJudged(m) ==
    LET Judged(x, k) == \E s \in (evidence \ Later) \cup m.decision.id.evidence :
            Snapshots[s].kind = k /\ Sound(Snapshots[s], EntryOf(x), m.asOf)
        trace == m.decision.trace
    IN
    /\ \A s \in m.decision.references : Sound(Snapshots[s], Selected(m.decision), m.asOf)
    /\ \A x \in DOMAIN trace :
        /\ trace[x].verdict = "pass" => \A k \in HardKinds(PolicyOf(m).gates) : Judged(x, k)
        /\ trace[x].verdict # "abort"
        /\ trace[x].verdict = "fail" /\ trace[x].code \in DOMAIN GateKind =>
            Judged(x, GateKind[trace[x].code])

\* _router: evidence that is missing, stale, not effective, of another Contract
\* or not intact never counts as healthy: no decision rests on any, and no
\* candidate is dropped for want of evidence.
SoundEvidenceOnly == \A m \in made : SoundlyJudged(m)

\* Each ranked candidate of m behind the selected one is worse in the first
\* objective in which they differ, or equal in all and behind it by identity.
BestOfRanked(m) ==
    LET best == m.decision.id.selected
        trace == m.decision.trace
        Reading(x) == trace[x].code[2]
        objectives == PolicyOf(m).objectives
    IN
    \A x \in {y \in DOMAIN trace : trace[y].verdict = "pass"} \ {best} :
        /\ \/ Reading(x) = Reading(best) /\ Before(best, x)
           \/ \E n \in DOMAIN objectives :
                /\ \A k \in 1..(n - 1) : Reading(best)[k] = Reading(x)[k]
                /\ Better(Reading(best)[n], Reading(x)[n], objectives[n])
        /\ \A n \in DOMAIN objectives :
            Reading(x)[n] = None => <<x, objectives[n].dimension>> \in m.warnings

\* The comparator sorts as the policy says, and what was missing is warned of.
BestSelected == \A m \in made : BestOfRanked(m)

\* The Variant of m serves the policy and its own bindings.
Served(m) ==
    LET e == Selected(m.decision) IN
    \A q \in {PolicyOf(m).requirements, Bindings[e.binding].requirements} : Serves(ContractOf(e), q)

\* The Contract selected serves, in one request, all that the policy and the
\* Variant's own bindings require, and the usage report it guarantees.
SelectedServes == \A m \in made : Served(m)

\* The store keeps decisions for an audit: each with the evidence it was made
\* from, whatever has been collected before it was saved.
StoredAsMade ==
    \A s \in stored : \E m \in made : m.decision = s.decision /\ m.decision.id.evidence = s.evidence

\* A bound Run has the Definition and the frozen Contract of a stored decision,
\* and only a Run that has ended is replaced, by a Run of another decision.
RunsAccounted ==
    /\ \A b \in bindings : \E s \in stored :
        /\ s.decision.id = b.decision
        /\ runs[b.run].definition = Selected(s.decision).definition
        /\ runs[b.run].fingerprint = ContractOf(Selected(s.decision)).fingerprint
    /\ \A r \in replacements :
        /\ {r.before, r.after} \subseteq bindings
        /\ runs[r.before.run].status \in TERMINAL_STATUSES
        /\ r.before.run # r.after.run /\ r.before.decision # r.after.decision

\* Decisions are routed again later, under the same id with another trace: what
\* is stored is never rewritten.
AuditTrailGrows == [][stored \subseteq stored' /\ bindings \subseteq bindings']_vars

\* RoutingDecision's docstring, which the code does not meet (README, Known
\* disagreements): decision_id is derived from the content of the inputs, so two
\* Decisions with one id are the same Decision.
DecisionReproducible ==
    \A m, n \in made : m.decision.id = n.decision.id => m.decision = n.decision
=============================================================================
