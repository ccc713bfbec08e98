----------------------------- MODULE EvalVerdict -----------------------------
(***************************************************************************)
(* How the Eval companion turns evidence into verdicts, as operators: the  *)
(* observation of a subject Run, its projection for an evaluator, the      *)
(* evaluator's outcome, the Judge's verdict and a report over a Suite      *)
(* (companion/eval/_observation, _projection, _evaluator, _judge, _report, *)
(* _case).                                                                 *)
(* Scores never take part in a verdict and are left out.                   *)
(***************************************************************************)
EXTENDS RunStatus, Naturals, Sequences, SequencesExt

Outcomes == {"PASS", "FAIL", "UNSUPPORTED", "INCONCLUSIVE", "ERROR"}
Completenesses == {"COMPLETE", "SAMPLED", "UNSUPPORTED", "UNAVAILABLE", "INCONCLUSIVE"}
NoValue == "none"

\* An EvalObservation: what is known of the subject.  A field that is not
\* known is None in the code and NoValue here, never invented.
Observation(completeness, status, output) ==
    [completeness |-> completeness, status |-> status, output |-> output]

\* observation_from_inspection: a Run that is missing, not terminal, or
\* terminal; only the last one shows its output.
ObservationFromInspection(status, output, sampled) ==
    CASE status = "ABSENT" -> Observation("UNAVAILABLE", NoValue, NoValue)
      [] status \in RunStatuses \ TERMINAL_STATUSES ->
            Observation("INCONCLUSIVE", status, NoValue)
      [] OTHER -> Observation(IF sampled THEN "SAMPLED" ELSE "COMPLETE", status, output)

\* claims_full_population
ClaimsFullPopulation(obs) == obs.completeness = "COMPLETE"

EvidenceFields == {"RUN_STATUS", "RUN_OUTPUT", "EXTERNAL_EVIDENCE"}

\* _field_value.  An execution collects no external evidence.
FieldValue(obs, field) ==
    CASE field = "RUN_STATUS" -> obs.status
      [] field = "RUN_OUTPUT" -> obs.output
      [] OTHER -> NoValue

\* project_observation: a required field is delivered, denied by the policy, or
\* allowed but unavailable.
Projection(obs, required, allowed) ==
    LET denied == required \ allowed
        unavailable == {f \in required \cap allowed : FieldValue(obs, f) = NoValue}
    IN  [completeness |-> obs.completeness,
         values |-> [f \in required \ (denied \cup unavailable) |-> FieldValue(obs, f)],
         denied |-> denied, unavailable |-> unavailable]

\* The bodies of the two reference evaluators, OutputMatchesEvaluator and
\* RunStatusEvaluator; another one may raise.
Evaluate(evaluator, projection) ==
    LET field == IF evaluator.kind = "status" THEN "RUN_STATUS" ELSE "RUN_OUTPUT" IN
    IF evaluator.kind = "raises" THEN "ERROR"
    ELSE IF projection.values[field] = evaluator.expected THEN "PASS" ELSE "FAIL"

\* Fault: missing evidence is not looked at before the evaluator's body.
RunEvaluator_Blind(evaluator, projection) ==
    IF projection.completeness = "UNSUPPORTED" THEN "UNSUPPORTED"
    ELSE IF projection.denied # {} \/ projection.unavailable # {} THEN "PASS"
    ELSE Evaluate(evaluator, projection)

\* run_evaluator: the checks before the body, in their order.
RunEvaluator(evaluator, projection) ==
    CASE projection.completeness = "UNSUPPORTED" -> "UNSUPPORTED"
      [] projection.completeness \in {"UNAVAILABLE", "INCONCLUSIVE"} -> "INCONCLUSIVE"
      [] projection.completeness \in {"COMPLETE", "SAMPLED"}
            /\ (projection.denied # {} \/ projection.unavailable # {}) -> "INCONCLUSIVE"
      [] OTHER -> Evaluate(evaluator, projection)

\* parse_judge_verdict: anything but a well formed verdict is an ERROR.
ParseJudgeVerdict(output) == IF output \in {"PASS", "FAIL"} THEN output ELSE "ERROR"

------------------------------------------------------------------------------
(* Suite: cases, variants and repetitions. *)

\* expand: case, then variant, then repetition; the items' identities depend on
\* the suite's id and version only, not on what the cases contain.
Expand(suite) ==
    FlattenSeq([c \in 1..Len(suite.cases) |->
        FlattenSeq([v \in 1..Len(suite.variants) |->
            [k \in 1..suite.cases[c].repetitions |->
                <<suite.cases[c].id, suite.variants[v], k>>]])])

\* case_by_id
CaseById(suite, id) == suite.cases[CHOOSE c \in DOMAIN suite.cases : suite.cases[c].id = id]
EvaluatorsOf(suite, item) == CaseById(suite, item[1]).evaluators

------------------------------------------------------------------------------
(* Report *)

\* _worst: FAIL > ERROR > INCONCLUSIVE > UNSUPPORTED > PASS, PASS if empty.
Worst(outcomes) ==
    IF "FAIL" \in outcomes THEN "FAIL"
    ELSE IF "ERROR" \in outcomes THEN "ERROR"
    ELSE IF "INCONCLUSIVE" \in outcomes THEN "INCONCLUSIVE"
    ELSE IF "UNSUPPORTED" \in outcomes THEN "UNSUPPORTED" ELSE "PASS"

\* Three gates kept apart: the hard evaluators, the others, and all of them.
Gates(hard, quality, overall) == [hard |-> hard, quality |-> quality, overall |-> overall]

\* The worst of each gate: of the repetitions of a case, of the cases of a report.
WorstGates(gs) ==
    Gates(Worst({g.hard : g \in gs}), Worst({g.quality : g \in gs}), Worst({g.overall : g \in gs}))

\* _repetition_outcome: no result at all is INCONCLUSIVE.
RepetitionOutcome(records) ==
    IF records = {} THEN Gates("INCONCLUSIVE", "INCONCLUSIVE", "INCONCLUSIVE")
    ELSE Gates(Worst({r.outcome : r \in {x \in records : x.hard}}),
               Worst({r.outcome : r \in {x \in records : ~x.hard}}),
               Worst({r.outcome : r \in records}))

\* The CaseVariantReport of build_report_revision, with pass^k.
CaseReport(suite, case, variant, records) ==
    LET ordered == {RepetitionOutcome({r \in records : r.item = <<case.id, variant, k>>}) :
                        k \in 1..case.repetitions}
    IN  [gates |-> WorstGates(ordered),
         passAtK |-> \A g \in ordered : g.overall = "PASS"]

\* build_report_revision over the frozen expansion of the suite: every case with
\* every variant.
CaseVariants(suite) ==
    {<<suite.cases[c].id, v>> : c \in DOMAIN suite.cases, v \in Range(suite.variants)}

BuildReportRevision(suite, records) ==
    LET cases == [k \in CaseVariants(suite) |->
                    CaseReport(suite, CaseById(suite, k[1]), k[2], records)]
    IN  [cases |-> cases, gates |-> WorstGates({cases[k].gates : k \in CaseVariants(suite)})]
=============================================================================
