------------------------------ MODULE MCEvalRun ------------------------------
(* Instances of EvalRun for TLC. *)
EXTENDS EvalRun, TLC

Suite(digest, cases) == [digest |-> digest, variants |-> <<"v1">>, cases |-> cases]
Case(id, repetitions, evaluators) ==
    [id |-> id, repetitions |-> repetitions, evaluators |-> evaluators]

\* Contents under one suite id: a changed evaluator list; repetitions, several cases
\* and Judges.
TwoSuites == {Suite("d1", <<Case("c1", 1, <<"ends", "judge">>)>>),
              Suite("d2", <<Case("c1", 1, <<"ends">>)>>)}
Repeated == {Suite("d1", <<Case("c1", 2, <<"ends", "matches">>)>>),
             Suite("d2", <<Case("c1", 1, <<"ends">>), Case("c2", 1, <<"matches">>)>>),
             Suite("d3", <<Case("c1", 1, <<"ends", "judge">>)>>)}

MCEvaluator ==
    [matches |-> [kind |-> "output", hard |-> FALSE, fields |-> {"RUN_OUTPUT"},
                  expected |-> "text"],
     ends |-> [kind |-> "status", hard |-> TRUE, fields |-> {"RUN_STATUS"},
               expected |-> "SUCCEEDED"],
     judge |-> [kind |-> "judge", hard |-> FALSE, fields |-> {"RUN_OUTPUT"}, expected |-> ""]]

TwoPolicies == {EvidenceFields, {"RUN_STATUS"}}

EngineSymmetry == Permutations(Engines)
==============================================================================
