CONSTANTS
    Engines = {e1, e2}
    Suites <- TwoSuites
    Policies <- TwoPolicies
    Evaluator <- MCEvaluator
    NoEngine = NoEngine
    NoSuite = NoSuite
    NoRecord = NoRecord
    MaxFaults = 1

SPECIFICATION Spec
SYMMETRY EngineSymmetry
INVARIANTS OneSuite ObservationFaithful TurnAccounted JudgedAsAsked ReportFollowsEvidence
