CONSTANTS
    Engines = {e1}
    Suites <- Repeated
    Policies <- TwoPolicies
    Evaluator <- MCEvaluator
    NoEngine = NoEngine
    NoSuite = NoSuite
    NoRecord = NoRecord
    MaxFaults = 1

SPECIFICATION FairSpec
INVARIANTS ReportHonest
PROPERTIES ExecutionFinishes
