CONSTANTS
    Runners = {r1, r2}
    Capable = {r1, r2}
    NoRunner = NoRunner
    Effect = "NON_IDEMPOTENT"
    FreshIds = TRUE
    MaxAttempts = 1
    ModelBudget = 2
    MaxCalls = 2
    MaxRounds = 1
    MaxFaults = 0
    MaxResolutions = 1
    MaxCancels = 0

SPECIFICATION Spec
SYMMETRY Symmetry
INVARIANTS AllCallsAnswered
CHECK_DEADLOCK FALSE
