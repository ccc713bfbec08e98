CONSTANTS
    Runners = {r1, r2}
    Capable = {r1, r2}
    NoRunner = NoRunner
    Effect = "NON_IDEMPOTENT"
    FreshIds = TRUE
    MaxAttempts = 1
    ModelBudget = 2
    MaxCalls = 1
    MaxRounds = 1
    MaxFaults = 1
    MaxResolutions = 0
    MaxCancels = 0

SPECIFICATION Spec
SYMMETRY Symmetry
INVARIANTS NeverReplaysUnconfirmed
CHECK_DEADLOCK FALSE
