CONSTANTS
    Runners = {r1, r2}
    Capable = {r1, r2}
    NoRunner = NoRunner
    Effect = "NON_IDEMPOTENT"
    FreshIds = TRUE
    MaxAttempts = 1
    ModelBudget = 2
    MaxCalls = 2
    MaxRounds = 1
    MaxFaults = 2
    MaxResolutions = 1
    MaxCancels = 0

SPECIFICATION Spec
SYMMETRY Symmetry
INVARIANTS EffectAtMostOnce AllCallsAnsweredUnresolved WaitingStepIsTarget
PROPERTIES ConfirmedNeverRedispatched
CHECK_DEADLOCK FALSE
