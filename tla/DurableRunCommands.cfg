CONSTANTS
    Runners = {r1, r2}
    Capable = {r1}
    NoRunner = NoRunner
    Effect = "IDEMPOTENT"
    FreshIds = TRUE
    MaxAttempts = 2
    ModelBudget = 4
    MaxCalls = 2
    MaxRounds = 1
    MaxFaults = 1
    MaxResolutions = 0
    MaxCancels = 1

SPECIFICATION FairSpec
INVARIANT StepBudget
PROPERTIES AskedCallNeverSucceeds RespectsTransitionTable Settles
CHECK_DEADLOCK FALSE
