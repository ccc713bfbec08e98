CONSTANTS
    c1 = c1
    c2 = c2
    o1 = o1
    o2 = o2
    Callers = {c1, c2}
    Owners = {o1, o2}
    OwnerOf <- DistinctOwnerOf
    NoOwner = NoOwner
    NoCaller = NoCaller
    StepIds = {}
    AttemptIds = {}
    TTL = 1
    RunMaxAttempts <- NoLimit
    PurposeMaxAttempts <- Unlimited
    MaxTime = 3
    MaxVersion = 4

SPECIFICATION Spec
INVARIANTS TypeOK LeaseExclusion Fencing NoStaleDecision
PROPERTY LifecycleSpec
CHECK_DEADLOCK FALSE
