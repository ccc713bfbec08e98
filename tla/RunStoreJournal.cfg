CONSTANTS
    c1 = c1
    c2 = c2
    o1 = o1
    o2 = o2
    Callers = {c1, c2}
    Owners = {o1, o2}
    OwnerOf <- DistinctOwnerOf
    NoOwner = NoOwner
    NoCaller = NoCaller
    StepIds = {s1}
    AttemptIds = {a1, a2}
    TTL = 1
    RunMaxAttempts = 1
    PurposeMaxAttempts <- NoCompression
    MaxTime = 1
    MaxVersion = 1

SPECIFICATION Spec
SYMMETRY Symmetry
INVARIANTS BudgetNeverOverdrawn
CHECK_DEADLOCK FALSE
