SPECIFICATION FairSpec
CONSTANTS
    Snapshots <- MCSnapshots
    MaxAttempts = 2
    RepairMax = 2
    Window = 5
    MaxRounds = 1
    MaxHolds = 1
    MaxFailures = 1
    MaxCrashes = 1
    MaxResolutions = 1
INVARIANTS FrameStable EvidenceRevalidates OnlyApproved EffectAtMostOnce RepairBounded
PROPERTIES HeldVerbatim Terminates
CHECK_DEADLOCK FALSE
