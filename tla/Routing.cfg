CONSTANTS
    None = None
    Apps = {a1}
    Runs = {r1, r2}
    Setups <- MCSetups
    Bindings <- MCBindings
    Recommended <- MCRecommended
    Later <- MCLater
    Snapshots <- MCSnapshots
    MaxTime = 1
    MaxDecisions = 2
    MaxCatalog = 3

SPECIFICATION Spec
SYMMETRY RunSymmetry
INVARIANTS SoundEvidenceOnly BestSelected SelectedServes StoredAsMade RunsAccounted
PROPERTY AuditTrailGrows
CHECK_DEADLOCK FALSE
