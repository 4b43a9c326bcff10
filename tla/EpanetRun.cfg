SPECIFICATION Spec
CONSTANTS
    MaxQuality = 2
    MaxEmitted = 2
INVARIANTS
    Settlement
    SuccessMeansEverything
    KeptApart
    NothingLost
PROPERTIES
    HydraulicsKept
    KeepsContract
CHECK_DEADLOCK FALSE
