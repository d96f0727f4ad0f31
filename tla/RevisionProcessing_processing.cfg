SPECIFICATION RegionSpec
CONSTANTS
    Files = {f1}
    Slots = {s1, s2}
    NoSlot = NoSlot
    MaxAttempts = 2
    MaxRevision = 2
SYMMETRY SlotSymmetry
VIEW RegionView
INVARIANTS
    TypeOK
    FinishedLeftItsResult
PROPERTIES
    LateHolderIsHarmless
    IndexNeverGoesBack
CHECK_DEADLOCK FALSE
