SPECIFICATION Spec
CONSTANTS
    NULL = NULL
    ALIGNMENT = 4
    SIZE_MAX = 1000
    GeSize = 3
    GejSize = 5
    FeSize = 2
    ScalarSize = 1
    IntSize = 1
    PointStateSize = 2
    PippengerStateSize = 2
    StraussStateSize = 6
    TableSize = 2
    MaxWindow = 3
    BucketCount <- MCBucketCount
    WnafSize <- MCWnafSize
    WindowInv <- MCWindowInv
    Threshold = 4
    MaxBatch = 6
    MaxPoints = 9
    ScratchSizes <- MCScratchSizes
    ReservedSizes = {61}
    SingleCounts = {1, 5}
INVARIANTS
    Complete
    PlannedFits
    ObjectsFit
    FramesReleased
