CONSTANTS
    SegmentsPerTrack = 4
    Tracks = 2
    SoftRetries = 2
    MaxReadIds = 2
    MinCount = 1
    MaxStartOffset = 2
    EotMargin = 1
    OvershootLow <- MCLow
    OvershootLimit = 2
    ShortSkips = 4
    ForwardDrifts <- MCForward
    ReverseDrifts <- MCReverse
    EotGaps = {0}
    MaxFaults = 1
    Faults = {"noid", "drive", "track", "signal"}
SPECIFICATION Spec
INVARIANTS
    HealthyDriveStarts
    StartsWhereIdsSay
PROPERTIES
    StartReturns
