CONSTANTS
    SectorsPerSegment = 3
    SegmentsPerTrack = 3
    Segments <- MCSegments
    BadSectors <- MCBadSectors
    SoftRetries = 1
    IgnoreEccErr = FALSE
    NrBuffers = 2
    EccBlocks = 1
    MaxFaults = 2
    Faults = {"medium", "mismatch", "deleted", "pause", "timeout", "drive", "ecc", "signal"}
    Callers = "fresh"
SPECIFICATION Spec
INVARIANTS
    RestartIsSafe
    CacheIsInOrder
    TransferInHead
PROPERTIES
    FullBuffersAreKept ReadReturns
