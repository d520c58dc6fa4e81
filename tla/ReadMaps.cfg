CONSTANTS
    SectorsPerSegment = 4
    SegmentsPerTrack = 3
    Segments <- MCSegments
    BadSectors <- MCBadSectors
    SoftRetries = 1
    IgnoreEccErr = FALSE
    NrBuffers = 2
    EccBlocks = 2
    MaxFaults = 4
    Faults = {"medium", "overrun", "mismatch", "undecoded", "setup"}
    Callers = "forward"
SPECIFICATION Spec
INVARIANTS
    UnreadBlocksAreFlagged
    ResumePointIsSound
