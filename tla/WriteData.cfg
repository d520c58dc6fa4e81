CONSTANTS
    SectorsPerSegment = 2
    SegmentsPerTrack = 4
    Segments <- MCLongTrack
    BadSectors <- MCBadSectors
    SoftRetries = 1
    IgnoreEccErr = FALSE
    NrBuffers = 2
    WriteRetries = 2
    MaxWrites = 3
    MaxFaults = 2
    Faults = {"medium", "overrun", "mismatch", "undecoded", "pause", "timeout", "drive", "signal"}
    Callers = "ascending"
SPECIFICATION Spec
INVARIANTS
    AcceptedDataIsHeld
    FlushedDataIsOnTape
    HardErrorIsRecoverable
PROPERTIES
    WriteAheadKeepsSegments
