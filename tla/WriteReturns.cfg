CONSTANTS
    SectorsPerSegment = 2
    SegmentsPerTrack = 3
    Segments <- MCSegments
    BadSectors <- MCUsableTape
    SoftRetries = 1
    IgnoreEccErr = FALSE
    NrBuffers = 2
    WriteRetries = 1
    MaxWrites = 2
    MaxFaults = 3
    Faults = {"medium", "overrun", "mismatch", "undecoded", "setup", "pause", "timeout", "drive",
              "signal"}
    Callers = "ascending"
SPECIFICATION Spec
PROPERTIES
    CallsReturn
