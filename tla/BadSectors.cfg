CONSTANTS
    SectorsPerSegment = 32
    SegmentsPerCylinder = 4
    Boundary = 3
    Tapes <- MCTapes
    LastSegment = 4
    Weak = {0, 31}
    Overlap = FALSE
    MaxReads = 1
    MaxPuts = 2
    MaxFaults = 1
SPECIFICATION Spec
INVARIANTS
    MapsAreExact
    PlaceIsRight
    OneCopyIsEnough
    SegmentsHaveAddresses
CHECK_DEADLOCK FALSE
