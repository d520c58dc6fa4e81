CONSTANTS
    LastSegment = 5
    Sectors = 2
    BadSectors <- MCBad
    CacheReach = 1
    MaxVolumes = 3
    NrBuffers = 2
    Devices <- MCDevices
    Calls <- MCCalls
    Lengths = {1, 3}
    FaultPlans <- MCNoFaults
    MaxGen = 2
    MaxLength = 8
    Habits = {"crash", "boundary"}
SPECIFICATION FilesSpec
INVARIANTS PositionsAgree ReadsAreExact UnsavedTapeIsLocked CleanTableIsSaved SeeksArrive
PROPERTIES KeepsFiles
CHECK_DEADLOCK FALSE
