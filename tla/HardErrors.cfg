CONSTANTS
    LastSegment = 10
    Sectors = 2
    BadSectors <- MCBad
    CacheReach = 1
    MaxVolumes = 3
    NrBuffers = 2
    Devices <- MCDevices
    Calls <- MCFewCalls
    Lengths = {1, 2, 3}
    FaultPlans <- MCOneFault
    MaxGen = 2
    MaxLength = 5
    Habits = {}
SPECIFICATION FilesSpec
INVARIANTS ClosedFilesAreWhole
PROPERTIES KeepsFiles
CHECK_DEADLOCK FALSE
