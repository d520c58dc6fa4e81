CONSTANTS
    Kilo = 4
    SegKilos = 3
    CountSize = 1
    OffsetSize = 2
    Reserve = 4
    BlkSz = 8
    SlowSeek = 1
    MaxTrials = 2
    Backup = 1
    Sizes <- MCSizes
    Kilos <- MCKilos
    LostSegments <- MCLost
    Requests = {1, 2}
    Habits = {}
SPECIFICATION Spec
PROPERTIES KeepsBlocks
