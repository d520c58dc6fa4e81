CONSTANTS
    NrBuffers = 3
    SegsPerBuf = 2
    Lengths <- MCLengths
    Tracks = {0, 1}
    MaxStarts = 3
    MaxFaults = 2
    Faults = {"seek", "command", "setup", "medium", "drive", "end"}
    Wrap = 16
SPECIFICATION Spec
INVARIANTS
    IdsAreInOrder
    EndMeansWhole
PROPERTIES
    TracksEnd
