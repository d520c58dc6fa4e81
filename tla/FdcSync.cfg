CONSTANTS
    Cylinders <- MCCylinders
    Clusters = 2
    MaxFaults = 1
    Faults = {"lost", "wakeup", "command", "pause"}
SPECIFICATION Spec
INVARIANTS
    MaskIsReleased
    SeeksAreExact
PROPERTIES
    CommandsDoNotMix
    CallsEnd
