CONSTANTS
    Kinds <- MCKinds
    FdcRates = {250, 500, 1000}
    RateLimit = 1000
    Timeout = 2
    Width = 4
    MaxIncidents = 1
    Calls = {"overruns", "reset", "load", "offline", "partition"}
    DeadDrives = FALSE
    Habits = {"close", "deselect"}
SPECIFICATION Spec
INVARIANTS
    KnownCartridge
    ClosedIsReleased
    RatesAgree
    HealthyDriveOpens
PROPERTIES
    CallsEnd
CHECK_DEADLOCK FALSE
