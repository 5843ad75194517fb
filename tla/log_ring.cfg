\* The ring fills and turns over; resets anywhere until it does.
SPECIFICATION Spec
CONSTANTS
    Sectors = 3
    SlotsPerSector = 2
    PageMax = 2
    QueueDepth = 2
    FloorAtStart = 3
    Faults = {"write", "foreign"}
    MaxSessions = 10
    MaxReboots = 2
    LastReset = 6
INVARIANTS
    PagesComplete
    NumbersContiguous
PROPERTIES
    WrapIsOldestFirst
    ImplementsSalesLog
\* Every session closed and written: nothing is left to do.
CHECK_DEADLOCK FALSE
