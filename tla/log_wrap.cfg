\* A reset after the ring has turned over.
SPECIFICATION Spec
CONSTANTS
    Sectors = 2
    SlotsPerSector = 2
    PageMax = 2
    QueueDepth = 2
    FloorAtStart = 0
    Faults = {}
    MaxSessions = 6
    MaxReboots = 1
    LastReset = 12
PROPERTIES
    WrapIsOldestFirst
\* Every session closed and written: nothing is left to do.
CHECK_DEADLOCK FALSE
