\* Two phones over a ring with torn records, refused erases, foreign data and a reset.
SPECIFICATION SyncSpec
CONSTANTS
    Sectors = 3
    SlotsPerSector = 1
    PageMax = 2
    QueueDepth = 1
    FloorAtStart = 0
    Faults = {"erase", "torn", "foreign"}
    MaxSessions = 4
    MaxReboots = 1
    LastReset = 2
    Phones = {p1, p2}
    MaxConns = 2
    MaxCursors = 2
    MaxLinks = 2
SYMMETRY Alike
INVARIANTS
    PagesTrue
    CopyIsTrue
    CopyIsComplete
\* Every session closed, every link used up: nothing is left to do.
CHECK_DEADLOCK FALSE
