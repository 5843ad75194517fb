\* Four parts, each within its own bounds.
SPECIFICATION ServicesSpec
CONSTANTS
    \* Counters: a Manila midnight, crossed both ways, and the time unknown
    UnitsPerDay = 3
    TzOffset = 1
    EpochMin = 1
    EpochMax = 9
    Syncs = {1, 3, 9}
    CoinCents = {1}
    CentsPerPeso = 1
    Ceiling = 2
    SessionCeiling = 1
    NvsMayRefuse = TRUE
    LockMayFail = TRUE
    MaxTime = 3
    MaxEvents = 3
    \* RtcChip: three digits in base 3, the highest of which turns at 9; a phone that is
    \* right, and one that is two seconds fast; garbage that starts before the window and
    \* runs into it, and garbage after it
    Base = 3
    RtcMin = 7
    RtcMax = 12
    Errors = {0, 2}
    Garbage = {5, 13}
    LastSecond = 11
    \* Faults
    StuckTicks = 2
    MaxFaultEvents = 3
    \* Countdown: words of 6 bits, 4 ticks to the macro's second; one credit fits the
    \* macro, two do not, and three bought one by one reach the cap
    WordSize = 64
    TickRate = 4
    RelayMs = 9
    TicksCap = 20
    MaxDelay = 2
    Credits = {1, 2}
    MaxBuys = 2
INVARIANTS
    TodayExact
    MoneyIsFlushed
    NoTimeThatNeverWas
    ClocksAgree
    FaultsKept
    PaidTimeKept
PROPERTIES
    PhoneCatchesUp
    UnsetClockReported
