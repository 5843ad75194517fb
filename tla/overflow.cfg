\* Words of 6 bits, 4 ticks to the macro's second: an hour is 9 ms here, and two do not fit.
SPECIFICATION CountdownSpec
CONSTANTS
    WordSize = 64
    TickRate = 4
    RelayMs = 9
    TicksCap = 28
    MaxDelay = 2
    Credits = {1, 2}
    MaxBuys = 2
INVARIANTS
    PaidTimeAlways
