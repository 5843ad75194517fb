\* Test mode, bench requests and relay pulses, resets, a lock that times out.
SPECIFICATION Spec
CONSTANTS
    TrainLengths = {2}
    MaxCoins = 1
    LockOutcomes = {TRUE, FALSE}
    Configs <- BenchConfigs
    Requests <- BenchRequests
    BenchRelay = TRUE
    QueueDepth = 1
    TicksCap = 5
    MaxResets = 1
INVARIANTS
    SlotDiscipline
    NeverAbandonsVend
    MeterMatchesTakings
    MoneyConserved
PROPERTIES
    TestModeMovesNoMoney
