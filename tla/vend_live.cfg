\* Liveness under the scheduler's fairness, for an auto and a gated machine.
SPECIFICATION FairSpec
CONSTANTS
    TrainLengths = {2}
    MaxCoins = 2
    LockOutcomes = {TRUE}
    Configs <- LiveConfigs
    Requests = {"enter"}
    BenchRelay = FALSE
    QueueDepth = 1
    TicksCap = 5
    MaxResets = 0
PROPERTIES
    SessionEnds
    OwedCreditsDispensed
    ReadyMoneyServed
    RowsReachFlash
    TestModeEnds
