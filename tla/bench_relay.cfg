\* A relay pulse inside a paid countdown.
SPECIFICATION BenchSpec
CONSTANTS
    TrainLengths = {1}
    MaxCoins = 1
    LockOutcomes = {TRUE}
    Configs <- PlainMachine
    Requests <- BenchRequests
    BenchRelay = TRUE
    QueueDepth = 1
    TicksCap = 5
    MaxResets = 0
    Ops <- AllOps
    CmdDepth = 2
    MaxCommands = 1
INVARIANTS
    PaidRelayUndisturbed
