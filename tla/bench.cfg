\* Bench commands against the vend machine.
SPECIFICATION FairBenchSpec
CONSTANTS
    TrainLengths = {1}
    MaxCoins = 1
    LockOutcomes = {TRUE}
    Configs <- Machines
    Requests <- BenchRequests
    BenchRelay = TRUE
    QueueDepth = 1
    TicksCap = 5
    MaxResets = 1
    Ops <- AllOps
    CmdDepth = 1
    MaxCommands = 2
INVARIANTS
    RelayHasOwner
PROPERTIES
    ImplementsVend
    CommandsFinish
