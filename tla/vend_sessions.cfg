\* Every AppConfig shape, customers only, no bench requests, no resets.
SPECIFICATION Spec
CONSTANTS
    TrainLengths = {1, 2}
    MaxCoins = 3
    LockOutcomes = {TRUE}
    Configs <- AllConfigs
    Requests = {}
    BenchRelay = FALSE
    QueueDepth = 1
    TicksCap = 5
    MaxResets = 0
INVARIANTS
    VendTypeOK
    BillingCovered
    EveryCreditAccounted
    PaidTimeGranted
    RelayFollowsCountdown
    BooksBalance
