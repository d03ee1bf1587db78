\* Two risk workers, one account with two lots.
SPECIFICATION FairSpec
CONSTANTS
    Workers = {"w1", "w2"}
    Funds = 5
    InitialLots = 2
    LiquidationSlack = 2
    WarningSlack = 3
    RecoverySlack = 4
    Fee = 1
    MaxLoss = 2
    MaxRetries = 1
    OpenVolumes = {1}
    MaxOpens = 1
    MaxMoves = 2
    MaxFaults = 1
    MaxTroubles = 2
INVARIANTS
    OrdersFollowTasks
    DeficitIsHandled
PROPERTIES
    Converges
CHECK_DEADLOCK FALSE
