\* The deployed consumer and two orders of one contract: events in any order, an
\* exception, a crash, a dead letter, a rebuild: any two of them.
CONSTANTS
    OrderCount = 2
    ContractOf <- MCContractOf
    Consumers = {c1}
    BatchSize = 1
    PageSize = 1
    MaxRetries = 1
    SlowConsumers = FALSE
    MaxVersion = 2
    MaxChanges = 3
    MaxCopies = 1
    MaxIncidents = 2
SPECIFICATION IndexFairSpec
CHECK_DEADLOCK FALSE
INVARIANTS
    IndexFollowsOrders
    ContractsCoverIndex
PROPERTIES
    OnlyFinishedOrdersLeaveIndex
    IndexConverges
