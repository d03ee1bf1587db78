\* Two orders of either kind, one or two ticks within or out of reach, and two
\* faults or one, of any kind.
CONSTANTS
    Limit = 1
    Lots = 2
    Quoted = 1
    Prices <- MCPrices
    MaxRetries = 2
    MaxOrders = 2
    MaxTicks = 2
    MaxEvents = 3
SPECIFICATION FairSpec
CHECK_DEADLOCK FALSE
INVARIANTS
    TradesExplainOrders
    AcknowledgedTicksWereOffered
PROPERTIES
    MessagesAreHandled
