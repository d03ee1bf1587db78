\* One account long one contract: three client ids, two ticks, one old detail.
CONSTANTS
    c1 = c1
    c2 = c2
    c3 = c3
    t1 = t1
    t2 = t2
    ClientIds <- MCClientIds
    Ticks <- MCTicks
    Requests <- MCRequestsLong
    Quote <- MCQuoteLong
    FeeRate <- MCFeeRate
    OpeningDetails <- MCOpeningDetails
    Side = "LONG"
    MarginRate = 3
    Scale = 10
    OpeningCash = 60
    MaxInFlight = 2
SPECIFICATION Spec
SYMMETRY ClientSymmetry
CHECK_DEADLOCK FALSE
INVARIANTS
    RowsReconcile
    EachMatchSettledOnce
    TradesExplainLedger
    ActiveOrderNeverStuck
    OutboxTellsTheLedger
PROPERTIES
    YesterdayBeforeToday
    ImplementsLifecycle
