\* A limit, a market and a bond order over two days, an operator who repeats the
\* command, and a failure or a crash at any step.
CONSTANTS
    o1 = o1
    o2 = o2
    o3 = o3
    r1 = r1
    NoRunner = NoRunner
    OrderIds <- ThreeOrders
    KindOf <- KindsMixed
    Lots <- MarketInTwoLots
    Quotes = {1}
    LastTick <- SomeTicksMissing
    Runners <- OneRunner
    OpeningDays = {0, 1}
    MaxDay = 2
    MaxRetries = 2
    CrashPoints <- AnyStep
    MaxCrashes = 1
SPECIFICATION FairSpec
INVARIANTS
    SettledDayIsComplete
    DaysPostedOnceInOrder
PROPERTIES
    OrdersRestInSettlement
    StartedDayCompletes
