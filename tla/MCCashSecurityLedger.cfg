\* One account, one security, three days and an action of each kind.
CONSTANTS
    o1 = o1
    o2 = o2
    o3 = o3
    t1 = t1
    t2 = t2
    s1 = s1
    s2 = s2
    Orders <- MCOrders3
    Ticks <- MCTicks
    Quote <- MCQuote
    LimitPrices = {2}
    Volumes = {1, 3}
    FeeRate = 1
    MinimumFee = 2
    OpeningCash = 16
    Products <- MCProducts
    Terms <- MCTerms
    Schedules <- MCSchedules
    RevisionCount = 2
    SubscriptionIds <- MCSubscriptionIds
    LastDay = 3
SPECIFICATION Spec
SYMMETRY Symmetry
CHECK_DEADLOCK FALSE
INVARIANTS
    OrdersAreCovered
    ReplayIsLive
    SettlementAccepts
    ActionsTakeEffectOnce
