SPECIFICATION FeedFairSpec
CONSTANTS
    Codes = {opt, und}
    QueueSize = 2
    MaxRequests = 2
    FeedTicks = 2
    MaxChanges = 1
    MaxFaults = 1
INVARIANT SubscriptionsAreComplete
PROPERTIES PriceGoesForward Converges
CHECK_DEADLOCK FALSE
