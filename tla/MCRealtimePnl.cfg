SPECIFICATION PnlFairSpec
CONSTANTS
    Workers = {w1, w2}
    Contracts = {c1}
    Prices = {1}
    None = None
    MaxVolume = 1
    MaxTrades = 1
    MaxTicks = 1
    MaxIncidents = 1
INVARIANT CleanMeansCurrent
PROPERTY NeverOlderFacts Converges
CHECK_DEADLOCK FALSE
