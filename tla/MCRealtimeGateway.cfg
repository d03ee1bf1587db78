SPECIFICATION GatewayFairSpec
CONSTANTS
    Gateways = {g1, g2}
    NoGateway = NoGateway
    QueueSize = 2
    BufferSize = 1
    GatewayBatch = 2
    MaxFacts = 2
    MaxFaults = 2
INVARIANT NothingSkipped
PROPERTY EventsGoForward Converges
CHECK_DEADLOCK FALSE
