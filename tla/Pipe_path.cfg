SPECIFICATION PathSpec

CONSTANTS
    w1 = w1
    w2 = w2
    p1 = p1
    p2 = p2
    Pools = {p1, p2}
    Workers = {w1, w2}
    ShardOf <- TwoShards
    IngressBuffer = 1
    StrategyBuffer = 1
    QueueBuffer = 1
    ShardBacklog = 2
    BridgeBuffer = 0
    PollSpan = 1
    MaxBlocks = 5
    Faults = {"disconnect", "restart"}
    MaxFaults = 1
    Hung = {}

 
PROPERTY FeedImplemented
