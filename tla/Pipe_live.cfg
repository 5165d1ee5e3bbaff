SPECIFICATION FairSpec

CONSTANTS
    w1 = w1
    w2 = w2
    p1 = p1
    p2 = p2
    Pools = {p1, p2}
    Workers = {w1, w2}
    ShardOf <- TwoShards
    IngressBuffer = 1
    StrategyBuffer = 1
    QueueBuffer = 1
    ShardBacklog = 0
    BridgeBuffer = 1
    PollSpan = 1
    MaxBlocks = 3
    Faults = {"disconnect", "process", "refresh"}
    MaxFaults = 1
    Hung = {w1}

INVARIANT TypeOK
PROPERTY OtherShardsGoOn
PROPERTY EveryBlockTried
