SPECIFICATION Spec

CONSTANTS
    e1 = e1
    e2 = e2
    e3 = e3
    Ext = {e1, e2, e3}
    Wants <- WantsThreeBuys
    Hashes = {h1, h2, h3}
    NoHash = NoHash
    NoEvent = NoEvent
    ScheduledKey = ScheduledKey
    V4 = TRUE
    LowValue = {TRUE, FALSE}
    ReplacePending = TRUE
    ScheduledSell = FALSE
    Cooldown = FALSE
    ResetOnBuy = TRUE
    FullSellAfter = 0
    Levels = 2
    BuyQty = 2
    SellQty = 1
    MinSell = 1
    PolledExt = {}
    MaxFaults = 0

SYMMETRY ThreeBuys
INVARIANT BoundedReplacement
INVARIANT NoStaleReplacementCandidate
