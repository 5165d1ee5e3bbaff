SPECIFICATION Spec

CONSTANTS
    e1 = e1
    e2 = e2
    e3 = e3
    Ext = {e1, e2, e3}
    Wants <- WantsEach
    Hashes = {h1, h2, h3}
    NoHash = NoHash
    NoEvent = NoEvent
    ScheduledKey = ScheduledKey
    V4 = FALSE
    LowValue = {FALSE}
    ReplacePending = FALSE
    ScheduledSell = FALSE
    Cooldown = TRUE
    ResetOnBuy = TRUE
    FullSellAfter = 0
    Levels = 2
    BuyQty = 2
    SellQty = 1
    MinSell = 1
    PolledExt = {}
    MaxFaults = 1

SYMMETRY Symmetry
INVARIANT OneInFlightSell
INVARIANT NoPhantomTokens
PROPERTY PositionFollowsFills
