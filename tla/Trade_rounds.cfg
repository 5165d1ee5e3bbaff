SPECIFICATION FairSpec

CONSTANTS
    e1 = e1
    e2 = e2
    e3 = e3
    Ext = {e1}
    Wants <- WantsBuy
    Hashes = {h1, h2}
    NoHash = NoHash
    NoEvent = NoEvent
    ScheduledKey = ScheduledKey
    V4 = FALSE
    LowValue = {FALSE}
    ReplacePending = FALSE
    ScheduledSell = TRUE
    Cooldown = FALSE
    ResetOnBuy = TRUE
    FullSellAfter = 1
    Levels = 2
    BuyQty = 2
    SellQty = 1
    MinSell = 1
    PolledExt = {e1}
    MaxFaults = 1

INVARIANT TypeOK
INVARIANT EventSubmittedOnce
INVARIANT PendingTradesRecognised
INVARIANT NoOrphanSchedule
PROPERTY EveryBuyAccounted
PROPERTY StaleActionResolved
PROPERTY UnsentBuyResolved
