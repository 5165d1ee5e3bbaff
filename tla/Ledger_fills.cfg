SPECIFICATION FairSpec
CONSTANTS
    StoredConfigs <- TwoConfigs
    Prices = {1, 2}
    AvePrices = {0, 2}
    Events <- Market
    MinBalance = 2
    WalletSync = TRUE
    MaxTrades = 3
    MaxLags = 1
INVARIANT TypeOK
INVARIANT LedgerAccounts
INVARIANT NthSellEmpties
INVARIANT LossBuysBounded
PROPERTY SyncHeals
CHECK_DEADLOCK FALSE
