SPECIFICATION Spec
CONSTANTS
    StoredConfigs <- TwoConfigs
    Prices = {1}
    AvePrices = {1}
    Events <- Steady
    MinBalance = 2
    WalletSync = TRUE
    MaxTrades = 3
    MaxLags = 0
INVARIANT AverageIsPaid
CHECK_DEADLOCK FALSE
