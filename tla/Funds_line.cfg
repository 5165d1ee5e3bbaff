SPECIFICATION Spec

CONSTANTS
    Requests = {r1, r2}
    NoRequest = NoRequest
    WalletCount = 2
    Funding = 3
    Deposit = 6
    Stake = 1
    Yield = 4
    MaxKeys = 6
    MaxCalls = 4
    MaxFaults = 2

CHECK_DEADLOCK FALSE
SYMMETRY Symmetry
INVARIANT TypeOK
INVARIANT KeysKept
INVARIANT OneActiveWallet
PROPERTY EndLeavesDust
PROPERTY DeletedEmpty
