SPECIFICATION Spec

CONSTANTS
    Requests = {r1, r2}
    NoRequest = NoRequest
    WalletCount = 2
    Funding = 3
    Deposit = 6
    Stake = 1
    Yield = 4
    MaxKeys = 5
    MaxCalls = 3
    MaxFaults = 1

CHECK_DEADLOCK FALSE
SYMMETRY Symmetry

PROPERTY StoredKeysKept
