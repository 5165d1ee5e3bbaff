SPECIFICATION FairSpec
CONSTANTS
    Callers = {c1, c2}
    Price = price
    Nobody = nobody
    EnvTokens = {0, 1}
    MaxExpiries = 2
    MaxUpdates = 1
    MaxFaults = 1
INVARIANT OneTokenPerExpiry
PROPERTY OperatorTokenKept
PROPERTY StoredTokenHeals
