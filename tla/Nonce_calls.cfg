SPECIFICATION FairSpec

CONSTANTS
    c1 = c1
    c2 = c2
    Callers = {c1, c2}
    Calls <- BuyerAndApi
    Hashes = {h1, h2}
    NoHash = NoHash
    NoCaller = NoCaller
    MaxFee = 2
    Evicts = TRUE

INVARIANT TypeOK
INVARIANT FreshUnlessReplaced
INVARIANT NoNonceGap
INVARIANT ApprovalIsMined
PROPERTY CallsReturn
