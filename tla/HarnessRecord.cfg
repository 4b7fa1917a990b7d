\* A lock the node took, and a run that ends without a record of it.
SPECIFICATION Spec
CONSTANTS
    large = large
    small = small
    mined = mined
    abroad = abroad
    None = None
    r1 = r1
    r2 = r2
    Runs = {r1}
    Broadcasts = {{r1}}
    Coins = {large, small, mined}
    Coinbase = {mined}
    Foreign = {abroad}
    LockAmount = 2
    FundingMargin = 1
    Fee = 1
    DustLimit = 1
    FinalityDepth = 2
    PollAttempts = 1
    OtherDaa = 9
    MaxDaa = 3
    MaxMoves = 0
    MaxFaults = 0
    CoinAmount <- MCAmount
INVARIANTS
    LockIsOnRecord
CHECK_DEADLOCK FALSE
