\* Two runs on one wallet, in any interleaving.
SPECIFICATION Spec
CONSTANTS
    large = large
    small = small
    mined = mined
    abroad = abroad
    None = None
    r1 = r1
    r2 = r2
    Runs = {r1, r2}
    Broadcasts = {{r1, r2}}
    Coins = {large, small, mined}
    Coinbase = {mined}
    Foreign = {abroad}
    LockAmount = 2
    FundingMargin = 1
    Fee = 1
    DustLimit = 1
    FinalityDepth = 0
    PollAttempts = 1
    OtherDaa = 9
    MaxDaa = 1
    MaxMoves = 0
    MaxFaults = 1
    CoinAmount <- MCAmount
INVARIANTS
    ProofIsTrue
    WalletLosesOnlyFees
CHECK_DEADLOCK FALSE
