\* One run, broadcasting or dry, against every disturbance of the node and the connection.
SPECIFICATION FairSpec
CONSTANTS
    large = large
    small = small
    mined = mined
    abroad = abroad
    None = None
    r1 = r1
    r2 = r2
    Runs = {r1}
    Broadcasts = {{}, {r1}}
    Coins = {large, small, mined}
    Coinbase = {mined}
    Foreign = {abroad}
    LockAmount = 2
    FundingMargin = 1
    Fee = 1
    DustLimit = 1
    FinalityDepth = 2
    PollAttempts = 2
    OtherDaa = 9
    MaxDaa = 3
    MaxMoves = 2
    MaxFaults = 2
    CoinAmount <- MCAmount
INVARIANTS
    TypeOK
    ProofIsTrue
    UndisturbedRunsPass
    WalletLosesOnlyFees
PROPERTIES
    WaitsForFinality
    EveryRunEnds
CHECK_DEADLOCK FALSE
