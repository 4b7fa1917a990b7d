SPECIFICATION SourceSpec
CONSTANTS
    U32Max = 3
    I64Max = 15
    U64Max = 31
    LockTimeThreshold = 5
    MaxSequence = 9
    LockAmount = 3
    Wallet = "wallet"
    Signers = {"wallet", "other"}
    CompileTargets = {"verified-tn12"}
    Depth <- AllDepths
    MaxDepth = 9
    Contracts <- Programs
    Sources <- Commented
    Bindings <- JustApi
    Transactions <- SomeTransactions
    Moments <- SomeMoments
INVARIANT
    CommentsAreSkipped
CHECK_DEADLOCK FALSE
