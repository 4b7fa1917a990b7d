SPECIFICATION SourceSpec
CONSTANTS
    U32Max = 3
    I64Max = 15
    LockTimeThreshold = 5
    MaxSequence = 9
    LockAmount = 3
    Wallet = "wallet"
    Signers = {"wallet", "other"}
    CompileTargets = {"verified-tn12"}
    U64Max = 31
    Depth <- AllDepths
    MaxDepth = 9
    Contracts <- Programs
    Sources <- Written
    Bindings <- AllBindings
    Transactions <- SomeTransactions
    Moments <- SomeMoments
INVARIANTS
    TypeOK
    ReadAsWritten
    ScriptIsSound
    NothingLost
    HarnessMeetsItsLock
    ModelIsTrue
    SignersAreNeeded
CHECK_DEADLOCK FALSE
