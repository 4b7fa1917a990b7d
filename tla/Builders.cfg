\* For a lock every rest up to well beyond the smallest that leaves a standard change
\* output; for a spend coins so small that the loop does not settle, and large ones;
\* plans over two coins, the second of two transactions spending what the first made;
\* scripts of two items, in bytes of four bits.
SPECIFICATION BuildersSpec
CONSTANTS
    StorageC = 40000
    ComputeMass = 5
    Amount = 20000
    LockRests <- ManyLockRests
    SpendRests <- ManySpendRests
    Fundings <- MCFundings
    Rest <- MCRest
    MaxRest = 1754
    MassLimit = 40
    DustLimit = 5
    Mass <- MCMass
    Coins <- SomeCoins
    Plans <- SomePlans
    Alterations = {1}
    MaxAccepted = 2
    U64Max = 6
    ByteBase = 16
    ShortMax = 3
    SmallMax = 2
    NumberMax = 32767
    Known = {11, 12}
    Numbers <- SomeNumbers
    Data <- SomeData
    MaxItems = 2
INVARIANTS
    TypeOK
    PaysMinimumFee
    SettlesInTime
    NativeTypeOK
    FeeIsAsPlanned
    ValidatedIsTaken
    NumbersAreKept
    ReadBack
CHECK_DEADLOCK FALSE
