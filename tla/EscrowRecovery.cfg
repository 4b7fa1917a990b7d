\* Liveness: the buyer gets the money back without the seller.
SPECIFICATION FairSpec
CONSTANTS
    buyer = buyer
    seller = seller
    good = good
    foreign = foreign
    Elsewhere = Elsewhere
    Keys = {buyer, seller}
    Outpoints = {good}
    ForeignOutpoints = {}
    Entry <- AgreementEntry
    LockTimeThreshold = 5
    I64Max = 12
    TermsOffered <- MCTerms
    Endpoints <- ObserveEndpoints
    UntrustedRows <- RecoveryRows
    HandBuilt = {}
    Fees = {1}
    ComputeBudgets = {1}
    MaxDaa = 2
    MaxReorgs = 1
    MaxSwitches = 1
    MaxPlans = 4
    MaxHandSigned = 0
PROPERTIES
    MoneyLeaves
CHECK_DEADLOCK FALSE
