\* Wallets sign what the tool plans and what is built by hand; no observation.
SPECIFICATION Spec
CONSTANTS
    buyer = buyer
    seller = seller
    good = good
    foreign = foreign
    Elsewhere = Elsewhere
    Keys = {buyer, seller}
    Outpoints = {good}
    ForeignOutpoints = {}
    Entry <- AgreementEntry
    LockTimeThreshold = 5
    I64Max = 12
    TermsOffered <- MCTerms
    Endpoints <- AgreementEndpoints
    UntrustedRows = {}
    HandBuilt <- AgreementHandBuilt
    Fees = {0, 1, 3}
    ComputeBudgets = {0, 1}
    MaxDaa = 2
    MaxReorgs = 1
    MaxSwitches = 0
    MaxPlans = 2
    MaxHandSigned = 2
INVARIANTS
    TypeOK
    PaidByAgreement
    NoEarlyRefund
    FeeWithinCap
PROPERTIES
    PromiseKept
CHECK_DEADLOCK FALSE
