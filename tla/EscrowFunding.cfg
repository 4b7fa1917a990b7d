\* Outpoints of every kind at the escrow address: what the tool and the script make of them.
SPECIFICATION Spec
CONSTANTS
    buyer = buyer
    seller = seller
    good = "good"
    foreign = "stranger"
    Elsewhere = Elsewhere
    Keys = {buyer, seller}
    Outpoints = {"good", "most", "small", "huge", "covenant", "coinbase"}
    ForeignOutpoints = {"stranger"}
    Entry <- FundingEntry
    LockTimeThreshold = 5
    I64Max = 12
    TermsOffered <- MCTerms
    Endpoints <- AgreementEndpoints
    UntrustedRows = {}
    HandBuilt <- FundingHandBuilt
    Fees = {0, 1, 3}
    ComputeBudgets = {0, 1}
    MaxDaa = 2
    MaxReorgs = 0
    MaxSwitches = 0
    MaxPlans = 1
    MaxHandSigned = 1
INVARIANTS
    ToolDoesAsWell
    PlansAreSpendable
CHECK_DEADLOCK FALSE
