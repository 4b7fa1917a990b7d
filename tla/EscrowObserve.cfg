\* The tool observes through a connection that moves, while the chain goes on.
SPECIFICATION Spec
CONSTANTS
    buyer = buyer
    seller = seller
    good = good
    foreign = foreign
    Elsewhere = Elsewhere
    Keys = {buyer, seller}
    Outpoints = {good}
    ForeignOutpoints = {foreign}
    Entry <- ObserveEntry
    LockTimeThreshold = 5
    I64Max = 12
    TermsOffered <- MCTerms
    Endpoints <- ObserveEndpoints
    UntrustedRows <- ObserveRows
    HandBuilt = {}
    Fees = {1}
    ComputeBudgets = {1}
    MaxDaa = 2
    MaxReorgs = 0
    MaxSwitches = 2
    MaxPlans = 1
    MaxHandSigned = 0
INVARIANTS
    RecheckCatchesOneMove
    PlansAreSpendable
CHECK_DEADLOCK FALSE
