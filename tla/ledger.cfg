SPECIFICATION FairSpec
CONSTANTS
    Tenants = {"acme"}
    Projects = {"app"}
    NoProject = ""
    Budgets = {1, 2}
    Handlers = {h1}
    Trackers = {c1}
    h1 = h1
    c1 = c1
    Costs = {19}
    MaxCost = 19
    Limits <- MCLimits
    Thresholds <- MCThresholds
    DenyOnExceed = TRUE
    MayFail = TRUE
    InitDefined = {1, 2}
    InitBudget <- MCInitBudget
    MaxRequests = 2
    MaxSets = 1
INVARIANTS
    TypeOK
    ChargesMatchUsage
    RollupsMatchUsage
PROPERTIES
    LedgerImplemented
    RecordingAdvances
    RecordingEnds
