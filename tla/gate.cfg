SPECIFICATION Spec
CONSTANTS
    Tenants = {"acme"}
    Projects = {"app"}
    NoProject = ""
    Budgets = {1}
    Handlers = {h1, h2}
    Trackers = {c1}
    h1 = h1
    h2 = h2
    c1 = c1
    Costs = {19}
    MaxCost = 19
    Limits <- MCLimits
    Thresholds <- MCThresholds
    DenyOnExceed = TRUE
    MayFail = FALSE
    InitDefined = {1}
    InitBudget <- MCInitBudget
    MaxRequests = 4
    MaxSets = 1
VIEW GateView
SYMMETRY HandlerSymmetry
INVARIANTS
    OvershootBound
    AlertNotMissed
