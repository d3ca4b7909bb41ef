SPECIFICATION Spec
CONSTANTS
    Period = "weekly"
    Limit = 3
    MonthStarts <- MCMonthStarts
    Handlers = {h1, h2}
    Resetters = {r1}
    h1 = h1
    h2 = h2
    r1 = r1
    Costs = {2}
    MayFail = TRUE
    LastDay = 8
    MaxRequests = 3
    MaxResets = 2
INVARIANTS
    TypeOK
    ResetKeepsCharges
PROPERTIES
    ReportsCoverEveryDay
