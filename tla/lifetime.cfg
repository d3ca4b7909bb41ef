SPECIFICATION Spec
CONSTANTS
    Period = "daily"
    Limit = 3
    MonthStarts <- MCMonthStarts
    Handlers = {h1}
    Resetters = {}
    h1 = h1
    Costs = {3}
    MayFail = FALSE
    LastDay = 2
    MaxRequests = 2
    MaxResets = 0
INVARIANTS
    RefusesWithinPeriod
