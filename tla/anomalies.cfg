SPECIFICATION Spec
CONSTANTS
    Projects = {"app"}
    NoProject = ""
    Recorders = {w1, w2}
    w1 = w1
    w2 = w2
    Costs <- MCCosts
    Histories <- MCHistories
    FirstDay = 28
    MayFail = TRUE
    LastDay = 29
    MaxRecords = 4
INVARIANTS
    TypeOK
    CriticalDayIsAlerted
