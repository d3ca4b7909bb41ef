SPECIFICATION Spec
CONSTANTS
    Slugs = {"acme", "default"}
    Default = "default"
    k1 = k1
    k2 = k2
    Keys = {k1, k2}
    r1 = r1
    Requests = {r1}
    p1 = p1
    p2 = p2
    Processes = {p1, p2}
    MultiTenant = TRUE
    MaxBegun = 5
SYMMETRY MCSymmetry
INVARIANTS
    TypeOK
    EnsuredIsTheRow
    UsageBelongsToKey
    ReportsAreIsolated
    DeadKeysAreRefused
    LiveKeysResolve
PROPERTIES
    EndsAreFinal
