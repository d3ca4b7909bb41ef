SPECIFICATION Spec
CONSTANTS
    Procs = {p1, p2, p3}
    p1 = p1
    p2 = p2
    p3 = p3
    None = None
    Last = 3
    Repeatable = {1}
    Backfills = {3}
SYMMETRY ProcSymmetry
INVARIANTS
    TypeOK
    VersionsMatchSchema
    ReadyIsComplete
    LoneStartSucceeds
