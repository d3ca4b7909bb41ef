\* The process ends, and then nothing happens: no deadlock.
CHECK_DEADLOCK FALSE
SPECIFICATION FairSpec
CONSTANTS
    Handlers = {h1, h2, h3}
    h1 = h1
    h2 = h2
    h3 = h3
INVARIANTS
    LifeTypeOK
    CleanExitLosesNothing
    
PROPERTIES
    StopEnds
