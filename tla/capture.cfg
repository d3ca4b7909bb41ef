SPECIFICATION FairSpec
CONSTANTS
    Models <- MCModels
    NoModel = ""
    Values <- MCValues
    Depth <- MCDepth
    Answers <- MCAnswers
    Bodies <- MCBodies
    Requests <- MCRequests
    Priced = {"gpt-4o", "claude", "gemini"}
    MaxText = 13
    Runes <- MCRunes
    MayFail = TRUE
INVARIANTS
    TypeOK
    BilledOnce
    BilledAsRead
    TerminalUsageIsExact
    MapOrderIsHarmless
PROPERTIES
    LeavingEndsTheHandler
