SPECIFICATION Spec
CONSTANTS
    Models <- MCModels
    Words <- MCWords
    Labels <- MCLabels
    Calls <- MCCalls
    Files <- MCFiles
    Releases <- MCReleases
    Readers = {r1}
    r1 = r1
    Filters = {"globex", ""}
    Everyone = ""
    MaxRows = 3
INVARIANTS
    TypeOK
    PartsInOrder
    CalmReplyAgrees
    CountersOnlyGrow
    AdviceSaves
    AdviceSettles
