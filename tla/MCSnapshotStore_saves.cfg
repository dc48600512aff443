SPECIFICATION Spec
CONSTANTS
    IDs = {1, 2}
    EndsWith <- OneEndsTwo
    DayLength = 2
    MaxNow = 3
    MaxBuilt = 3
    PageLimit = 2
    None = None
INVARIANTS
    TypeOK
    AckedStays
    FoundByID
    LatestKeepsUp
    ListIsComplete
