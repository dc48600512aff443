SPECIFICATION FairSpec
CONSTANTS
    Callers = {retry, late}
    Listings <- Served
    Resources <- Inventory
    CacheTTL = 2
    FlightTime = 1
    MaxNow = 4
    MaxChanges = 1
    None = None
    NotFound = NotFound
INVARIANTS
    FreshListing
    NeverBackwards
    JudgedByOwnCycle
    CauseIsTrue
PROPERTY CallsReturn
