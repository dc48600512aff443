SPECIFICATION Spec
CONSTANTS
    i1 = i1
    i2 = i2
    i3 = i3
    aurora = aurora
    redis = redis
    IDs = {i1, i2, i3}
    Types = {aurora, redis}
    Inventory <- Separate
    Statuses = {red, green}
    MaxScans = 3
    MaxNow = 3
    None = None
INVARIANTS
    ListedAreStamped
PROPERTIES
    ImplementsListings
    EvictsGone
    DetectedOnce
