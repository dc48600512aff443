SPECIFICATION Spec
CONSTANTS
    aurora = aurora
    redis = redis
    Types = {aurora, redis}
    Children = {1, 2}
    Inputs <- DistinctOrTwice
    Workers = {w1, w2}
    Providers = {aurora, redis}
    MaxRuns = 2
    MaxTries = 2
    MaxInventory = 0
    MaxFaults = 2
    LateAttempts = TRUE
    None = None
SYMMETRY Symmetry
INVARIANTS
    TypeOK
    OwnInventory
    CompletedIsStored
PROPERTY ImplementsContract
