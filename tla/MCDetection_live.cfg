SPECIFICATION FairSpec
CONSTANTS
    aurora = aurora
    redis = redis
    Types = {aurora, redis}
    Children = {1, 2}
    Inputs <- DistinctOrTwice
    Workers = {w1, w2}
    Providers = {aurora}
    MaxRuns = 2
    MaxTries = 2
    MaxInventory = 1
    MaxFaults = 2
    LateAttempts = FALSE
    None = None
INVARIANTS
    Coherent
    CacheDrained
PROPERTY ScanEnds
