SPECIFICATION FairSpec
CONSTANTS
    Types = {aurora, redis}
    Workers = {w1}
    MaxScans = 3
    MaxTries = 2
    MaxFaults = 2
    LateAttempts = FALSE
    Restarts = FALSE
INVARIANTS
    SnapshotIsOfItsScan
    CompletedIsLatest
PROPERTY ScanReturns
