SPECIFICATION Spec
CONSTANTS
    Types = {aurora, redis}
    Workers = {w1, w2}
    MaxScans = 2
    MaxTries = 2
    MaxFaults = 1
    LateAttempts = TRUE
    Restarts = TRUE
SYMMETRY Symmetry
INVARIANTS
    FullSnapshotComplete
    ReadersFindSnapshot
