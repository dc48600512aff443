SPECIFICATION Spec
CONSTANTS
    Types = {aurora}
    Workers = {w1, w2}
    MaxScans = 1
    MaxTries = 2
    MaxFaults = 0
    LateAttempts = FALSE
    Restarts = FALSE
INVARIANT FamiliesAppear
