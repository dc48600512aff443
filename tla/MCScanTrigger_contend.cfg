SPECIFICATION Spec
CONSTANTS
    aurora = aurora
    redis = redis
    id = id
    Types = {aurora, redis}
    Replicas = {r1, r2}
    Configs <- Deployed
    Requests <- Asked
    MaxRestarts = 1
    MaxFires = 2
    MaxPosts = 2
    MaxFaults = 1
    MaxEvents = 4
    None = None
SYMMETRY Symmetry
INVARIANTS
    SingleScan
    OwnScanID
    AcceptedAsAsked
    ScheduleIsCurrent
