SPECIFICATION FairSpec
CONSTANTS
    opensearch = opensearch
    lambda = lambda
    Callers = {opensearch, lambda}
    Sources <- Configured
    Contents <- Runs
    CacheTTL = 2
    MaxAge = 1
    MaxSkew = 1
    MaxRetries = 2
    Ahead = {0, 1, 2}
    FlightTime = 1
    MaxNow = 3
    None = None
INVARIANTS
    TypeOK
    ListsItsOwn
    FreshWhenAnswered
PROPERTIES
    NoSecondDownload
    CallsReturn
