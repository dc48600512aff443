SPECIFICATION Spec
CONSTANTS
    Days = {2, 3, 4, 5}
    MaxNow = 12
    Schemas <- All
    EOLWarningDays = 2
    CacheTTL = 2
    ScanGap = 4
    None = None
    Always = Always
INVARIANTS
    TypeOK
    FreshIsRight
    RedWithinTTL
    NeverUnwarned
PROPERTIES
    RedStays
