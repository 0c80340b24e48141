SPECIFICATION FairSpec
CONSTANTS
    Client = {c1, c2, c3}
    Value = {v1, v2}
    Services <- AllServices
    Flusher = flusher
    Threshold = 2
    MaxFailures = 4
    None = None
    Null = Null
    Nobody = Nobody
INVARIANTS
    StaleOnlyIfLate
    NoNeedlessLoad
    BreakerDecides
PROPERTIES
    DirtyIsNotLost
    DirtyIsFlushed
