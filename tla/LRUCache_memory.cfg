SPECIFICATION Spec
CONSTANTS
    k1 = k1  k2 = k2  k3 = k3  v1 = v1  v2 = v2  v3 = v3
    Key = {k1, k2, k3}
    Value = {v1, v2, v3}
    KeyLen <- MCKeyLen
    ValueLen <- MCValueLen
    Capacity = 2
    MemoryLimit = 200
    HasTTL = FALSE
    Durations = {1}
    CleanupInterval = 2
    MaxBatch = 2
    MaxRequests = 2
    MaxRuns = 1
    Miss = Miss
    NoAnswer = NoAnswer
INVARIANTS
    MemoryExact
    RequestsAddUp
    OrderedByUse
PROPERTIES
    InsertionRestoresLimit
    EvictsOnlyWhatItMust
    EvictsLeastRecentlyUsed
