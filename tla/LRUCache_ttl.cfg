SPECIFICATION FairSpec
CONSTANTS
    k1 = k1  k2 = k2  k3 = k3  v1 = v1  v2 = v2  v3 = v3
    Key = {k1, k2}
    Value = {v1, v2}
    KeyLen <- MCKeyLen
    ValueLen <- MCValueLen
    Capacity = 1
    MemoryLimit = 0
    HasTTL = TRUE
    Durations = {0, 1}
    CleanupInterval = 2
    MaxBatch = 1
    MaxRequests = 1
    MaxRuns = 1
    Miss = Miss
    NoAnswer = NoAnswer
INVARIANTS
    TypeOK
    ListMatchesTable
PROPERTIES
    LeavesForAReason
    ImplementsBoundedCache
    ExpiredIsCleaned
    CloseEndsCleaner
