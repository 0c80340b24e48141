SPECIFICATION FairSpec
CONSTANTS
    Caller = {"single", "batch"}
    Watched = {}
    nodes <- TwoNodes
    retryCount = 2
    FailureThreshold = 2
    MaxRequests <- Batches
    MaxChecks = 1
INVARIANTS
    TypeOK
    HealthMatchesCount
PROPERTIES
    CallsReturn
    ExclusionsEnd
