SPECIFICATION Spec
CONSTANTS
    Caller = {"single"}
    Watched = {"single"}
    nodes <- ThreeNodes
    retryCount = 3
    FailureThreshold = 2
    MaxRequests <- Batches
    MaxChecks = 1
PROPERTIES
    GivesUpWhenAllAsked
