SPECIFICATION SpecMonitoring
CONSTANTS
    n1 = n1
    n2 = n2
    Node = {n1, n2}
    Key = {k1}
    Value = {v1}
    Client = {c1}
    Layouts <- Alternating
    Start <- OnlyN1
    ReAdd = FALSE
    MaxCaches = 2
    NoNode = NoNode
    Observer = {app, http}
    Integrator = app
    NoObserver = NoObserver
    maxSnapshots = 1
INVARIANTS
    SnapshotIsOneRing
    HolderIsNotStuck
PROPERTIES
    CapturesCountOnce
