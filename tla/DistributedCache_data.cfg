SPECIFICATION Spec
CONSTANTS
    Node = {n1, n2, n3}
    Key = {k1}
    Value = {v1}
    Client = {c1}
    Positions = {0, 1, 2, 3, 4, 5}
    KeyPositions = {0, 1, 2, 3, 4, 5}
    VirtualNodes = 2
    Layouts <- CleanLayouts
    Start <- TwoMembers
    ReAdd = FALSE
    MaxCaches = 3
    NoNode = NoNode
SYMMETRY Symmetry
INVARIANTS
    TypeOK
    RingServesMembers
    RingIsRebuilt
    UnracedWritesSurvive
    OneCopy
PROPERTIES
    MinimalDisruption
