SPECIFICATION Spec
CONSTANTS
    Node = {n1, n2}
    Key = {k1}
    Value = {v1}
    Client = {c1}
    Positions = {0, 1}
    KeyPositions = {0}
    VirtualNodes = 1
    Layouts <- CleanLayouts
    Start <- OneMember
    ReAdd = FALSE
    MaxCaches = 2
    NoNode = NoNode
INVARIANTS
    CompletedWritesSurvive
