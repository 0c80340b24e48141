SPECIFICATION FairSpec
CONSTANTS
    Node = {n1, n2}
    Key = {k1, k2}
    Value = {v1}
    Client = {c1}
    Positions = {0, 1, 2, 3}
    KeyPositions = {1}
    VirtualNodes = 2
    Layouts <- CleanLayouts
    Start <- OneMember
    ReAdd = FALSE
    MaxCaches = 2
    NoNode = NoNode
PROPERTIES
    CountsWhatMoved
    CallsReturn
    ChangesEnd
