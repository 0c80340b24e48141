SPECIFICATION Spec
CONSTANTS
    Node = {"a", "b", "c"}
    Key = {k1}
    Value = {v1}
    Config <- JoinOfC
    Running = {"a", "b"}
    Fresh = {}
    Checked = {"a", "b"}
    Movable = {"c"}
    Checking = {"a", "b"}
    Orders <- OwnedByCOrA
    MaxCalls = 1
    MaxEvents = 2
INVARIANTS
    CopySurvives
    ViewsConverge
    OwnerHoldsKey
    NoCircularWait
