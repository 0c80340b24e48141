SPECIFICATION Spec
CONSTANTS
    full = full
    half1 = half1
    half2 = half2
    light = light
    Node = {full, half1, half2, light}
    Size = 5
    virtualCount = 2
    Weight <- Weights
    Hashes <- AllHashes
    RingKind = {"basic", "virtual"}
INVARIANTS
    ReplicasAreNearest
    WeightsHold
PROPERTIES
    ChangesKeepOrder
