CONSTANTS
    k1 = k1
    k2 = k2
    k3 = k3
    k4 = k4
    Key = {k1, k2, k3, k4}
    Value = {1, 2}
    Slot = {1, 2}
    Path <- MCPath
    MaxDepth = 3
    Batches <- MCBatches
    MaxFaults = 1
    MaxLate = 1
SPECIFICATION Spec
INVARIANTS
    StoreIsExact
    TriesAreExact
PROPERTIES
    ImplementsRootChain
    ImplementsKeyedState
