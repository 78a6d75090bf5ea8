SPECIFICATION FairSpec
CONSTANTS
    n = n
    f = f
    g = g
    m = m
    Obj = {n, f, g, m}
    NoObj = NoObj
    Kind <- MCKinds
    Wire <- MCWire
    MaxCold = 1
    NbHandles = 7
    Capacity = 2
    MayFree = {f}
    Threaded = {n, f, g, m}
    MayToggle = {n}
INVARIANTS RefCount PacketsOwned PassedProcessed
PROPERTIES Lively
