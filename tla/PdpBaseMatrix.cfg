SPECIFICATION Spec
CONSTANTS
    n = n
    f = f
    g = g
    m = m
    Obj = {n, m}
    NoObj = NoObj
    Kind <- MCKinds
    Wire <- HotWire
    MaxCold = 1
    NbHandles = 4
    Capacity = 2
    MayFree = {}
    Threaded = {m}
    MayToggle = {}
INVARIANT MatrixProcessed
