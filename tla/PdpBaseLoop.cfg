SPECIFICATION Spec
CONSTANTS
    n = n
    f = f
    g = g
    m = m
    Obj = {n, g}
    NoObj = NoObj
    Kind <- MCKinds
    Wire <- LoopWire
    MaxCold = 1
    NbHandles = 6
    Capacity = 2
    MayFree = {}
    Threaded = {n, g}
    MayToggle = {}
INVARIANT TaskOwnsPackets
