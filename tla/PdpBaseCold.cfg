SPECIFICATION FairSpec
CONSTANTS
    n = n
    f = f
    g = g
    m = m
    Obj = {n, f}
    NoObj = NoObj
    Kind <- MCKinds
    Wire <- ColdWire
    MaxCold = 1
    NbHandles = 5
    Capacity = 2
    MayFree = {}
    Threaded = {n, f}
    MayToggle = {}
PROPERTY ColdNewest
