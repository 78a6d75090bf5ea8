SPECIFICATION Spec
CONSTANTS
    t1 = t1
    t2 = t2
    Thread = {t1, t2}
    v1 = v1
    v2 = v2
    v3 = v3
    Var = {v1, v2}
    Null = Null
    Data = {0}
    Type = {"image", "bitmap", "context"}
    SizeOf <- MCSize
    Canon <- MCCanon
    NoFactory = {"context"}
    Scarce = {"bitmap"}
    Impure = {"context"}
    Sleepy = {"context"}
    DoNotCopy = {"context"}
    SwappedCopy = {}
    Shared = {"image"}
    InitialSize = 3
    MaxPool = 3
SYMMETRY PoolSymmetry
INVARIANTS RefCount FifoSound
CHECK_DEADLOCK FALSE
