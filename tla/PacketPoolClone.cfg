SPECIFICATION Spec
CONSTANTS
    t1 = t1
    t2 = t2
    Thread = {t1, t2}
    v1 = v1
    v2 = v2
    v3 = v3
    Var = {v1, v2}
    Null = Null
    Data = {0}
    Type = {"bitmap"}
    SizeOf <- MCSize
    Canon <- MCCanon
    NoFactory = {}
    Scarce = {"bitmap"}
    Impure = {}
    Sleepy = {}
    DoNotCopy = {}
    SwappedCopy = {}
    Shared = {"bitmap"}
    InitialSize = 1
    MaxPool = 4
SYMMETRY PoolSymmetry
INVARIANT ReturnsWritable
