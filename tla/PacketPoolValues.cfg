SPECIFICATION Spec
CONSTANTS
    t1 = t1
    t2 = t2
    Thread = {t1, t2}
    v1 = v1
    v2 = v2
    v3 = v3
    Var = {v1, v2}
    Null = Null
    Data = {0, 1}
    Type = {"image", "inexact"}
    SizeOf <- MCSize
    Canon <- MCCanon
    NoFactory = {}
    Scarce = {}
    Impure = {}
    Sleepy = {}
    DoNotCopy = {}
    SwappedCopy = {}
    Shared = {"image"}
    InitialSize = 1
    MaxPool = 4
SYMMETRY PoolSymmetry
INVARIANT CopyFaithful
PROPERTY ImplementsValues
CHECK_DEADLOCK FALSE
