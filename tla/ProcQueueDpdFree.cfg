SPECIFICATION Spec
CONSTANTS
    Size = 2
    Width = 2
    BaseOwner = {}
    QtOwner = {}
    DpdOwner = {d1}
INVARIANTS NoUseAfterFree
