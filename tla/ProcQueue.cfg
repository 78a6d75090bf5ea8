SPECIFICATION Spec
CONSTANTS
    Size = 4
    Width = 8
    BaseOwner = {b1, b2}
    QtOwner = {}
    DpdOwner = {}
SYMMETRY OwnerSymmetry
INVARIANTS RingOrder SerialProcessing ClientsSafe
