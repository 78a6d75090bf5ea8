SPECIFICATION FairSpec
CONSTANTS
    Size = 2
    Width = 2
    BaseOwner = {b1}
    QtOwner = {q1}
    DpdOwner = {}
PROPERTIES CalledBack
