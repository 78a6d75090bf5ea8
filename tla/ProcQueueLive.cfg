SPECIFICATION FairSpec
CONSTANTS
    Size = 2
    Width = 2
    BaseOwner = {b1,b2}
    QtOwner = {}
    DpdOwner = {}
PROPERTIES QueueLive
