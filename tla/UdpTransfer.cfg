SPECIFICATION FairSpec
CONSTANTS
    Rand <- MCRand
    MaxPackets = 2
    MaxChunks = 2
    ResendMax = 1
    HsRetry = 1
    RsRetry = 2
    DoneRetry = 1
    MaxRestarts = 1
    SocketErrors = TRUE
INVARIANTS ConfirmedDelivered DeliveredIntact
PROPERTIES SendReturns
CHECK_DEADLOCK FALSE
