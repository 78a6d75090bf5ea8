SPECIFICATION Spec
CONSTANTS
    Rand <- MCRand
    MaxPackets = 2
    MaxChunks = 2
    ResendMax = 1
    HsRetry = 2
    RsRetry = 2
    DoneRetry = 2
    MaxRestarts = 1
    SocketErrors = FALSE
CHECK_DEADLOCK FALSE
INVARIANT RestartIntact
