SPECIFICATION ThreadsSpec
CONSTANTS
    NbPackets = 3
    MaxPackets = 5
    MaxReceived = 4
    SocketErrors = TRUE
    MaxStream = 3
    Chunks = 2
    QueueSizes = {0, 2}
    AudioBlock = 1
    OpensInSync = FALSE
    Unit = 8
    FloatArgs <- MCFloatArgs
    FilterKinds = {"small", "big", "other"}
    NbBuffers = 4
    MaxMessages = 1
    AllocFails = FALSE
    BufferCounts = {2}
    DriverFails = TRUE
    MaxFrames = 4
    MaxCommands = 3
INVARIANTS RingContents OutputOnce StreamSound FiltersSound CaptureSound
PROPERTIES SentInOrder NetLive StreamEnds FilterReady CaptureReturns
CHECK_DEADLOCK FALSE
