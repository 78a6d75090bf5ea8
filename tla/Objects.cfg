SPECIFICATION ObjectsSpec
CONSTANTS
    NbFrames = 2
    Sizes = {0, 3}
    Positions = {0, 1}
    DelayOrder = 2
    Nested = {"seek", "record", "stop"}
    MaxHead = 4
    Trigger <- MCTrigger
    Rates <- MCRates
    Outlets = 3
    Controls = {"c1", "c2", "c3"}
    BlockSize = 2
    SampleRate = 5
    MaxBlocks = 6
    MaxInside = 2
    DeletesTold = FALSE
    MaxDrops = 3
    Bits = 8
    GainOne = 4
    Thresholds = {0, 1, 7, 64, 127}
    Pixels <- MCPixels
    Gains <- MCGains
    Kernels <- MCKernels
    Polynomials <- MCPolynomials
    Coefficients <- MCCoefficients
    Images <- MCImages
    WordBits = 6
    Contrast <- MCContrast
    Sides = {2, 3, 4, 7, 8}
    Levels = {0, 100, 255}
    Widths = {4}
    Heights = {2, 4}
    ScanBuffers = 3
    ScanSizes <- MCScanSizes
    SumSizes <- MCSumSizes
    ScanLevels <- MCScanLevels
    GreyLevels <- MCGreyLevels
    ArrayValues <- MCArrayValues
    InterpolateArgs = {1}
    SampleSizes = {1, 2, 3, 5}
    LogBins = 1
    LogLevels = 2
    MaxLog = 1
    RingSize = 4
    ScopeWidths = {1, 3, 4}
    ScopeBlocks = {1, 2, 3, 5}
    MaxSamples = 7
    ViewClasses = {"xv", "glx"}
    ViewSizes <- MCViewSizes
    ViewWidths = {9}
    CapWidth = 3
    Screen = 6
    ViewNested = {"packet", "bang", "open", "autocreate", "window", "poll"}
    PollsClosed = FALSE
    ImageFails = FALSE
    ReusesAddress = FALSE
    Retry = 2
    MaxWindows = 2
    MaxEvents = 2
    SdlObjects = {1, 2}
    SdlFails = FALSE
INVARIANTS FrameSound PatchSound RoutinesSound PlanesSound ScannersSound SamplesSound DisplaySound
CHECK_DEADLOCK FALSE
