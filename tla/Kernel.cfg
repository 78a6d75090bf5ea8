SPECIFICATION Spec
CONSTANTS
    MaxCells = 4
    MaxNew = 2
    MaxFilled = 2
    Block = 2
    NbLists = 4
    Values = {1}
    IntRange = 1000
    NoList = NoList
    MaxText = 5
    MaxList = 5
    Sources <- MCSources
    Templates <- MCTemplates
    MaxSteps = 6
    Threads = {t1, t2}
    Rounds <- MCRounds
    Convertible <- MCConvertible
    max_cache_size = 2
    Bucket <- MCBucket
    MaxPrograms = 3
    ViewClasses = {"xv", "glx"}
    ViewSizes <- MCViewSizes
    ViewWidths = {9}
    CapWidth = 3
    Screen = 6
    ViewNested = {"packet", "bang", "open", "poll", "destroy", "display", "free"}
    PollsClosed = FALSE
    ImageFails = TRUE
    ReusesAddress = FALSE
    Retry = 0
    MaxWindows = 2
    MaxEvents = 2
    SdlObjects = {}
    SdlFails = TRUE
INVARIANTS HeapSound ReaderSound ConversionSound CacheSound SymbolsUnique DisplayKept
PROPERTIES ListsAreSequences
CHECK_DEADLOCK FALSE
