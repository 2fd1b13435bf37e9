SPECIFICATION Spec
CONSTANTS
    Page = 2
    PmemAlign = 4
    KernelGpa = 1
    WindowGpa = 8
    MinWindow = 3
    AddressLimit = 28
    Images = {"empty", "small", "large"}
    ImageLength <- MCLengths
    MemorySizes = {4, 8, 10, 11, 14}
    KernelSizes = {1, 6, 8}
    InitrdSizes = {0, 2, 3, 18}
    MaxImages = 3
    Workers = {w1, w2}
    Keys = {"k1", "k2"}
    Tools = {"a", "b"}
    ToolOf <- MCToolOf
    Motes = {m1, m2, m3}
    Nothing = Nothing
    WarmTemplates = 1
    Signals = 3
    FrameReads = 2
    MaxFrame = 2
    MaxExchanges = 2
    TurnIds = {"t1", "t2"}
    MaxAsks = 2
    MaxCalls = 2
    MaxRequests = 2
    MaxOutput = 2
    MaxTotal = 4
    MaxGets = 2
    MaxPosts = 1
    MaxHops = 3
    Names = {"a", "b", "c"}
    Sizes = {0, 1, 2}
    MaxFiles = 2
    FileBytes = 3
    TotalBytes = 3
    MaxOperations = 3
    WorkTurns = {1, 2}
    Processes = {p1, p2}
    Contents = {1, 2}
    Aliases = {"x"}
    MaxCommands = 2
    Programs = {"d", "o"}
    Declared = "d"
    MaxChunks = 1
    MaxFrames = 3
INVARIANTS
    RunsAttested
    VerdictTrue
    EntryStored
    RegionsApart
    ForksSound
    AnswersWhole
    BudgetsKept
    WorkspaceSound
PROPERTIES
    CellStops
CHECK_DEADLOCK FALSE
