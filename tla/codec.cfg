SPECIFICATION MCSpec
CONSTANTS
    Values <- ValuesVal
    FrameValues <- FrameValuesVal
    RawBuffers <- RawBuffersVal
    Methods = {3}
    Keys = {"k1", "k2"}
    MaxDepth = 2
    MaxString = 2
    MaxElements = 2
    MaxKeyBytes = 2
    BadByte = 7
    TripleInputs <- TriplesVal
    Strings <- StringsVal
    LengthMod = 3
    MaxTriples = 3
    MaxCommands = 1
    MAX_TRIPLES = 3
    SigMark = 2
    SigCells = 2
    Sheets <- SheetsVal
    SharedItems <- SharedVal
    Docs <- DocsVal
    Paragraphs <- ParagraphsVal
    CsvRows = 2
    CsvCols = 2
    LineLimit = 5
    DumpLimit = 4
    DumpWidth = 2
    DumpSizes = {0, 1, 3, 4, 7}
    Alphabets <- AlphabetsVal
    MaxSymbols = 5
    MathDepth = 12
    Bytes = {0, 1, 63, 127, 200, 255}
    MaxInputBytes = 4
    Letters = {"a", "A", "w", "-", " "}
    MaxText = 4
    Anchors <- AnchorsVal
    MaxDays = 800
    Documents <- DocumentsVal
    Dirs = {"d", "e"}
    FileNames = {"x"}
    Preopens <- PreopensVal
    AllowedHosts = {"h"}
    OtherHosts = {"o"}
    SOCKET_FD_BASE = 5
    Iovs <- IovsVal
    MaxBytes = 4
    MaxHostCalls = 3
    Languages = {"php", "lua", "ruby", "javascript", "typescript", "go", "rust"}
    LangTools = {"t", "u"}
    Sources = {"s1", "s2"}
    Budget = 1
    Lengths = {1, 2, 4}
    MaxRequests = 4
    Loaders = {t1, t2}
    Modules = {m1}
    Limits = {0, 5}
    HostLanguages = {"lua", "php"}
    HostTools = {"a", "b"}
    MaxRegistry = 5
    Scanners = {r1, r2}
    PluginFiles = {"f", "g"}
    Manifests <- ManifestsVal
    MaxEdits = 2
    MaxLoads = 2
INVARIANTS ValuesReturn FramesReturn DocumentsKept ToolsExact WasiExact  HostedAsAsked
CHECK_DEADLOCK FALSE
