SPECIFICATION Spec
CONSTANTS
    Strings <- ObjectStrings
    Drafts <- ObjectDrafts
    Programs <- ObjectPrograms
    MaxDepth = 1
    Sector = 2
    HeadLen = 1
    SigLen = 1
    MinPadSplit = 2
    MinJunkRun = 2
    LiteralCap = 1
    ScanChunk = 2
    SecurityRange = 1
    LMaxPieces = 1
    LMaxDepth = 2
    LMaxTable = 2
    MaxImports = 3
    MaxStops = 1
    MaxMoves = 2
    MaxViews = 1
    Budget = 4
    DirCap = 2
    Reserved = 6
    BackupAt = 3
    PartitionLba = 3
    LfnUnits = 5
    MinClusters = 7
    MaxClusters = 12
    MaxSlots = 9
    MaxSectors = 36
    MaxFileSize = 5
    MaxFaults = 1
    Radix = 2
    MaxSelfDepth = 2
    MaxMeta = 4
    MaxReadFaults = 1
    ByteBits = 2
    WordBits = 8
    CodeBits = 3
    SmallBits = 2
    SmallCodes = 6
    Codes = 8
    FlatBits = 3
    Latch = 3
    SampleBits = 3
    Half = 256
    RunAway = 300
INVARIANTS CatalogFaithful 
CHECK_DEADLOCK FALSE
