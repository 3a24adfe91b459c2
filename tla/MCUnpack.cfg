SPECIFICATION IngestSpec
CONSTANTS
    Rewritten = "zip"
    IWorkers = {w1}
    InflightCap = 2
    ReorderCap = 2
    Named = {}
    Limits = {0}
    MaxPasses = 2
    MaxTouches = 0
    MaxIFaults = 0
    Workers = {w1}
    Ingestable = {"rom"}
    Keys = {"key"}
    MaxStarts = 2
    MaxFaults = 1
    MaxReaps = 1
    k1 = k1
    k2 = k2
    l1 = l1
    l2 = l2
    Readers = {r1,r2}
    Leaves = {l1,l2}
    Components = {k1,k2}
    NoComponent = NoComponent
    MaxRots = 1
    MaxReads = 2
    TreeCap = 2
    Pool = {p1, p2}
    PageSize = 2
    QueueCap = 3
    MaxDrift = 1
    Corpus = 4
    CorpusKinds <- BlessKinds
    CorpusWeight <- BlessWeight
    Pieces = {1,2,3,4,5,6,7,8}
    Routes = {1,2,3,4,5,6,7,8,9,10}
    Assembles = {1, 2, 3, 4, 5, 6, 7, 8, 9}
    Holdings = {{1, 2}, {1, 2, 3}}
    Late = {{}, {5}}
    Liars = {{}, {5}}
    ReclaimMin = 4
    MaxCrashes = 1
    MaxErrors = 1
    MaxPublished = 1
    Symbols = {a,b,c}
    LastCell = 2
    b1 = b1
    b2 = b2
    b3 = b3
    SBlobs = {b1,b2,b3}
    WantLists = {{},{b1}}
    MaxRounds = 2
    MaxLosses = 1
INVARIANT SkippedIsKept
CHECK_DEADLOCK FALSE
