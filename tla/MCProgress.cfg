SPECIFICATION ProgressSpec
CONSTANTS
    Blob <- MCBlob
    Recipe <- MCRecipe
    In <- MCIn
    Out <- MCOut
    Conns = {c1}
    Xids = {x1, x2}
    Retention = 1
    MaxSends = 2
    MaxTime = 2
    Stages = 2
    Outputs = 2
    Blocks = 2
    Depth = 1
    Habits = {"honest", "liar", "trapper", "short", "hungry"}
    Modes = {"store", "verify"}
    MaxPipeFaults = 1
    MaxChanges = 1
    MaxDemands = 1
    MaxSnapshotsFaults = 1
    MaxLosses = 0
    TreeCap = 2
    Pool = {p1, p2}
    PageSize = 2
    QueueCap = 3
    MaxDrift = 0
    MaxBlessFaults = 1
    Rewritten = "rom"
    IWorkers = {w1, w2}
    InflightCap = 2
    ReorderCap = 2
    Named = {}
    Limits = {0, 1}
    MaxPasses = 1
    MaxTouches = 0
    MaxIFaults = 1
INVARIANTS Sound Complete ExchangesHonest
PROPERTIES Terminates  PassesEnd 
CHECK_DEADLOCK FALSE
