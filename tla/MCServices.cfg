SPECIFICATION Spec
CONSTANTS
    OBlobs = {x, y}
    Appliers = {"daemon"}
    Grace = 1
    MaxIngests = 1
    MaxNames = 2
    MaxDeaths = 1
    Files = {f1, f2}
    Runs = {r1, r2}
    KeepFinished = 1
    LedgerKeep = 1
    MaxFaults = 1
    MaxRestarts = 1
    Names = {n1, n2}
    Invites = {i1}
    Clients = {c1, c2}
    Views = {v}
    SessionTtl = 1
    MaxClock = 2
    MaxSessions = 2
    v1 = v1
    s1 = s1
    s2 = s2
    Root = Root
    NoNode = NoNode
    ViewNames = {v1}
    Snaps = {s1, s2}
    ColdCeiling = 1
    Walkers = {c1}
    MaxRequests = 3
    MaxEvals = 1
    MaxNfsRestarts = 1
    FrontViewNames = {"v"}
    FrontBlobs = {"big", "one", "new"}
    FrontManifests <- FrontSnaps
    FrontCallers <- FrontClients
    FrontPath <- FrontWanted
    FirstSnap = "s1"
    WindowSize = 2
    CacheCap = 2
    Nowhere = Nowhere
    MaxMoves = 2
    MaxAsks = 2
    Sources = {"sA", "sB"}
    ApiRows <- ApiInstanceEntries
    Revisions = {1, 2}
    RootCap = 1
    PageLimit = 2
    MaxChanges = 2
    MaxCalls = 3
    OnJobs = {1,2,3}
    MaxSnapshotsChanges = 1
    MaxDemands = 1
    MaxSnapshotsFaults = 1
    MaxLosses = 1
INVARIANTS JobsHonest NfsFaithful AnswersExact  
PROPERTIES  AuthoritySound
CHECK_DEADLOCK FALSE
