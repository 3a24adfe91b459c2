CONSTANTS
    p1 = p1
    p2 = p2
    None = None
    Dead = Dead
    Proc = {p1}
    Blob = {"zip", "rom", "enc"}
    Recipe = {"unzip", "encode", "decode"}
    In <- ArchiveIn
    Out <- ArchiveOut
    Good <- ArchiveOut
    Holds <- ArchiveHolds
    Flaky = {"unzip"}
    Source = {"zip", "rom"}
    Pinned = {}
    Named = {"zip"}
    Ops = {"ingest", "mint", "peer", "license", "materialize", "rehabilitate",
           "poison", "evict", "pack", "unpack", "heal", "recover"}
    Guarded = {"drop"}
    Stored = {}
    Minted = {}
    MaxCrash = 0
    MaxLapse = 0
SPECIFICATION Spec
INVARIANTS TypeOK NothingStranded IndexHonest
PROPERTIES LegalVerifySteps 
