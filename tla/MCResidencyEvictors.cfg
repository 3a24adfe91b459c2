CONSTANTS
    p1 = p1
    p2 = p2
    None = None
    Dead = Dead
    Proc = {p1, p2}
    Blob = {"zip", "rom", "enc"}
    Recipe = {"unzip", "encode", "decode"}
    In <- ArchiveIn
    Out <- ArchiveOut
    Good <- ArchiveOut
    Holds <- ArchiveHolds
    Flaky = {"encode"}
    Source = {"zip", "rom"}
    Pinned = {}
    Named = {}
    Ops = {"evict", "pack", "poison", "heal", "mint", "peer"}
    Guarded = {"drop"}
    Stored = {"zip", "rom", "enc"}
    Minted = {"encode", "decode"}
    MaxCrash = 0
    MaxLapse = 0
SPECIFICATION FairSpec
INVARIANTS NothingStranded UnlinkStillGrounded DropExclusive
PROPERTY GuardIsFreed
