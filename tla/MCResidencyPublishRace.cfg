CONSTANTS
    p1 = p1
    p2 = p2
    None = None
    Dead = Dead
    Proc = {p1, p2}
    Blob = {"rom", "enc"}
    Recipe = {"encode", "decode"}
    In <- PairIn
    Out <- PairOut
    Good <- PairOut
    Holds <- NoHolds
    Flaky = {}
    Source = {"rom", "enc"}
    Pinned = {}
    Named = {}
    Ops = {"license", "evict"}
    Guarded = {"drop"}
    Stored = {"rom", "enc"}
    Minted = {"encode", "decode"}
    MaxCrash = 0
    MaxLapse = 0
SYMMETRY ProcSymmetry
SPECIFICATION Spec
INVARIANT NothingStranded
