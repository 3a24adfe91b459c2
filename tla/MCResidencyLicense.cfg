CONSTANTS
    p1 = p1
    p2 = p2
    None = None
    Dead = Dead
    Proc = {p1, p2}
    Blob = {"rom", "enc"}
    Recipe = {"encode", "decode"}
    In <- PairIn
    Out <- PairOut
    Good <- EncodeLies
    Holds <- PairHolds
    Flaky = {}
    Source = {"rom", "enc"}
    Pinned = {}
    Named = {}
    Ops = {"ingest", "ingest_unpack", "mint", "peer", "license", "materialize", "rehabilitate", "poison", "evict", "unpack", "recover"}
    Guarded = {"drop"}
    Stored = {"rom"}
    Minted = {}
    MaxCrash = 1
    MaxLapse = 1
SYMMETRY ProcSymmetry
SPECIFICATION Spec
INVARIANT LicensedSound
