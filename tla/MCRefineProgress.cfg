CONSTANTS
    None = None
    Prime = prime
    Drone = {d1}
    Cli = {}
    Blob = {"disc", "key"}
    Roster <- TwoFamilies
    Fallback = {"chunk"}
    Enabled = {"wii", "chunk"}
    Cand <- OneDisc
    Needs <- KeyForWii
    Rebuildable = {"disc"}
    Source = {"disc", "key"}
    Held = {}
    MaxFault = 1
    MaxEvict = 0
SPECIFICATION FairSpec
PROPERTY EveryBlobConcludes
