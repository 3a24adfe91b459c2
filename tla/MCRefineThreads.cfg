CONSTANTS
    None = None
    Prime = prime
    Drone = {d1}
    Cli = {c1}
    Blob = {"disc", "key"}
    Roster <- TwoFamilies
    Fallback = {"chunk"}
    Enabled = {"wii", "chunk"}
    Cand <- OneDisc
    Needs <- NoNeeds
    Rebuildable = {"disc"}
    Source = {"disc"}
    Held = {"key"}
    MaxFault = 1
    MaxEvict = 1
SPECIFICATION Spec
INVARIANTS TypeOK SettledStaysSettled NoDoubleAnalysis FleetCountHonest
