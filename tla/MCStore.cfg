SPECIFICATION Spec
CONSTANTS
    Blobs = {a, b}
    Big = {a}
    Threads = {t1, t2}
    None = None
    Trees <- MCTrees
    MaxOps = 3
    MaxCrashes = 1
    MaxFaults = 1
SYMMETRY Symm
INVARIANTS MapIsSound NoFalseAbsence
 
CHECK_DEADLOCK FALSE
