SPECIFICATION Spec
CONSTANTS
    Keys = {1}
    SegmentRows = 2
    WalLevels = {"Off", "Full"}
    LevelChanges <- MCDown
    MaxReplacements = 1
    MaxRows = 2
    MaxGenerations = 0
    MaxCrashes = 1
    MaxFaults = 0
    FaultKinds = {}
INVARIANT
    MutationsWhole
