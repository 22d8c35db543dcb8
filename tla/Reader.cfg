SPECIFICATION ReaderSpec
CONSTANTS
    Keys = {1}
    SegmentRows = 2
    WalLevels = {"Full"}
    LevelChanges = {}
    MaxReplacements = 1
    MaxRows = 2
    MaxGenerations = 1
    MaxCrashes = 1
    MaxFaults = 0
    FaultKinds = {}
    Attempts = 2
INVARIANTS
    WholeMutations
    LoadsWhenQuiet
PROPERTIES
    RefreshKeepsKills
    RefreshKeepsRows
