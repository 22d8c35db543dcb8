SPECIFICATION Spec
CONSTANTS
    Keys = {1}
    SegmentRows = 2
    WalLevels = {"Full"}
    LevelChanges = {}
    MaxReplacements = 1
    MaxRows = 3
    MaxGenerations = 0
    MaxCrashes = 1
    MaxFaults = 1
    FaultKinds = {"lost"}
INVARIANT
    ZeroLossWindow
