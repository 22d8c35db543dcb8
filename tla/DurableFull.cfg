SPECIFICATION Spec
CONSTANTS
    Keys <- MCKeys
    SegmentRows = 2
    WalLevels = {"Full"}
    LevelChanges = {}
    MaxReplacements = 2
    MaxRows = 3
    MaxGenerations = 1
    MaxCrashes = 1
    MaxFaults = 0
    FaultKinds = {}
INVARIANTS
    RecoversCoordinates
PROPERTY
    ServesSharedStore
