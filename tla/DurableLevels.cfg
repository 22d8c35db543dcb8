SPECIFICATION Spec
CONSTANTS
    Keys = {1}
    SegmentRows = 2
    WalLevels = {"Off", "Group", "Full"}
    LevelChanges <- MCUp
    MaxReplacements = 1
    MaxRows = 3
    MaxGenerations = 1
    MaxCrashes = 2
    MaxFaults = 1
    FaultKinds = {"lost", "torn"}
INVARIANTS
    AlwaysReopens
    RecoversPrefix
    DeleteLogsCommitLast
