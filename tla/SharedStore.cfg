SPECIFICATION Spec
CONSTANTS
    Keys <- MCKeys
    SegmentRows = 2
    MinReplacements = 1
    MaxReplacements = 2
    MaxRows = 4
    WalOff = TRUE
INVARIANTS
    TypeOK
    CoordinatesOrdered
    TiesKeepIngestOrder
    EveryRowHeldOnce
    LatestIsLastSpent
PROPERTIES
    SettledCuts
    RefinesKnowledge
