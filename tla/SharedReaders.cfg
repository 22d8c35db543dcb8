SPECIFICATION Spec
CONSTANTS
    Keys <- MCKeys
    SegmentRows = 2
    MinReplacements = 1
    MaxReplacements = 1
    MaxRows = 3
    WalOff = FALSE
INVARIANT
    ReadersSeeOldOrNew
