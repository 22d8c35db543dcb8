CONSTANTS
    Tables = {fact}
    Views = {by_hour, running}
    Sources <- MCSources
    MaxRows = 1
    MaxCrashes = 2
    MaxFailures = 1
SPECIFICATION Spec
SYMMETRY MCSymmetry
INVARIANTS
    SweepCoversAll
    DerivedOnly
PROPERTIES
    LoadsComplete
    
