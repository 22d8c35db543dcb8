CONSTANTS
    MaxKey = 3
    Shapes <- MCShapes
    Target = 2
    FactKeys <- MCKeys
    DimensionKeys <- MCKeys
    Symbols = {a, b}
    Null = null
    ReaderKinds = {"bucketed", "running"}
    Faults = {"crash", "advance", "replace", "width"}
    MaxFact <- MCFacts
    MaxDimension = 3
    MaxEvents <- MCEvents
    MaxRefreshes = 2
    MaxFailures = 1
SPECIFICATION Spec
SYMMETRY MCSymmetry
CHECK_DEADLOCK FALSE
INVARIANTS UnionReadExact CumulativeReadExact StampsCoverSavedEvents RefreshedConsoleExact
