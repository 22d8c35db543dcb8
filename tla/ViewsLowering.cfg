CONSTANTS
    MaxKey = 3
    Shapes <- MCAsOf
    Target = 2
    FactKeys <- MCKeys
    DimensionKeys <- MCKeys
    Symbols = {a}
    Null = null
    ReaderKinds = {"bucketed"}
    Faults = {"crash", "lowering"}
    MaxFact <- MCFacts
    MaxDimension = 2
    MaxEvents <- MCEvents
    MaxRefreshes = 3
    MaxFailures = 1
SPECIFICATION Spec
CHECK_DEADLOCK FALSE
INVARIANT UnionReadExact
