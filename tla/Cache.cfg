SPECIFICATION FairSpec
CONSTANTS
    Readers = {r1, r2}
    Writer = w
    None = none
    Sizes <- MCSizes
    Opened = 2
    Budget = 1
INVARIANTS
    OneDecodedCopy
    CountCoversRetained
    CurrentFaultable
PROPERTIES
    ViewsReturn
    WriterReturns
