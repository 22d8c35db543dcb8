CONSTANTS
    MaxNumber = 3
    Null = null
    ByteBits = 3
    Chunk = 3
    DictLimit = 2
    a = a
    b = b
    Cases <- MCCases
SPECIFICATION StatementSpec
INVARIANTS ScanKeepsMatches GroupsExact FramesExact BestRowsKept AnswerExact
    DamageRefused HitsWhatSelectShows PartialReadsExact LiftsExact SplitsExact
    PlanMeansStatement
