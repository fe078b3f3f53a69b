SPECIFICATION FairSpec
CONSTANTS
    Scenarios <- MCScenarios
    Capacity = 1
    MaxChunks = 2
INVARIANTS
    TypeOK
    OrderPreserved
    PromisedCounts
PROPERTIES
    FinishedIsFinal
    AllRanksEnd
CHECK_DEADLOCK FALSE
