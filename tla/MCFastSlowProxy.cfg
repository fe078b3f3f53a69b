CONSTANTS
    InitialFrames = 2
    MaxProxies = 3
    MaxCalls = 4
    MaxChanges = 3
    UserBlocks = {"none", "to_fast"}
    Chaining = FALSE
    Debugging = FALSE
    Reused <- NoneReused
SPECIFICATION Spec
INVARIANTS TypeOK WorldsApart FinalsMatchPandas AnswersMatchPandas
PROPERTY ForcedStaysSlow
CHECK_DEADLOCK FALSE
