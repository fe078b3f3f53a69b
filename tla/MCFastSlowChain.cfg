CONSTANTS
    InitialFrames = 2
    MaxProxies = 3
    MaxCalls = 4
    MaxChanges = 3
    UserBlocks = {"none", "to_fast"}
    Chaining = TRUE
    Debugging = FALSE
    Reused <- NoneReused
SPECIFICATION Spec
INVARIANT AnswersMatchPandas
CHECK_DEADLOCK FALSE
