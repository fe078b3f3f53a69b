CONSTANTS
    InitialFrames = 1
    MaxProxies = 2
    MaxCalls = 4
    MaxChanges = 3
    UserBlocks = {"none", "to_fast"}
    Chaining = FALSE
    Debugging = FALSE
    Reused <- FifthAsFirst
SPECIFICATION Spec
INVARIANT AnswersMatchPandas
CHECK_DEADLOCK FALSE
