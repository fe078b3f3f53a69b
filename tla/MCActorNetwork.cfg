SPECIFICATION FairSpec
CONSTANTS
    Plans <- MCPlans
    Capacity = 1
    Producers = 2
    MaxFailures = 1
INVARIANTS
    TypeOK
    ResultCorrect
    OneInFlight
PROPERTY Terminates
CHECK_DEADLOCK FALSE
