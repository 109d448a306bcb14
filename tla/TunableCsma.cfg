SPECIFICATION FairSpec
CONSTANTS
    BufferSize = 8
    MaxNumTx = 3
    NumTx0 = 3
    MaxBeacons = 0
    Duty0 = FALSE
    BackoffParam = 1
    Persistence = "p"
    MaySkip = TRUE
    TxAll = TRUE
    SleepInBackoff = FALSE
    HearsBeacons = FALSE
    Commands = FALSE
    CanDie = FALSE
INVARIANT FullyTried
PROPERTY QueueNeverStalls

