SPECIFICATION Spec
CONSTANTS
    BufferSize = 2
    MaxNumTx = 1
    NumTx0 = 1
    MaxBeacons = 1
    Duty0 = TRUE
    BackoffParam = 1
    Persistence = "non"
    MaySkip = TRUE
    TxAll = TRUE
    SleepInBackoff = FALSE
    HearsBeacons = FALSE
    Commands = TRUE
    CanDie = FALSE
INVARIANT NotStuckAsleep


