SPECIFICATION Spec
CONSTANTS
    BufferSize = 2
    MaxNumTx = 1
    NumTx0 = 1
    MaxBeacons = 1
    Duty0 = TRUE
    BackoffParam = 1
    Persistence = "non"
    MaySkip = FALSE
    TxAll = TRUE
    SleepInBackoff = FALSE
    HearsBeacons = TRUE
    Commands = FALSE
    CanDie = FALSE
INVARIANT DutyTimersOnlyWhenIdle


