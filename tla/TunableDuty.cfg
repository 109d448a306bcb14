SPECIFICATION Spec
CONSTANTS
    BufferSize = 2
    MaxNumTx = 2
    NumTx0 = 2
    MaxBeacons = 2
    Duty0 = TRUE
    BackoffParam = 1
    Persistence = "non"
    MaySkip = TRUE
    TxAll = FALSE
    SleepInBackoff = FALSE
    HearsBeacons = TRUE
    Commands = TRUE
    CanDie = TRUE
INVARIANT TypeOK
INVARIANT SingleDriver
INVARIANT DriverServesState
INVARIANT IdleIsEmpty
INVARIANT AtMostNumTx

CHECK_DEADLOCK FALSE
