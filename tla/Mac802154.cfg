SPECIFICATION Spec
CONSTANTS
    Hub = 0
    Device <- MCDevice
    Stranger = 3
    Pars <- MCPars
    macBufferSize = 2
    numSuperframeSlots = 3
    minCAPLength = 1
INVARIANT TypeOK
INVARIANT ServesBuffer
INVARIANT AttemptsCounted
INVARIANT WakesForBeacon
INVARIANT GrantsKept
INVARIANT SlotsExclusive
PROPERTY NotGivenUpEarly
PROPERTY KeepsPromise
