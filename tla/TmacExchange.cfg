SPECIFICATION Spec
CONSTANTS
    Node = {1, 2}
    Sink = 1
    Stranger = 3
    Pars <- MCPars
    maxTxRetries = 2
    macBufferSize = 2
INVARIANT TypeOK
INVARIANT DriverServesState
INVARIANT FrontPacketServed
INVARIANT SchedulesFollowAuthor
PROPERTY NotGivenUpEarly
PROPERTY KeepsPromise
