SPECIFICATION Spec
CONSTANTS
    Node = {1, 2}
    Sink = 1
    Stranger = 3
    Pars <- FromStartup
    maxTxRetries = 1
    macBufferSize = 1
INVARIANT WillHaveSchedule
