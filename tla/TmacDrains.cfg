SPECIFICATION FairSpec
CONSTANTS
    Node = {1, 2}
    Sink = 1
    Stranger = 3
    Pars <- OneWay
    maxTxRetries = 2
    macBufferSize = 2
PROPERTY Drains
