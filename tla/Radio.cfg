SPECIFICATION Spec
CONSTANTS
    Sender <- MCSender
    bufferSize = 2
    Pars <- MCPars
INVARIANT OneDriver
INVARIANT ObeysCommands
PROPERTY ReceivesWhole
