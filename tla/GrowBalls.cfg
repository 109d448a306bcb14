SPECIFICATION FairSpec
CONSTANTS
    Node <- MCNode
    Sink <- MCSink
    Graphs <- MCGraphs
INVARIANT TypeOK
INVARIANT HopStaysInCluster
INVARIANT HopsLeadBack
INVARIANT HopsEndAtHead
INVARIANT RepresentExact
INVARIANT AllInReach
PROPERTY Terminates
