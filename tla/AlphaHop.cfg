SPECIFICATION FairSpec
CONSTANTS
    Node <- MCNode
    Sink <- MCSink
    Graphs <- MCGraphs
    MaxAlpha = 3
INVARIANT TypeOK
INVARIANT HopsAreDistances
INVARIANT CentresApart
INVARIANT HopsLeadInward
INVARIANT BallComplete
INVARIANT AllClustered
INVARIANT RoutesReachACentre
PROPERTY Terminates
