----------------------------- MODULE MCAlphaHop -----------------------------
(* A path 0-1-2-3-4 of sensors with every choice of five more edges, among  *)
(* them those of sensor 5 (isolated without them), and the sink 6 near      *)
(* sensors 0 and 4.                                                         *)
EXTENDS AlphaHop

MCNode == 0..6
MCSink == 6

Edges(chords) == {{0,1}, {1,2}, {2,3}, {3,4}, {0,6}, {4,6}} \cup chords

MCGraphs ==
    {[u \in MCNode |-> {v \in MCNode \ {u} : {u, v} \in Edges(chords)}] :
        chords \in SUBSET {{0,2}, {1,3}, {2,4}, {1,5}, {4,5}}}
=============================================================================
