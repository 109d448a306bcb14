---------------------------- MODULE MCGrowBalls ----------------------------
(* Disk graphs of four sensors around a triangle 0, 1, 2: each edge short,  *)
(* long or absent, sensors 2 and 3 possibly at one location; the sink sits  *)
(* at sensor 0 and is in range of sensor 1.                                 *)
EXTENDS GrowBalls, FiniteSets

MCNode == 0..4
MCSink == 4

Edge(w, u, v) ==
    CASE u > v /\ v = 0 /\ u = 1 -> w.a
      [] u = 2 /\ v = 1 -> w.b
      [] u = 2 /\ v = 0 -> w.c
      [] u = 3 /\ v = 2 -> w.d
      [] u = 3 /\ v = 0 -> w.e
      [] u = MCSink /\ v = 0 -> 0
      [] u = MCSink /\ v = 1 -> 1
      [] OTHER -> 9     \* out of range

DiskGraph(w) ==
    LET len(u, v) == IF u > v THEN Edge(w, u, v) ELSE Edge(w, v, u)
    IN  [adj |-> [u \in MCNode |-> {v \in MCNode \ {u} : len(u, v) # 9}],
         len |-> [u \in MCNode |-> [v \in MCNode |-> len(u, v)]]]

MCGraphs ==
    {DiskGraph(w) : w \in [a : {1}, b : {1, 9}, c : {1, 3}, d : {0, 1, 9}, e : {3, 9}]}
=============================================================================
