------------------------------ MODULE AlphaHop ------------------------------
(***************************************************************************)
(* The planning of wu2019: alphaHopClustering is run with alpha = 1, 2, ...*)
(* until the trajectories over the centres are short enough.  In a run,    *)
(* sensors are taken off a priority queue; one that no ball has removed    *)
(* becomes a centre, and a breadth-first search takes all sensors within   *)
(* alpha hops into its ball.  It keeps no record of earlier balls: a later *)
(* ball takes over nodes of an earlier cluster, with their heads and next  *)
(* hops, while other nodes still route through them.                       *)
(*                                                                         *)
(* The queue's order, by weights that are NaN for isolated sensors, is     *)
(* left open: any queued sensor may be popped.  Whether a trajectory is    *)
(* longer than L_max is open too.                                          *)
(***************************************************************************)
EXTENDS Integers, Sequences, FiniteSets

CONSTANTS
    Node, Sink,
    MaxAlpha,   \* bound: the largest alpha that is tried
    Graphs      \* the disk graphs considered: each node's neighbours

ASSUME AlphaAssumption ==
    /\ Sink \in Node /\ Node \subseteq Nat /\ IsFiniteSet(Node)
    /\ MaxAlpha \in Nat \ {0}
    /\ \A g \in Graphs : /\ g \in [Node -> SUBSET Node]
                         /\ \A u, v \in Node : v \in g[u] <=> u \in g[v]

None == -1          \* no head, no next hop, no hop count yet

Sensor == Node \ {Sink}

VARIABLES
    adj,            \* the disk graph
    alpha,          \* the radius of a ball in hops
    saved,          \* config.save has published the clustering
    p_queue,        \* sensors still in the priority queue
    isRemoved,
    A,              \* the centres, in the order they were chosen
    cent, next,
    q, dhop,        \* the search of the last centre's ball: isVisited is
                    \* dhop # None
    ball, hops      \* history: the last ball that took a node, and how far out

params == <<adj, alpha, saved>>
vars == <<adj, alpha, saved, p_queue, isRemoved, A, cent, next, q, dhop,
          ball, hops>>

getAdjExceptSink(u) == adj[u] \ {Sink}

\* What mainAlg's loop starts from: init(), reset() and clearData().
Init ==
    /\ adj \in Graphs /\ alpha = 1 /\ saved = FALSE
    /\ p_queue = Sensor /\ isRemoved = {} /\ A = <<>>
    /\ cent = [v \in Node |-> None] /\ next = [v \in Node |-> None]
    /\ q = <<>> /\ dhop = [v \in Node |-> None]
    /\ ball = [v \in Node |-> 0] /\ hops = [v \in Node |-> 0]

\* Mutant of PopCentre: the search of the previous ball is not forgotten.
PopCentreKeepsVisited(i) ==
    /\ q = <<>> /\ i \in p_queue \ isRemoved
    /\ p_queue' = p_queue \ {i} /\ isRemoved' = isRemoved \cup {i}
    /\ A' = Append(A, i)
    /\ q' = <<i>> /\ dhop' = [dhop EXCEPT ![i] = 0]
    /\ ball' = [ball EXCEPT ![i] = Len(A) + 1] /\ hops' = [hops EXCEPT ![i] = 0]
    /\ UNCHANGED <<params, cent, next>>

\* A sensor no ball has taken becomes a centre and starts its search.
PopCentre(i) ==
    /\ q = <<>> /\ i \in p_queue \ isRemoved
    /\ p_queue' = p_queue \ {i} /\ isRemoved' = isRemoved \cup {i}
    /\ A' = Append(A, i)
    /\ q' = <<i>> /\ dhop' = [v \in Node |-> IF v = i THEN 0 ELSE None]
    /\ ball' = [ball EXCEPT ![i] = Len(A) + 1] /\ hops' = [hops EXCEPT ![i] = 0]
    /\ UNCHANGED <<params, cent, next>>

\* Mutants of PopRemoved: whoever is popped is skipped; nobody is popped.
PopAny(i) ==
    /\ q = <<>> /\ i \in p_queue
    /\ p_queue' = p_queue \ {i}
    /\ UNCHANGED <<params, isRemoved, A, cent, next, q, dhop, ball, hops>>

PopNobody(i) == q = <<>> /\ i \in p_queue \cap isRemoved /\ UNCHANGED vars

\* A sensor that a ball took in the meantime is skipped.
PopRemoved(i) ==
    /\ q = <<>> /\ i \in p_queue \cap isRemoved
    /\ p_queue' = p_queue \ {i}
    /\ UNCHANGED <<params, isRemoved, A, cent, next, q, dhop, ball, hops>>

\* Mutant of Unvisited: everyone is.
UnvisitedAll(u) == getAdjExceptSink(u)

Unvisited(u) == {v \in getAdjExceptSink(u) : dhop[v] = None}

\* Mutant of InRange: the ball is one hop short.
InRangeShort(d) == d < alpha

InRange(d) == d <= alpha

\* A neighbour list's order; any, for nothing below depends on it.
Lists(S) == {s \in [1..Cardinality(S) -> S] : \A v \in S : \E i \in DOMAIN s : s[i] = v}

Centre == A[Len(A)]
Centres == {A[i] : i \in 1..Len(A)}

\* Mutant of Search: new nodes are searched first, not last.
SearchDepthFirst ==
    /\ q # <<>>
    /\ LET u == Head(q)
           d == dhop[u] + 1
           taken == IF InRange(d) THEN Unvisited(u) ELSE {}
           With(f, x) == [v \in Node |-> IF v \in taken THEN x ELSE f[v]]
       IN  /\ dhop' = [v \in Node |-> IF v \in Unvisited(u) THEN d ELSE dhop[v]]
           /\ isRemoved' = isRemoved \cup taken
           /\ cent' = With(cent, Centre) /\ next' = With(next, u)
           /\ ball' = With(ball, Len(A)) /\ hops' = With(hops, d)
           /\ \E s \in Lists(taken) : q' = (IF d < alpha THEN s ELSE <<>>) \o Tail(q)
    /\ UNCHANGED <<params, p_queue, A>>

\* One round of the search: the front node's unvisited neighbours, if they are
\* still in range, leave whatever cluster they were in for this one.
Search ==
    /\ q # <<>>
    /\ LET u == Head(q)
           d == dhop[u] + 1
           taken == IF InRange(d) THEN Unvisited(u) ELSE {}
           With(f, x) == [v \in Node |-> IF v \in taken THEN x ELSE f[v]]
       IN  /\ dhop' = [v \in Node |-> IF v \in Unvisited(u) THEN d ELSE dhop[v]]
           /\ isRemoved' = isRemoved \cup taken
           /\ cent' = With(cent, Centre) /\ next' = With(next, u)
           /\ ball' = With(ball, Len(A)) /\ hops' = With(hops, d)
           /\ \E s \in Lists(taken) : q' = Tail(q) \o (IF d < alpha THEN s ELSE <<>>)
    /\ UNCHANGED <<params, p_queue, A>>

Done == q = <<>> /\ p_queue = {}

\* Some trajectory is longer than L_max: reset(), clearData() and once more.
Retry ==
    /\ Done /\ ~saved /\ alpha < MaxAlpha
    /\ alpha' = alpha + 1
    /\ p_queue' = Sensor /\ isRemoved' = {} /\ A' = <<>>
    /\ cent' = [v \in Node |-> None] /\ next' = [v \in Node |-> None]
    /\ dhop' = [v \in Node |-> None]
    /\ ball' = [v \in Node |-> 0] /\ hops' = [v \in Node |-> 0]
    /\ UNCHANGED <<adj, saved, q>>

\* None is: config.save(A, cent, next, trajectories).
Save ==
    /\ Done /\ ~saved /\ saved' = TRUE
    /\ UNCHANGED <<adj, alpha, p_queue, isRemoved, A, cent, next, q, dhop,
                   ball, hops>>

Finished == saved /\ UNCHANGED vars

Next ==
    \/ \E i \in Sensor : PopCentre(i) \/ PopRemoved(i)
    \/ Search \/ Retry \/ Save \/ Finished

Spec == Init /\ [][Next]_vars

\* Sequential code: the loops run on.
FairSpec == Spec /\ WF_vars(Next)

-----------------------------------------------------------------------------
TypeOK ==
    /\ adj \in Graphs /\ alpha \in 1..MaxAlpha /\ saved \in BOOLEAN
    /\ p_queue \subseteq Sensor /\ isRemoved \subseteq Sensor
    /\ A \in Seq(Sensor) /\ q \in Seq(Sensor)
    /\ cent \in [Node -> Node \cup {None}]
    /\ next \in [Node -> Node \cup {None}]
    /\ dhop \in [Node -> 0..alpha \cup {None}] /\ hops \in [Node -> 0..alpha]
    /\ ball \in [Node -> 0..Len(A)]

\* Reference: the nodes at most k hops from c, without passing the sink.
Within(c) ==
    LET W[k \in Nat] ==
            IF k = 0 THEN {c}
            ELSE W[k-1] \cup UNION {getAdjExceptSink(u) : u \in W[k-1]}
    IN  W

\* A node is as many hops from its head as the search counted, no more than
\* alpha and on a shortest path, although another ball may have had it before.
HopsAreDistances ==
    \A v \in Node : cent[v] # None =>
        /\ cent[v] \in Centres
        /\ v \in Within(cent[v])[hops[v]]
        /\ hops[v] > 0 /\ v \notin Within(cent[v])[hops[v] - 1]

\* No two centres are within alpha hops of one another, so a centre is never
\* taken into a later ball.
CentresApart ==
    \A i, j \in 1..Len(A) : i # j =>
        /\ A[j] \notin Within(A[i])[alpha]
        /\ next[A[i]] = None

\* Next hops never lead in a circle: a hop goes inward in the node's own ball
\* or into the ball of a later centre that took the next hop over.
HopsLeadInward ==
    \A v \in Node : next[v] # None =>
        \/ ball[v] < ball[next[v]]
        \/ ball[v] = ball[next[v]] /\ hops[next[v]] < hops[v]

\* A finished ball has taken everything in range of its centre.
BallComplete ==
    q = <<>> /\ A # <<>> =>
        \A v \in Within(Centre)[alpha] \ {Centre} : cent[v] = Centre

\* In a saved clustering every sensor is a centre or sits in a cluster, with a next hop.
AllClustered ==
    saved => \A v \in Sensor : v \in Centres \/ (cent[v] # None /\ next[v] # None)

\* Where a packet of v ends up: the next hops, followed as often as there are
\* nodes, lead to a centre (not always to the head that v was given).
Follow(v) ==
    LET F[k \in Nat] ==
            IF k = 0 THEN v
            ELSE IF next[F[k-1]] = None THEN F[k-1] ELSE next[F[k-1]]
    IN  F[Cardinality(Node)]

RoutesReachACentre == saved => \A v \in Sensor : Follow(v) \in Centres

\* The clustering ends.
Terminates == <>saved
=============================================================================
