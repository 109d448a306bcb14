----------------------------- MODULE GrowBalls -----------------------------
(***************************************************************************)
(* growBalls, the clustering step the UAV routing protocols share: balls   *)
(* grow from the landmarks over the sensors' disk graph until every sensor *)
(* in reach has a cluster head (clus_id), a distance to it (d2CH) and the  *)
(* neighbour to send to (nextHop).                                         *)
(*                                                                         *)
(* The std::priority_queue compares its entries by the live d2CH array,    *)
(* which the loop lowers while entries are queued: the heap order is not   *)
(* maintained and the entry popped need not be a nearest one.  So any      *)
(* queued entry may be popped here; nothing below depends on the order.    *)
(***************************************************************************)
EXTENDS Integers

CONSTANTS
    Node, Sink,
    Graphs      \* the disk graphs considered: records of adj and len

None == -1      \* the code's -1, for no head and no next hop
DBL_MAX == -1   \* the distance of a node no ball has reached

ASSUME GraphAssumption ==
    /\ Sink \in Node /\ Node \subseteq Nat
    /\ \A g \in Graphs : /\ g.adj \in [Node -> SUBSET Node]
                         /\ g.len \in [Node -> [Node -> Nat]]

VARIABLES
    graph,          \* the disk graph
    A,              \* the landmarks: isCH holds exactly for them
    d2CH, clus_id, nextHop,
    queue,          \* entries of the priority queue, counted per node
    rank,           \* removedSet: a removed node's place in the removal order
    removals,       \* how many nodes are in removedSet
    representSet    \* per head, the sensors it represents

vars == <<graph, A, d2CH, clus_id, nextHop, queue, rank, removals, representSet>>

removedSet == {v \in Node : rank[v] > 0}

getAdjExceptSink(u) == graph.adj[u] \ {Sink}

\* What clearData leaves of earlier rounds: it skips the sink, which, once a
\* landmark, keeps itself as head and its list of sensors (any may stand there).
Uncleared ==
    {[head |-> None, list |-> {}]} \cup
    [head : {Sink}, list : SUBSET (Node \ {Sink})]

\* After clearData the landmarks take themselves as head, empty their lists and
\* seed their own balls.
Init ==
    /\ graph \in Graphs
    /\ A \in (SUBSET Node) \ {{}}
    /\ \E kept \in Uncleared :
         /\ clus_id = [v \in Node |-> IF v \in A THEN v
                                      ELSE IF v = Sink THEN kept.head ELSE None]
         /\ representSet = [v \in Node |-> IF v = Sink /\ v \notin A
                                           THEN kept.list ELSE {}]
    /\ d2CH = [v \in Node |-> IF v \in A \cup {Sink} THEN 0 ELSE DBL_MAX]
    /\ nextHop = [v \in Node |-> None]
    /\ queue = [v \in Node |-> IF v \in A THEN 1 ELSE 0]
    /\ rank = [v \in Node |-> 0] /\ removals = 0

\* Mutant of Shorter: DBL_MAX is not larger than every path.
ShorterThanFound(alt, old) == alt < old

\* alt - d2CH[v] < -EPSILON
Shorter(alt, old) == old = DBL_MAX \/ alt < old

\* Mutants of Relaxed: settled nodes are relaxed too; nobody compares.
RelaxedEvenRemoved(u) ==
    {v \in getAdjExceptSink(u) \ {u} : Shorter(d2CH[u] + graph.len[u][v], d2CH[v])}

RelaxedAlways(u) == getAdjExceptSink(u) \ (removedSet \cup {u})

\* The neighbours that the ball of u takes over, or brings nearer, through u.
Relaxed(u) ==
    {v \in getAdjExceptSink(u) \ (removedSet \cup {u}) :
        Shorter(d2CH[u] + graph.len[u][v], d2CH[v])}

\* Mutant of Settle: a neighbour that has a head already keeps it.
SettleKeepsHead(u) ==
    /\ queue[u] > 0 /\ rank[u] = 0
    /\ rank' = [rank EXCEPT ![u] = removals + 1] /\ removals' = removals + 1
    /\ representSet' =
         IF u \in A THEN representSet
         ELSE [representSet EXCEPT ![clus_id[u]] = @ \cup {u}]
    /\ d2CH' = [v \in Node |-> IF v \in Relaxed(u) THEN d2CH[u] + graph.len[u][v]
                               ELSE d2CH[v]]
    /\ clus_id' = [v \in Node |-> IF v \in Relaxed(u) /\ clus_id[v] = None
                                  THEN clus_id[u] ELSE clus_id[v]]
    /\ nextHop' = [v \in Node |-> IF v \in Relaxed(u) THEN u ELSE nextHop[v]]
    /\ queue' = [v \in Node |-> CASE v = u -> queue[v] - 1
                                  [] v \in Relaxed(u) -> queue[v] + 1
                                  [] OTHER -> queue[v]]
    /\ UNCHANGED <<graph, A>>

\* The first pop of u: it joins removedSet and its head's representSet, and its
\* neighbours are relaxed, and queued, through it.
Settle(u) ==
    /\ queue[u] > 0 /\ rank[u] = 0
    /\ rank' = [rank EXCEPT ![u] = removals + 1] /\ removals' = removals + 1
    /\ representSet' =
         IF u \in A THEN representSet
         ELSE [representSet EXCEPT ![clus_id[u]] = @ \cup {u}]
    /\ d2CH' = [v \in Node |-> IF v \in Relaxed(u) THEN d2CH[u] + graph.len[u][v]
                               ELSE d2CH[v]]
    /\ clus_id' = [v \in Node |-> IF v \in Relaxed(u) THEN clus_id[u] ELSE clus_id[v]]
    /\ nextHop' = [v \in Node |-> IF v \in Relaxed(u) THEN u ELSE nextHop[v]]
    /\ queue' = [v \in Node |-> CASE v = u -> queue[v] - 1
                                  [] v \in Relaxed(u) -> queue[v] + 1
                                  [] OTHER -> queue[v]]
    /\ UNCHANGED <<graph, A>>

\* Mutants of SkipRemoved: the entry stays queued; a second one goes with it.
SkipNoPop(u) == queue[u] > 0 /\ rank[u] > 0 /\ UNCHANGED vars

SkipTwo(u) ==
    /\ queue[u] > 0 /\ rank[u] > 0
    /\ queue' = [queue EXCEPT ![u] = @ - 2]
    /\ UNCHANGED <<graph, A, d2CH, clus_id, nextHop, rank, removals, representSet>>

\* A later pop of a node that was queued again before it was removed.
SkipRemoved(u) ==
    /\ queue[u] > 0 /\ rank[u] > 0
    /\ queue' = [queue EXCEPT ![u] = @ - 1]
    /\ UNCHANGED <<graph, A, d2CH, clus_id, nextHop, rank, removals, representSet>>

Empty == \A v \in Node : queue[v] = 0

\* The loop ends, and config.save publishes clus_id and nextHop.
Finished == Empty /\ UNCHANGED vars

Next == (\E u \in Node : Settle(u) \/ SkipRemoved(u)) \/ Finished

Spec == Init /\ [][Next]_vars

\* The loop is sequential code: it runs on until the queue is empty.
FairSpec == Spec /\ WF_vars(Next)

-----------------------------------------------------------------------------
Dist == Nat \cup {DBL_MAX}
Maybe == Node \cup {None}

TypeOK ==
    /\ graph \in Graphs /\ A \in SUBSET Node
    /\ d2CH \in [Node -> Dist]
    /\ clus_id \in [Node -> Maybe] /\ nextHop \in [Node -> Maybe]
    /\ queue \in [Node -> Nat] /\ rank \in [Node -> Nat] /\ removals \in Nat
    /\ representSet \in [Node -> SUBSET Node]

\* A hop stays in the cluster: a node and its next hop have the same head, and
\* the node's distance is its next hop's plus the edge, although heads and
\* distances are overwritten while the balls still grow.
HopStaysInCluster ==
    \A v \in Node : nextHop[v] # None =>
        /\ v \in graph.adj[nextHop[v]]
        /\ clus_id[v] = clus_id[nextHop[v]] /\ clus_id[v] \in A
        /\ d2CH[v] = d2CH[nextHop[v]] + graph.len[nextHop[v]][v]

\* Next hops form a forest: every hop leads to a node removed before, so
\* following them never returns, even between nodes at one location.
HopsLeadBack ==
    \A v \in Node : nextHop[v] # None =>
        /\ rank[nextHop[v]] > 0
        /\ rank[v] > 0 => rank[nextHop[v]] < rank[v]

\* Where the hops end: a node with a head and no next hop is that head, and a
\* landmark is never taken over by another ball.
HopsEndAtHead ==
    \A v \in Node \ {Sink} :
        /\ nextHop[v] = None /\ clus_id[v] # None => v \in A
        /\ v \in A => nextHop[v] = None /\ clus_id[v] = v

\* The lists partition the settled sensors by their head, for no head changes
\* once the sensor was listed.  Only a sink that is no landmark is left out: it
\* may hold the list of an earlier round.
RepresentExact ==
    \A c \in A \cup (Node \ {Sink}) : representSet[c] =
        {v \in Node : rank[v] > 0 /\ v \notin A /\ clus_id[v] = c}

\* When the loop ends no edge leads out of the settled sensors: every sensor
\* that a landmark can reach has a head.
AllInReach ==
    Empty => \A u \in Node : rank[u] > 0 =>
                \A v \in getAdjExceptSink(u) : rank[v] > 0 /\ clus_id[v] \in A

\* The loop ends.
Terminates == <>Empty
=============================================================================
