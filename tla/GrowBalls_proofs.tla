-------------------------- MODULE GrowBalls_proofs --------------------------
(***************************************************************************)
(* The clustering that growBalls leaves behind, for every disk graph, set  *)
(* of landmarks and order of pops.                                         *)
(***************************************************************************)
EXTENDS GrowBalls, TLAPS

\* A landmark is the centre of its own ball.
LandmarksOwn ==
    \A l \in A : d2CH[l] = 0 /\ nextHop[l] = None /\ clus_id[l] = l

\* Outside the balls nothing is queued, removed or routed; the sink is inside
\* only as a landmark.
InBall(v) == clus_id[v] \in A /\ d2CH[v] \in Nat /\ (v = Sink => v \in A)

OutsideUntouched ==
    \A v \in Node : queue[v] > 0 \/ rank[v] > 0 \/ nextHop[v] # None => InBall(v)

\* A sensor in a ball has been removed or is queued; a sensor without a
\* distance has no head.
InBallIsQueued ==
    \A v \in Node \ {Sink} :
        /\ d2CH[v] # DBL_MAX => InBall(v) /\ (rank[v] > 0 \/ queue[v] > 0)
        /\ d2CH[v] = DBL_MAX => clus_id[v] = None

\* The neighbours of a removed node are in a ball.
SettledReach ==
    \A u \in Node : rank[u] > 0 =>
        \A v \in getAdjExceptSink(u) : d2CH[v] # DBL_MAX

RanksBounded == \A v \in Node : rank[v] <= removals

\* A sensor taken into a ball has a next hop unless it is the landmark.
TakenHasHop ==
    \A v \in Node \ {Sink} : nextHop[v] = None /\ clus_id[v] # None => v \in A

IInv ==
    /\ TakenHasHop
    /\ TypeOK /\ LandmarksOwn /\ OutsideUntouched /\ InBallIsQueued
    /\ SettledReach /\ RanksBounded
    /\ HopStaysInCluster /\ HopsLeadBack /\ RepresentExact

\* None is no node, and no distance is infinite.
LEMMA NoneNotNode == None \notin Node /\ DBL_MAX \notin Nat
BY GraphAssumption DEF None, DBL_MAX

\* The algorithm starts in order.
LEMMA InitOK == Init => IInv
<1> SUFFICES ASSUME Init PROVE IInv
  OBVIOUS
<1> USE GraphAssumption, NoneNotNode DEF Init
<1>1. A \subseteq Node
  OBVIOUS
<1>2. PICK kept \in Uncleared :
        /\ clus_id = [v \in Node |-> IF v \in A THEN v
                                     ELSE IF v = Sink THEN kept.head ELSE None]
        /\ representSet = [v \in Node |-> IF v = Sink /\ v \notin A
                                          THEN kept.list ELSE {}]
  OBVIOUS
<1>11. kept.head \in {None, Sink} /\ kept.list \in SUBSET Node
  BY DEF Uncleared
<1>3. \A v \in Node :
        /\ v \in A => clus_id[v] = v /\ d2CH[v] = 0 /\ queue[v] = 1
        /\ v \notin A => queue[v] = 0 /\ clus_id[v] \in {None, Sink}
        /\ v \notin A /\ v # Sink => clus_id[v] = None /\ d2CH[v] = DBL_MAX
        /\ d2CH[v] \in Dist /\ clus_id[v] \in Maybe /\ queue[v] \in Nat
        /\ nextHop[v] = None /\ rank[v] = 0
        /\ v \in A \cup (Node \ {Sink}) => representSet[v] = {}
  BY <1>2, <1>11 DEF Dist, Maybe
<1>4. TypeOK
  <2>1. clus_id \in [Node -> Maybe] /\ d2CH \in [Node -> Dist]
    BY <1>2, <1>3
  <2>2. queue \in [Node -> Nat] /\ nextHop \in [Node -> Maybe]
    BY DEF Maybe
  <2>3. rank \in [Node -> Nat] /\ representSet \in [Node -> SUBSET Node]
    BY <1>2, <1>11
  <2> QED
    BY <1>1, <2>1, <2>2, <2>3 DEF TypeOK
<1>9. removals = 0
  OBVIOUS
<1> HIDE DEF Init
<1>5. LandmarksOwn /\ RanksBounded /\ SettledReach
  <2>1. LandmarksOwn
    BY <1>1, <1>3, Zenon DEF LandmarksOwn
  <2>2. ~(0 > 0) /\ 0 <= 0
    OBVIOUS
  <2>3. \A v \in Node : rank[v] = 0
    BY <1>3, Zenon
  <2>4. RanksBounded /\ SettledReach
    BY <1>9, <2>2, <2>3, Zenon DEF RanksBounded, SettledReach
  <2> QED
    BY <2>1, <2>4
<1>6. OutsideUntouched
  <2> SUFFICES ASSUME NEW v \in Node,
                      queue[v] > 0 \/ rank[v] > 0 \/ nextHop[v] # None
               PROVE  InBall(v)
    BY DEF OutsideUntouched
  <2>1. v \in A
    <3> SUFFICES ASSUME v \notin A PROVE FALSE
      OBVIOUS
    <3>1. queue[v] = 0 /\ rank[v] = 0 /\ nextHop[v] = None
      BY <1>3
    <3> QED
      BY <3>1
  <2>2. clus_id[v] = v /\ d2CH[v] = 0
    BY <1>3, <2>1, Zenon
  <2>3. 0 \in Nat
    OBVIOUS
  <2> QED
    BY <2>1, <2>2, <2>3, Zenon DEF InBall
<1>7. InBallIsQueued
  <2> SUFFICES ASSUME NEW v \in Node \ {Sink}
               PROVE  /\ d2CH[v] # DBL_MAX =>
                           InBall(v) /\ (rank[v] > 0 \/ queue[v] > 0)
                      /\ d2CH[v] = DBL_MAX => clus_id[v] = None
    BY DEF InBallIsQueued
  <2>1. CASE v \in A
    <3>1. clus_id[v] = v /\ d2CH[v] = 0 /\ queue[v] = 1
      BY <1>3, <2>1, Zenon
    <3>2. 1 > 0 /\ 0 \in Nat /\ 0 # DBL_MAX
      BY DEF DBL_MAX
    <3> QED
      BY <2>1, <3>1, <3>2, Zenon DEF InBall
  <2>2. CASE v \notin A
    <3>1. d2CH[v] = DBL_MAX /\ clus_id[v] = None
      BY <1>3, <2>2, Zenon
    <3> QED
      BY <3>1, Zenon
  <2> QED
    BY <2>1, <2>2
<1>8. HopStaysInCluster /\ HopsLeadBack /\ RepresentExact
  <2>1. HopStaysInCluster /\ HopsLeadBack
    BY <1>3, Zenon DEF HopStaysInCluster, HopsLeadBack
  <2>2. \A v \in Node : ~(rank[v] > 0)
    <3>1. \A v \in Node : rank[v] = 0
      BY <1>3, Zenon
    <3>2. ~(0 > 0)
      OBVIOUS
    <3> QED
      BY <3>1, <3>2, Zenon
  <2>4. RepresentExact
    <3> SUFFICES ASSUME NEW c \in A \cup (Node \ {Sink})
                 PROVE  representSet[c] =
                          {v \in Node : rank[v] > 0 /\ v \notin A /\ clus_id[v] = c}
      BY Zenon DEF RepresentExact
    <3>1. \A v \in {v \in Node : rank[v] > 0 /\ v \notin A /\ clus_id[v] = c} : FALSE
      BY <2>2
    <3>2. representSet[c] = {}
      BY <1>1, <1>3, Zenon
    <3> QED
      BY <3>1, <3>2, Zenon
  <2> QED
    BY <2>1, <2>4
<1>10. TakenHasHop
  BY <1>3 DEF TakenHasHop
<1> QED
  BY <1>4, <1>5, <1>6, <1>7, <1>8, <1>10 DEF IInv

\* What the relaxation of u's neighbours can and cannot touch.
LEMMA RelaxedFacts ==
    ASSUME IInv, NEW u \in Node
    PROVE  /\ Relaxed(u) \subseteq Node
           /\ \A v \in Relaxed(u) :
                /\ v # u /\ v # Sink /\ rank[v] = 0 /\ v \in graph.adj[u]
                /\ Shorter(d2CH[u] + graph.len[u][v], d2CH[v])
<1>1. graph.adj[u] \subseteq Node
  BY GraphAssumption DEF IInv, TypeOK
<1>2. \A v \in Node : v \notin removedSet => rank[v] = 0
  BY DEF removedSet, IInv, TypeOK
<1> QED
  BY <1>1, <1>2 DEF Relaxed, getAdjExceptSink

\* The first removal of a node from the queue keeps the invariant.
LEMMA SettleOK ==
    ASSUME IInv, NEW u \in Node, Settle(u)
    PROVE  IInv'
<1> USE GraphAssumption, NoneNotNode
<1>0. /\ rank[u] = 0 /\ InBall(u) /\ u \notin Relaxed(u)
      /\ d2CH[u] \in Nat /\ clus_id[u] \in A
  <2>1. queue[u] > 0 /\ rank[u] = 0
    BY DEF Settle
  <2>2. InBall(u)
    BY <2>1 DEF IInv, OutsideUntouched
  <2> QED
    BY <2>1, <2>2, RelaxedFacts DEF InBall
<1>1. /\ graph.adj \in [Node -> SUBSET Node]
      /\ graph.len \in [Node -> [Node -> Nat]]
      /\ A \subseteq Node
  BY DEF IInv, TypeOK
<1>2. \A v \in Relaxed(u) :
         /\ v \in Node /\ v # u /\ v # Sink /\ rank[v] = 0
         /\ v \in graph.adj[u] /\ v \notin A
         /\ Shorter(d2CH[u] + graph.len[u][v], d2CH[v])
         /\ d2CH[u] + graph.len[u][v] \in Nat
  <2> SUFFICES ASSUME NEW v \in Relaxed(u)
               PROVE  /\ d2CH[u] + graph.len[u][v] \in Nat /\ v \notin A
                      /\ v \in Node
    BY RelaxedFacts
  <2>1. v \in Node
    BY RelaxedFacts
  <2>2. graph.len[u][v] \in Nat
    BY <1>1, <2>1
  <2>3. d2CH[u] + graph.len[u][v] \in Nat
    BY <1>0, <2>2
  <2>4. v \in A => d2CH[v] = 0
    BY DEF IInv, LandmarksOwn
  <2>5. Shorter(d2CH[u] + graph.len[u][v], d2CH[v])
    BY RelaxedFacts
  <2> QED
    BY <2>1, <2>3, <2>4, <2>5 DEF Shorter, DBL_MAX
<1>3. /\ graph' = graph /\ A' = A
      /\ removals' = removals + 1
      /\ rank' = [rank EXCEPT ![u] = removals + 1]
      /\ d2CH' = [v \in Node |-> IF v \in Relaxed(u)
                                 THEN d2CH[u] + graph.len[u][v] ELSE d2CH[v]]
      /\ clus_id' = [v \in Node |-> IF v \in Relaxed(u) THEN clus_id[u]
                                    ELSE clus_id[v]]
      /\ nextHop' = [v \in Node |-> IF v \in Relaxed(u) THEN u ELSE nextHop[v]]
      /\ queue' = [v \in Node |-> CASE v = u -> queue[v] - 1
                                    [] v \in Relaxed(u) -> queue[v] + 1
                                    [] OTHER -> queue[v]]
  BY DEF Settle
<1>4. /\ \A v \in Node : rank'[v] = IF v = u THEN removals + 1 ELSE rank[v]
      /\ rank' \in [Node -> Nat] /\ removals' \in Nat
      /\ removals \in Nat /\ rank \in [Node -> Nat]
      /\ \A v \in Node : rank[v] <= removals
  BY <1>3 DEF IInv, TypeOK, RanksBounded
<1>5. TypeOK'
  <2>1. d2CH' \in [Node -> Dist]
    BY <1>2, <1>3 DEF IInv, TypeOK, Dist
  <2>2. clus_id' \in [Node -> Maybe] /\ nextHop' \in [Node -> Maybe]
    BY <1>0, <1>1, <1>3 DEF IInv, TypeOK, Maybe
  <2>3. queue' \in [Node -> Nat]
    <3>1. queue[u] > 0 /\ queue \in [Node -> Nat]
      BY DEF Settle, IInv, TypeOK
    <3>2. \A v \in Node : (CASE v = u -> queue[v] - 1
                             [] v \in Relaxed(u) -> queue[v] + 1
                             [] OTHER -> queue[v]) \in Nat
      BY <3>1
    <3> QED
      BY <1>3, <3>2
  <2>4. representSet' \in [Node -> SUBSET Node]
    BY <1>0, <1>1 DEF Settle, IInv, TypeOK
  <2> QED
    BY <1>3, <1>4, <2>1, <2>2, <2>3, <2>4 DEF IInv, TypeOK
<1>6. LandmarksOwn'
  BY <1>1, <1>2, <1>3 DEF IInv, LandmarksOwn
<1>7. \A v \in Node : InBall(v) => InBall(v)'
  BY <1>0, <1>2, <1>3 DEF InBall
<1>8. \A v \in Relaxed(u) : InBall(v)'
  BY <1>0, <1>2, <1>3 DEF InBall
<1>9. OutsideUntouched'
  <2> SUFFICES ASSUME NEW v \in Node,
                      queue'[v] > 0 \/ rank'[v] > 0 \/ nextHop'[v] # None
               PROVE  InBall(v)'
    BY DEF OutsideUntouched
  <2>1. CASE v = u \/ v \in Relaxed(u)
    BY <1>0, <1>7, <1>8, <2>1
  <2>2. CASE v # u /\ v \notin Relaxed(u)
    <3>1. queue'[v] = queue[v] /\ rank'[v] = rank[v] /\ nextHop'[v] = nextHop[v]
      BY <1>3, <1>4, <2>2
    <3> QED
      BY <1>7, <3>1 DEF IInv, OutsideUntouched
  <2> QED
    BY <2>1, <2>2
<1>10. InBallIsQueued'
  <2> SUFFICES ASSUME NEW v \in Node \ {Sink}
               PROVE  /\ d2CH'[v] # DBL_MAX =>
                           InBall(v)' /\ (rank'[v] > 0 \/ queue'[v] > 0)
                      /\ d2CH'[v] = DBL_MAX => clus_id'[v] = None
    BY DEF InBallIsQueued
  <2>1. CASE v = u
    <3>1. d2CH'[v] = d2CH[v] /\ d2CH[v] # DBL_MAX /\ rank'[v] > 0
      BY <1>0, <1>3, <1>4, <2>1
    <3> QED
      BY <1>0, <1>7, <2>1, <3>1
  <2>2. CASE v \in Relaxed(u)
    <3>1. queue'[v] > 0
      BY <1>2, <1>3, <2>2 DEF IInv, TypeOK
    <3>2. d2CH'[v] # DBL_MAX
      BY <1>2, <1>3, <2>2
    <3> QED
      BY <1>8, <2>2, <3>1, <3>2
  <2>3. CASE v # u /\ v \notin Relaxed(u)
    <3>1. /\ queue'[v] = queue[v] /\ rank'[v] = rank[v]
          /\ d2CH'[v] = d2CH[v] /\ clus_id'[v] = clus_id[v]
      BY <1>3, <1>4, <2>3
    <3> QED
      BY <1>7, <3>1 DEF IInv, InBallIsQueued
  <2> QED
    BY <2>1, <2>2, <2>3
<1>11. SettledReach'
  <2> SUFFICES ASSUME NEW w \in Node, rank'[w] > 0,
                      NEW v \in getAdjExceptSink(w)
               PROVE  d2CH'[v] # DBL_MAX
    BY <1>3 DEF SettledReach, getAdjExceptSink
  <2>1. v \in Node /\ v # Sink
    BY <1>1 DEF getAdjExceptSink
  <2>2. CASE v \in Relaxed(u)
    BY <1>2, <1>3, <2>2
  <2>3. CASE v \notin Relaxed(u) /\ w # u
    BY <1>3, <1>4, <2>1, <2>3 DEF IInv, SettledReach
  <2>4. CASE v \notin Relaxed(u) /\ w = u
    <3>1. v = u \/ v \in removedSet \/ ~Shorter(d2CH[u] + graph.len[u][v], d2CH[v])
      BY <2>4 DEF Relaxed
    <3>2. v = u => d2CH[v] # DBL_MAX
      BY <1>0
    <3>3. v \in removedSet => d2CH[v] # DBL_MAX
      BY <2>1 DEF removedSet, IInv, OutsideUntouched, InBall
    <3> QED
      BY <1>3, <2>1, <2>4, <3>1, <3>2, <3>3 DEF Shorter
  <2> QED
    BY <2>2, <2>3, <2>4
<1>12. RanksBounded'
  BY <1>3, <1>4 DEF RanksBounded
<1>13. HopStaysInCluster'
  <2> SUFFICES ASSUME NEW v \in Node, nextHop'[v] # None
               PROVE  /\ v \in graph.adj[nextHop'[v]]
                      /\ clus_id'[v] = clus_id'[nextHop'[v]] /\ clus_id'[v] \in A
                      /\ d2CH'[v] = d2CH'[nextHop'[v]] + graph.len[nextHop'[v]][v]
    <3>1. graph' = graph /\ A' = A
      BY <1>3
    <3> QED
      BY <3>1, Zenon DEF HopStaysInCluster
  <2>1. CASE v \in Relaxed(u)
    <3>1. nextHop'[v] = u /\ clus_id'[v] = clus_id[u]
          /\ d2CH'[v] = d2CH[u] + graph.len[u][v]
      BY <1>3, <2>1
    <3>2. clus_id'[u] = clus_id[u] /\ d2CH'[u] = d2CH[u]
      BY <1>0, <1>3
    <3> QED
      BY <1>0, <1>2, <2>1, <3>1, <3>2
  <2>2. CASE v \notin Relaxed(u)
    <3>1. nextHop'[v] = nextHop[v] /\ nextHop[v] \in Node
      BY <1>3, <2>2 DEF IInv, TypeOK, Maybe
    <3>2. rank[nextHop[v]] > 0
      BY <3>1 DEF IInv, HopsLeadBack
    <3>3. nextHop[v] \notin Relaxed(u)
      BY <1>2, <3>2
    <3> QED
      BY <1>3, <2>2, <3>1, <3>3 DEF IInv, HopStaysInCluster
  <2> QED
    BY <2>1, <2>2
<1>14. HopsLeadBack'
  <2> SUFFICES ASSUME NEW v \in Node, nextHop'[v] # None
               PROVE  /\ rank'[nextHop'[v]] > 0
                      /\ rank'[v] > 0 => rank'[nextHop'[v]] < rank'[v]
    BY DEF HopsLeadBack
  <2>1. CASE v \in Relaxed(u)
    BY <1>2, <1>3, <1>4, <2>1
  <2>2. CASE v \notin Relaxed(u)
    <3>1. nextHop'[v] = nextHop[v] /\ nextHop[v] \in Node
      BY <1>3, <2>2 DEF IInv, TypeOK, Maybe
    <3>2. /\ rank[nextHop[v]] > 0
          /\ rank[v] > 0 => rank[nextHop[v]] < rank[v]
      BY <3>1 DEF IInv, HopsLeadBack
    <3>3. nextHop[v] # u
      BY <1>0, <3>2
    <3>4. /\ rank'[nextHop[v]] = rank[nextHop[v]]
          /\ rank[nextHop[v]] <= removals /\ rank[nextHop[v]] \in Nat
      BY <1>4, <3>1, <3>3
    <3>5. rank'[v] = removals + 1 \/ rank'[v] = rank[v]
      BY <1>4
    <3>6. rank[nextHop[v]] < removals + 1
      BY <1>4, <3>4
    <3> QED
      BY <3>1, <3>2, <3>4, <3>5, <3>6
  <2> QED
    BY <2>1, <2>2
<1>15. RepresentExact'
  <2> SUFFICES ASSUME NEW c \in A \cup (Node \ {Sink})
               PROVE  representSet'[c] =
                        {v \in Node : rank'[v] > 0 /\ v \notin A /\ clus_id'[v] = c}
    BY <1>3 DEF RepresentExact
  <2>0. c \in Node
    BY <1>1
  <2>1. \A v \in Node : rank[v] > 0 => clus_id'[v] = clus_id[v]
    BY <1>2, <1>3
  <2>2. clus_id'[u] = clus_id[u]
    BY <1>0, <1>3
  <2>3. representSet[c] =
          {v \in Node : rank[v] > 0 /\ v \notin A /\ clus_id[v] = c}
    BY DEF IInv, RepresentExact
  <2>4. representSet'[c] = IF u \notin A /\ clus_id[u] = c
                           THEN representSet[c] \cup {u} ELSE representSet[c]
    BY <1>0, <1>1, <2>0 DEF Settle, IInv, TypeOK
  <2>5. /\ u \in Node /\ rank'[u] > 0 /\ clus_id'[u] = clus_id[u]
        /\ \A v \in Node \ {u} : rank'[v] = rank[v]
    BY <1>4, <2>2
  <2>6. CASE u \notin A /\ clus_id[u] = c
    BY <2>1, <2>3, <2>4, <2>5, <2>6
  <2>7. CASE ~(u \notin A /\ clus_id[u] = c)
    <3>1. rank[u] = 0
      BY <1>0
    <3> QED
      BY <2>1, <2>3, <2>4, <2>5, <2>7, <3>1
  <2> QED
    BY <2>6, <2>7
<1>16. TakenHasHop'
  BY <1>3 DEF IInv, TakenHasHop
<1> QED
  BY <1>5, <1>6, <1>9, <1>10, <1>11, <1>12, <1>13, <1>14, <1>15, <1>16 DEF IInv

\* So does a later one.
LEMMA SkipOK ==
    ASSUME IInv, NEW u \in Node, SkipRemoved(u)
    PROVE  IInv'
<1>1. /\ queue[u] > 0 /\ rank[u] > 0
      /\ queue' = [queue EXCEPT ![u] = @ - 1]
      /\ UNCHANGED <<graph, A, d2CH, clus_id, nextHop, rank, removals, representSet>>
  BY DEF SkipRemoved
<1>2. queue' \in [Node -> Nat] /\ \A v \in Node : v # u => queue'[v] = queue[v]
  BY <1>1 DEF IInv, TypeOK
<1>3. TypeOK'
  BY <1>1, <1>2 DEF IInv, TypeOK
<1>4. OutsideUntouched'
  BY <1>1, <1>2 DEF IInv, OutsideUntouched, InBall
<1>5. InBallIsQueued'
  BY <1>1, <1>2 DEF IInv, InBallIsQueued, InBall
<1>6. /\ LandmarksOwn' /\ SettledReach' /\ RanksBounded' /\ TakenHasHop'
  BY <1>1 DEF IInv, LandmarksOwn, SettledReach, RanksBounded, TakenHasHop,
     getAdjExceptSink
<1>7. HopStaysInCluster' /\ HopsLeadBack' /\ RepresentExact'
  BY <1>1 DEF IInv, HopStaysInCluster, HopsLeadBack, RepresentExact
<1> QED
  BY <1>3, <1>4, <1>5, <1>6, <1>7 DEF IInv

\* So every step keeps it.
LEMMA StepOK == IInv /\ [Next]_vars => IInv'
<1> SUFFICES ASSUME IInv, [Next]_vars PROVE IInv'
  OBVIOUS
<1>1. CASE \E u \in Node : Settle(u)
  BY <1>1, SettleOK
<1>2. CASE \E u \in Node : SkipRemoved(u)
  BY <1>2, SkipOK
<1>3. CASE UNCHANGED vars
  <2> USE <1>3 DEF vars
  <2>1. TypeOK' /\ LandmarksOwn' /\ RanksBounded' /\ TakenHasHop'
    BY DEF IInv, TypeOK, LandmarksOwn, RanksBounded, TakenHasHop
  <2>2. OutsideUntouched' /\ InBallIsQueued' /\ SettledReach'
    BY DEF IInv, OutsideUntouched, InBallIsQueued, InBall, SettledReach,
       getAdjExceptSink
  <2>3. HopStaysInCluster' /\ HopsLeadBack' /\ RepresentExact'
    BY DEF IInv, HopStaysInCluster, HopsLeadBack, RepresentExact
  <2> QED
    BY <2>1, <2>2, <2>3 DEF IInv
<1> QED
  BY <1>1, <1>2, <1>3 DEF Next, Finished

\* The inductive invariant holds throughout the loop.
THEOREM Inductive == Spec => []IInv
<1> QED
  BY InitOK, StepOK, PTL DEF Spec

\* Heads, distances, hops and counters keep their ranges.
THEOREM TypeCorrect == Spec => []TypeOK
<1>1. IInv => TypeOK
  BY DEF IInv
<1> QED
  BY <1>1, Inductive, PTL

\* A hop never leaves the cluster, and distances add up along it.
THEOREM ClustersConnected == Spec => []HopStaysInCluster
<1>1. IInv => HopStaysInCluster
  BY DEF IInv
<1> QED
  BY <1>1, Inductive, PTL

\* Following next hops goes back through the removal order: never a cycle.
THEOREM NoRoutingLoop == Spec => []HopsLeadBack
<1>1. IInv => HopsLeadBack
  BY DEF IInv
<1> QED
  BY <1>1, Inductive, PTL

\* Following next hops ends at a landmark, and landmarks keep their ball.
THEOREM HopsEnd == Spec => []HopsEndAtHead
<1>1. IInv => HopsEndAtHead
  BY DEF IInv, HopsEndAtHead, LandmarksOwn, TakenHasHop
<1> QED
  BY <1>1, Inductive, PTL

\* The lists of the landmarks partition the settled sensors by head, and no
\* other sensor has one; a list the sink kept from an earlier round is no part.
THEOREM RepresentationExact == Spec => []RepresentExact
<1>1. IInv => RepresentExact
  BY DEF IInv
<1> QED
  BY <1>1, Inductive, PTL

\* When the loop ends, every sensor within reach of a landmark has a head.
THEOREM Coverage == Spec => []AllInReach
<1>1. IInv => AllInReach
  <2> SUFFICES ASSUME IInv, Empty, NEW u \in Node, rank[u] > 0,
                      NEW v \in getAdjExceptSink(u)
               PROVE  rank[v] > 0 /\ clus_id[v] \in A
    BY DEF AllInReach
  <2>1. v \in Node \ {Sink}
    BY GraphAssumption DEF IInv, TypeOK, getAdjExceptSink
  <2>2. d2CH[v] # DBL_MAX
    BY DEF IInv, SettledReach
  <2>3. ~(queue[v] > 0)
    BY <2>1 DEF Empty
  <2> QED
    BY <2>1, <2>2, <2>3 DEF IInv, InBallIsQueued, InBall
<1> QED
  BY <1>1, Inductive, PTL

\* A step removes another node, or takes an entry off the queue and adds none.
Ahead ==
    \/ removedSet \subseteq removedSet' /\ removedSet' # removedSet
    \/ /\ removedSet' = removedSet
       /\ \A v \in Node : queue'[v] <= queue[v]
       /\ \E v \in Node : queue'[v] < queue[v]

\* Every step that is one gets ahead: the variant of the loop.  A node queued
\* once more for each shorter path is expanded once only.
THEOREM EveryStepAhead == Spec => [][Ahead]_vars
<1>1. IInv /\ [Next]_vars => [Ahead]_vars
  <2> SUFFICES ASSUME IInv, Next PROVE [Ahead]_vars
    OBVIOUS
  <2>1. ASSUME NEW u \in Node, Settle(u) PROVE Ahead
    <3>1. /\ rank \in [Node -> Nat] /\ removals \in Nat /\ rank[u] = 0
          /\ rank' = [rank EXCEPT ![u] = removals + 1]
      BY <2>1 DEF Settle, IInv, TypeOK
    <3>2. u \in removedSet' /\ u \notin removedSet /\ removedSet \subseteq removedSet'
      BY <3>1 DEF removedSet
    <3> QED
      BY <3>2 DEF Ahead
  <2>2. ASSUME NEW u \in Node, SkipRemoved(u) PROVE Ahead
    BY <2>2 DEF SkipRemoved, Ahead, removedSet, IInv, TypeOK
  <2> QED
    BY <2>1, <2>2 DEF Next, Finished
<1> QED
  BY <1>1, Inductive, PTL DEF Spec
=============================================================================
