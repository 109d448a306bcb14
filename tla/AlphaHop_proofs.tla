-------------------------- MODULE AlphaHop_proofs --------------------------
(***************************************************************************)
(* Routes, distances and balls of the alpha-hop clustering, for every disk *)
(* graph, every order of pops and neighbours and every number of retries   *)
(* with a larger alpha.  That a ball holds what is within alpha hops, and  *)
(* that next hops come to an end, is proved by induction over Nat, stated  *)
(* with sets: the recursive functions of AlphaHop are first shown to       *)
(* satisfy their definitions (Iterates), then reasoned about.              *)
(***************************************************************************)
EXTENDS AlphaHop, FiniteSetTheorems, TLAPS

\* The nodes the current search may still expand.
Searching == {v \in Sensor : dhop[v] # None /\ dhop[v] < alpha}

\* What the current search has visited belongs to the current ball.
VisitedInBall ==
    \A v \in Node : dhop[v] # None => ball[v] = Len(A) /\ hops[v] = dhop[v]

\* Nodes with a next hop were taken; in the current ball by this very search.
TakenByBall ==
    \A v \in Node : next[v] # None =>
        /\ v \in isRemoved /\ cent[v] # None
        /\ ball[v] = Len(A) => dhop[next[v]] # None

\* Whoever was removed is a centre or was taken; the others are still queued.
RemovedAccounted == \A v \in isRemoved : v \in Centres \/ next[v] # None
NobodyLost == Sensor \subseteq p_queue \cup isRemoved

IInv ==
    /\ TypeOK
    /\ q \in Seq(Searching) /\ (q # <<>> => Len(A) > 0)
    /\ VisitedInBall /\ TakenByBall /\ HopsLeadInward
    /\ RemovedAccounted /\ NobodyLost
    /\ saved => Done

\* None is no node and no number.
LEMMA NoneNotNode == None \notin Node /\ None \notin Nat
BY AlphaAssumption DEF None

\* A sequence over a set is one over a larger set.
LEMMA SeqMono ==
    ASSUME NEW S, NEW T, S \subseteq T, NEW s \in Seq(S)
    PROVE  s \in Seq(T)
OBVIOUS

\* The algorithm starts in order.
LEMMA InitOK == Init => IInv
<1> SUFFICES ASSUME Init PROVE IInv
  OBVIOUS
<1> USE AlphaAssumption, NoneNotNode DEF Init
<1>1. TypeOK
  <2>1. adj \in Graphs /\ alpha \in 1..MaxAlpha
    OBVIOUS
  <2>6. saved \in BOOLEAN
    BY Zenon
  <2>2. /\ p_queue \subseteq Sensor /\ isRemoved \subseteq Sensor
        /\ A \in Seq(Sensor) /\ q \in Seq(Sensor) /\ Len(A) = 0
    OBVIOUS
  <2>3. cent \in [Node -> Node \cup {None}] /\ next \in [Node -> Node \cup {None}]
    OBVIOUS
  <2>4. dhop \in [Node -> 0..alpha \cup {None}] /\ hops \in [Node -> 0..alpha]
    OBVIOUS
  <2>5. ball \in [Node -> 0..Len(A)]
    BY <2>2
  <2> QED
    BY <2>1, <2>2, <2>3, <2>4, <2>5, <2>6 DEF TypeOK
<1>2. /\ \A v \in Node : dhop[v] = None /\ next[v] = None
      /\ isRemoved = {} /\ p_queue = Sensor /\ q = <<>> /\ ~saved
  OBVIOUS
<1> HIDE DEF Init
<1>3. VisitedInBall /\ TakenByBall /\ HopsLeadInward
  BY <1>2, Zenon DEF VisitedInBall, TakenByBall, HopsLeadInward
<1>4. RemovedAccounted /\ NobodyLost
  BY <1>2 DEF RemovedAccounted, NobodyLost
<1>5. q \in Seq(Searching)
  BY <1>2
<1> QED
  BY <1>1, <1>2, <1>3, <1>4, <1>5 DEF IInv

\* Choosing a centre keeps the invariant.
LEMMA PopCentreOK ==
    ASSUME IInv, NEW i \in Sensor, PopCentre(i)
    PROVE  IInv'
<1> USE AlphaAssumption, NoneNotNode DEF IInv
<1>1. /\ i \in Node /\ i \notin isRemoved /\ next[i] = None
      /\ A \in Seq(Sensor) /\ Len(A) \in Nat
  BY DEF PopCentre, TakenByBall, TypeOK, Sensor
<1>2. /\ A' = Append(A, i) /\ A' \in Seq(Sensor) /\ Len(A') = Len(A) + 1
      /\ A'[Len(A) + 1] = i /\ \A k \in 1..Len(A) : A'[k] = A[k]
  BY <1>1 DEF PopCentre
<1>3. /\ dhop' = [v \in Node |-> IF v = i THEN 0 ELSE None]
      /\ ball' = [ball EXCEPT ![i] = Len(A) + 1]
      /\ hops' = [hops EXCEPT ![i] = 0]
      /\ next' = next /\ cent' = cent /\ adj' = adj
      /\ alpha' = alpha /\ saved' = saved /\ q' = <<i>>
      /\ p_queue' = p_queue \ {i} /\ isRemoved' = isRemoved \cup {i}
  BY DEF PopCentre, params
<1>4. \A v \in Node :
        /\ v = i => dhop'[v] = 0 /\ ball'[v] = Len(A) + 1 /\ hops'[v] = 0
        /\ v # i => dhop'[v] = None /\ ball'[v] = ball[v] /\ hops'[v] = hops[v]
        /\ ball[v] \in 0..Len(A)
  BY <1>3 DEF TypeOK
<1>5. TypeOK'
  <2>1. ball' \in [Node -> 0..Len(A')]
    <3>1. \A v \in Node : ball'[v] \in 0..(Len(A) + 1)
      BY <1>1, <1>4
    <3>2. ball' = [v \in Node |-> ball'[v]]
      BY <1>3 DEF TypeOK
    <3> QED
      BY <3>1, <3>2, <1>2
  <2>2. /\ hops' \in [Node -> 0..alpha'] /\ dhop' \in [Node -> 0..alpha' \cup {None}]
    <3>1. alpha \in Nat /\ alpha' = alpha
      BY <1>3 DEF TypeOK
    <3>2. hops \in [Node -> 0..alpha] /\ 0 \in 0..alpha
      BY <3>1 DEF TypeOK
    <3> QED
      BY <1>3, <3>1, <3>2
  <2>3. p_queue' \subseteq Sensor /\ isRemoved' \subseteq Sensor /\ q' \in Seq(Sensor)
    BY <1>3 DEF TypeOK
  <2> QED
    BY <1>2, <1>3, <2>1, <2>2, <2>3 DEF TypeOK
<1>6. q' \in Seq(Searching') /\ (q' # <<>> => Len(A') > 0)
  <2>1. i \in Searching'
    BY <1>1, <1>3, <1>4 DEF Searching, TypeOK
  <2> QED
    BY <2>1, <1>1, <1>2, <1>3
<1>7. VisitedInBall'
  BY <1>2, <1>4 DEF VisitedInBall
<1>8. TakenByBall'
  BY <1>1, <1>2, <1>3, <1>4 DEF TakenByBall
<1>9. HopsLeadInward'
  <2> SUFFICES ASSUME NEW v \in Node, next[v] # None
               PROVE  \/ ball'[v] < ball'[next[v]]
                      \/ /\ ball'[v] = ball'[next[v]]
                         /\ hops'[next[v]] < hops'[v]
    BY <1>3 DEF HopsLeadInward
  <2>1. next[v] \in Node /\ v # i
    BY <1>1 DEF TypeOK
  <2>2. CASE next[v] = i
    BY <2>1, <2>2, <1>4, <1>1
  <2>3. CASE next[v] # i
    BY <2>1, <2>3, <1>4, <1>1 DEF HopsLeadInward
  <2> QED
    BY <2>2, <2>3
<1>10. RemovedAccounted'
  <2>1. i \in Centres'
    <3>1. Len(A) + 1 \in 1..Len(A')
      BY <1>1, <1>2
    <3> QED
      BY <3>1, <1>2 DEF Centres
  <2>2. \A c \in Centres : c \in Centres'
    <3>1. \A k \in 1..Len(A) : k \in 1..Len(A') /\ A'[k] = A[k]
      BY <1>1, <1>2
    <3> QED
      BY <3>1 DEF Centres
  <2> QED
    BY <2>1, <2>2, <1>3 DEF RemovedAccounted
<1>11. NobodyLost' /\ (saved' => Done')
  BY <1>3 DEF NobodyLost, PopCentre, Done
<1> QED
  BY <1>5, <1>6, <1>7, <1>8, <1>9, <1>10, <1>11

\* So does skipping a node already covered.
LEMMA PopRemovedOK ==
    ASSUME IInv, NEW i \in Sensor, PopRemoved(i)
    PROVE  IInv'
<1>1. /\ UNCHANGED <<params, isRemoved, A, cent, next, q, dhop, ball, hops>>
      /\ p_queue' = p_queue \ {i} /\ i \in isRemoved /\ p_queue # {}
  BY DEF PopRemoved
<1>2. TypeOK' /\ Searching' = Searching
  BY <1>1 DEF IInv, TypeOK, params, Searching
<1>3. /\ VisitedInBall' /\ TakenByBall' /\ HopsLeadInward' /\ RemovedAccounted'
  BY <1>1 DEF IInv, VisitedInBall, TakenByBall, HopsLeadInward, RemovedAccounted,
              Centres
<1>4. NobodyLost' /\ (saved' => Done')
  BY <1>1 DEF IInv, NobodyLost, Done, params
<1> QED
  BY <1>1, <1>2, <1>3, <1>4 DEF IInv

\* So does a round of the search from it.
LEMMA SearchOK ==
    ASSUME IInv, Search
    PROVE  IInv'
<1> USE AlphaAssumption, NoneNotNode DEF IInv
<1> DEFINE u == Head(q)
           d == dhop[u] + 1
           taken == IF InRange(d) THEN Unvisited(u) ELSE {}
<1>1. /\ q # <<>> /\ u \in Searching /\ Tail(q) \in Seq(Searching)
      /\ A \in Seq(Sensor) /\ Len(A) \in Nat /\ Len(A) > 0
      /\ Centre \in Sensor /\ Sensor \subseteq Node
  <2>1. q # <<>>
    BY DEF Search
  <2>2. u \in Searching /\ Tail(q) \in Seq(Searching)
    BY <2>1
  <2>3. A \in Seq(Sensor) /\ Len(A) \in Nat /\ Len(A) > 0
    BY <2>1 DEF TypeOK
  <2>4. Centre \in Sensor
    BY <2>3 DEF Centre
  <2> QED
    BY <2>1, <2>2, <2>3, <2>4 DEF Sensor
<1>2. /\ u \in Node /\ dhop[u] \in 0..alpha /\ dhop[u] < alpha /\ dhop[u] # None
      /\ alpha \in Nat /\ d \in 1..alpha
  <2>1. u \in Node /\ dhop[u] < alpha /\ dhop[u] # None
    BY <1>1 DEF Searching
  <2>2. dhop \in [Node -> 0..alpha \cup {None}] /\ alpha \in Nat
    BY DEF TypeOK
  <2>3. dhop[u] \in 0..alpha
    BY <2>1, <2>2
  <2> QED
    BY <2>1, <2>2, <2>3
<1>3. /\ taken = Unvisited(u) /\ taken \subseteq Sensor
      /\ \A v \in taken : dhop[v] = None
      /\ u \notin taken
  <2>1. adj[u] \subseteq Node
    <3>1. adj \in Graphs
      BY DEF TypeOK
    <3>2. adj \in [Node -> SUBSET Node]
      BY <3>1, Zenon
    <3> QED
      BY <1>2, <3>2
  <2> QED
    BY <1>2, <2>1 DEF InRange, Unvisited, getAdjExceptSink, Sensor
<1>4. /\ dhop' = [v \in Node |-> IF v \in Unvisited(u) THEN d ELSE dhop[v]]
      /\ isRemoved' = isRemoved \cup taken
      /\ cent' = [v \in Node |-> IF v \in taken THEN Centre ELSE cent[v]]
      /\ next' = [v \in Node |-> IF v \in taken THEN u ELSE next[v]]
      /\ ball' = [v \in Node |-> IF v \in taken THEN Len(A) ELSE ball[v]]
      /\ hops' = [v \in Node |-> IF v \in taken THEN d ELSE hops[v]]
      /\ UNCHANGED <<params, p_queue, A>>
  BY DEF Search
<1>5. PICK s \in Lists(taken) :
        q' = Tail(q) \o (IF d < alpha THEN s ELSE <<>>)
  BY DEF Search
<1>6. s \in Seq(taken)
  <2>1. IsFiniteSet(taken)
    BY <1>1, <1>3, FS_Subset
  <2>2. Cardinality(taken) \in Nat
    BY <2>1, FS_CardinalityType
  <2> QED
    BY <2>2 DEF Lists
<1> HIDE DEF taken, d, u
<1>7. \A v \in Node :
        /\ v \in taken => /\ dhop'[v] = d /\ cent'[v] = Centre
                          /\ next'[v] = u /\ ball'[v] = Len(A) /\ hops'[v] = d
        /\ v \notin taken => /\ dhop'[v] = dhop[v] /\ cent'[v] = cent[v]
                             /\ next'[v] = next[v] /\ ball'[v] = ball[v]
                             /\ hops'[v] = hops[v]
  BY <1>3, <1>4
<1>8. alpha' = alpha /\ adj' = adj /\ saved' = saved /\ A' = A /\ p_queue' = p_queue
  BY <1>4 DEF params
<1>9. q' \in Seq(Searching')
  <2>1. Searching \subseteq Searching'
    BY <1>3, <1>7, <1>8 DEF Searching, Sensor
  <2>2. d < alpha => taken \subseteq Searching'
    <3> SUFFICES ASSUME d < alpha, NEW v \in taken PROVE v \in Searching'
      OBVIOUS
    <3>1. v \in Sensor /\ dhop'[v] = d /\ d # None
      BY <1>2, <1>3, <1>7 DEF Sensor
    <3> QED
      BY <3>1, <1>8 DEF Searching
  <2>3. Tail(q) \in Seq(Searching')
    BY <1>1, <2>1, SeqMono
  <2>4. CASE d < alpha
    <3>1. s \in Seq(Searching')
      BY <1>6, <2>2, <2>4, SeqMono
    <3> QED
      BY <1>5, <2>3, <2>4, <3>1
  <2>5. CASE ~(d < alpha)
    BY <1>5, <2>3, <2>5
  <2> QED
    BY <2>4, <2>5
<1>10. TypeOK'
  <2>1. q' \in Seq(Sensor)
    <3>1. Searching' \subseteq Sensor
      BY DEF Searching
    <3> QED
      BY <1>9, <3>1, SeqMono
  <2>2. cent' \in [Node -> Node \cup {None}] /\ next' \in [Node -> Node \cup {None}]
    BY <1>1, <1>2, <1>4 DEF TypeOK
  <2>3. /\ dhop' \in [Node -> 0..alpha \cup {None}] /\ hops' \in [Node -> 0..alpha]
    BY <1>2, <1>3, <1>4 DEF TypeOK
  <2>4. ball' \in [Node -> 0..Len(A)]
    BY <1>1, <1>4 DEF TypeOK
  <2>5. isRemoved' \subseteq Sensor
    BY <1>3, <1>4 DEF TypeOK
  <2> QED
    BY <1>8, <2>1, <2>2, <2>3, <2>4, <2>5 DEF TypeOK
<1>11. VisitedInBall'
  BY <1>7, <1>8 DEF VisitedInBall
<1>12. TakenByBall'
  <2> SUFFICES ASSUME NEW v \in Node, next'[v] # None
               PROVE  /\ v \in isRemoved' /\ cent'[v] # None
                      /\ ball'[v] = Len(A) => dhop'[next'[v]] # None
    BY <1>8 DEF TakenByBall
  <2>1. d # None
    BY <1>2
  <2>2. CASE v \in taken
    BY <1>1, <1>2, <1>3, <1>4, <1>7, <2>2
  <2>3. CASE v \notin taken
    <3>1. next[v] \in Node /\ next'[v] = next[v] /\ ball'[v] = ball[v]
      BY <1>7, <2>3 DEF TypeOK
    <3>2. v \in isRemoved' /\ cent'[v] # None
      BY <1>4, <1>7, <2>3, <3>1 DEF TakenByBall
    <3>3. ball[v] = Len(A) => dhop'[next[v]] # None
      BY <1>7, <2>1, <3>1 DEF TakenByBall
    <3> QED
      BY <3>1, <3>2, <3>3
  <2> QED
    BY <2>2, <2>3
<1>13. HopsLeadInward'
  <2> SUFFICES ASSUME NEW v \in Node, next'[v] # None
               PROVE  \/ ball'[v] < ball'[next'[v]]
                      \/ /\ ball'[v] = ball'[next'[v]]
                         /\ hops'[next'[v]] < hops'[v]
    BY DEF HopsLeadInward
  <2>1. CASE v \in taken
    <3>1. next'[v] = u /\ ball'[v] = Len(A) /\ hops'[v] = d
      BY <1>7, <2>1
    <3>2. ball'[u] = Len(A) /\ hops'[u] = dhop[u]
      BY <1>2, <1>3, <1>7 DEF VisitedInBall
    <3>3. dhop[u] < d
      BY <1>2 DEF d
    <3> QED
      BY <3>1, <3>2, <3>3
  <2>2. CASE v \notin taken
    <3> DEFINE w == next[v]
    <3>1. w \in Node /\ next'[v] = w /\ ball'[v] = ball[v] /\ hops'[v] = hops[v]
      BY <1>7, <2>2 DEF TypeOK
    <3>2. CASE w \in taken
      <4>1. dhop[w] = None /\ ball'[w] = Len(A)
        BY <1>3, <1>7, <3>1, <3>2
      <4>2. ball[v] # Len(A) /\ ball[v] \in 0..Len(A)
        BY <4>1, <1>7, <2>2 DEF TakenByBall, TypeOK
      <4> QED
        BY <3>1, <4>1, <4>2, <1>1
    <3>3. CASE w \notin taken
      <4>1. ball'[w] = ball[w] /\ hops'[w] = hops[w]
        BY <1>7, <3>1, <3>3
      <4> QED
        BY <3>1, <4>1, <1>7, <2>2 DEF HopsLeadInward
    <3> QED
      BY <3>2, <3>3
  <2> QED
    BY <2>1, <2>2
<1>14. RemovedAccounted'
  <2>1. Centres' = Centres
    BY <1>8 DEF Centres
  <2> QED
    <3> SUFFICES ASSUME NEW v \in isRemoved', v \notin Centres
                 PROVE  next'[v] # None
      BY <2>1 DEF RemovedAccounted
    <3>1. v \in Node
      BY <1>1, <1>3, <1>4 DEF TypeOK
    <3>2. CASE v \in taken
      BY <1>2, <1>7, <3>1, <3>2
    <3>3. CASE v \notin taken
      BY <1>4, <1>7, <3>1, <3>3 DEF RemovedAccounted
    <3> QED
      BY <3>2, <3>3
<1>15. NobodyLost' /\ (saved' => Done') /\ (q' # <<>> => Len(A') > 0)
  BY <1>1, <1>4, <1>8 DEF NobodyLost, Done
<1> QED
  BY <1>9, <1>10, <1>11, <1>12, <1>13, <1>14, <1>15

\* So does starting again with a larger alpha.
LEMMA RetryOK ==
    ASSUME IInv, Retry
    PROVE  IInv'
<1> USE AlphaAssumption, NoneNotNode
<1>1. /\ alpha \in 1..MaxAlpha /\ alpha < MaxAlpha /\ alpha' = alpha + 1
      /\ adj' = adj /\ adj \in Graphs /\ ~saved /\ saved' = saved
      /\ q = <<>> /\ q' = <<>> /\ A' = <<>>
      /\ p_queue' = Sensor /\ isRemoved' = {}
  BY DEF Retry, Done, IInv, TypeOK
<1>2. /\ cent' = [v \in Node |-> None] /\ next' = [v \in Node |-> None]
      /\ dhop' = [v \in Node |-> None]
      /\ ball' = [v \in Node |-> 0] /\ hops' = [v \in Node |-> 0]
  BY DEF Retry
<1>3. TypeOK'
  <2>1. alpha' \in 1..MaxAlpha /\ Len(A') = 0
    BY <1>1
  <2>2. saved' \in BOOLEAN
    BY <1>1, Zenon DEF IInv, TypeOK
  <2>3. q' \in Seq(Sensor) /\ A' \in Seq(Sensor)
    BY <1>1
  <2>4. /\ hops' \in [Node -> 0..alpha'] /\ ball' \in [Node -> 0..Len(A')]
    BY <1>2, <2>1
  <2> QED
    BY <1>1, <1>2, <2>1, <2>2, <2>3, <2>4 DEF TypeOK
<1>4. \A v \in Node : dhop'[v] = None /\ next'[v] = None
  BY <1>2
<1>5. VisitedInBall' /\ TakenByBall' /\ HopsLeadInward'
  BY <1>4, Zenon DEF VisitedInBall, TakenByBall, HopsLeadInward
<1>6. RemovedAccounted' /\ NobodyLost' /\ q' \in Seq(Searching')
  BY <1>1 DEF RemovedAccounted, NobodyLost
<1>7. ~saved' /\ q' = <<>>
  BY <1>1, Zenon
<1> QED
  BY <1>3, <1>5, <1>6, <1>7 DEF IInv

\* So does saving the clustering found, and no step at all.
LEMMA SaveOK ==
    ASSUME IInv, Save \/ UNCHANGED vars
    PROVE  IInv'
<1>1. /\ UNCHANGED <<adj, alpha, p_queue, isRemoved, A, cent, next, q, dhop,
                     ball, hops>>
      /\ saved' = saved \/ (saved' = TRUE /\ Done)
  BY DEF Save, vars
<1>2. saved' \in BOOLEAN
  BY <1>1, Zenon DEF IInv, TypeOK
<1>3. TypeOK' /\ Searching' = Searching /\ Done' = Done
  BY <1>1, <1>2 DEF IInv, TypeOK, Searching, Done
<1>4. /\ VisitedInBall' /\ TakenByBall' /\ HopsLeadInward' /\ RemovedAccounted'
      /\ NobodyLost'
  BY <1>1 DEF IInv, VisitedInBall, TakenByBall, HopsLeadInward, RemovedAccounted,
              NobodyLost, Centres
<1>5. q' \in Seq(Searching') /\ (q' # <<>> => Len(A') > 0)
  BY <1>1, <1>3 DEF IInv
<1>6. saved' => Done'
  BY <1>1, <1>3 DEF IInv
<1> QED
  BY <1>3, <1>4, <1>5, <1>6 DEF IInv

\* So every step keeps it.
LEMMA StepOK == IInv /\ [Next]_vars => IInv'
BY PopCentreOK, PopRemovedOK, SearchOK, RetryOK, SaveOK DEF Next, Finished

\* The inductive invariant holds through every run of the clustering.
THEOREM Inductive == Spec => []IInv
<1> QED
  BY InitOK, StepOK, PTL DEF Spec

\* Hop counts stay within alpha, heads and hops within the nodes.
THEOREM TypeCorrect == Spec => []TypeOK
<1>1. IInv => TypeOK
  BY DEF IInv
<1> QED
  BY <1>1, Inductive, PTL

\* Next hops never form a circle, although later balls take over nodes that
\* others route through.
THEOREM NoRoutingLoop == Spec => []HopsLeadInward
<1>1. IInv => HopsLeadInward
  BY DEF IInv
<1> QED
  BY <1>1, Inductive, PTL

\* A saved clustering leaves no sensor out.
THEOREM EverySensorClustered == Spec => []AllClustered
<1>1. IInv => AllClustered
  <2> SUFFICES ASSUME IInv, saved, NEW v \in Sensor, v \notin Centres
               PROVE  cent[v] # None /\ next[v] # None
    BY DEF AllClustered
  <2>1. v \in isRemoved
    BY DEF IInv, NobodyLost, Done
  <2> QED
    BY <2>1 DEF IInv, RemovedAccounted, TakenByBall, Sensor
<1> QED
  BY <1>1, Inductive, PTL

-----------------------------------------------------------------------------
(* Induction over Nat, without an operator as a parameter: the property is *)
(* a set, and a counterexample would have a least one.                     *)

\* A set of naturals that is not empty has a least element: among the
\* initial segments of its members there is a smallest one.
LEMMA LeastNatural ==
    ASSUME NEW T, T \subseteq Nat, T # {}
    PROVE  \E m \in T : \A n \in T : m <= n
<1> DEFINE R == StrictSubsetOrdering(Nat)
           F == FiniteSubsetsOf(Nat)
           U == {0..m : m \in T}
<1>1. IsWellFoundedOn(R, F)
  BY FS_StrictSubsetOrderingWellFounded
<1>2. U \subseteq F /\ U # {}
  <2>1. \A m \in T : 0..m \in SUBSET Nat /\ IsFiniteSet(0..m)
    BY FS_Interval
  <2> QED
    BY <2>1 DEF FiniteSubsetsOf
<1>3. \A m, n \in T : n < m => <<0..n, 0..m>> \in R
  <2> SUFFICES ASSUME NEW m \in T, NEW n \in T, n < m
               PROVE  <<0..n, 0..m>> \in R
    OBVIOUS
  <2>1. m \in Nat /\ n \in Nat
    OBVIOUS
  <2>2. 0..n \in SUBSET Nat /\ 0..m \in SUBSET Nat /\ 0..n \subseteq 0..m
    BY <2>1
  <2>3. m \in 0..m /\ m \notin 0..n
    BY <2>1
  <2> QED
    BY <2>2, <2>3 DEF StrictSubsetOrdering
<1> HIDE DEF R, F, U
<1>4. PICK x \in U : \A y \in U : ~ (<<y, x>> \in R)
  BY <1>1, <1>2, WFMin
<1>5. PICK m \in T : x = 0..m
  BY DEF U
<1>6. \A n \in T : m <= n
  <2> SUFFICES ASSUME NEW n \in T, n < m PROVE FALSE
    OBVIOUS
  <2>1. 0..n \in U
    BY DEF U
  <2> QED
    BY <2>1, <1>3, <1>4, <1>5
<1> QED
  BY <1>6

\* Induction, with the property given as the set of numbers that have it.
LEMMA Induct ==
    ASSUME NEW S, 0 \in S, \A n \in Nat : n \in S => n + 1 \in S
    PROVE  Nat \subseteq S
<1> DEFINE T == Nat \ S
<1> SUFFICES ASSUME T # {} PROVE FALSE
  OBVIOUS
<1>1. PICK m \in T : \A n \in T : m <= n
  BY LeastNatural
<1>2. m # 0 /\ m - 1 \in Nat /\ m - 1 \notin T
  BY <1>1
<1> QED
  BY <1>2

\* The first n + 1 iterates of a function.
IsIteration(h, f, x, n) ==
    h[0] = x /\ \A k \in 1..n : h[k] = f[h[k-1]]

\* A function can be iterated: what a recursive function over Nat rests on.
HasIterates(D, x, f) ==
    \E g \in [Nat -> D] : g[0] = x /\ \A k \in Nat : g[k+1] = f[g[k]]

LEMMA Iterates ==
    ASSUME NEW D, NEW x \in D, NEW f \in [D -> D]
    PROVE  HasIterates(D, x, f)
<1> DEFINE S == {n \in Nat : \E h \in [Nat -> D] : IsIteration(h, f, x, n)}
<1>1. 0 \in S
  <2>1. [k \in Nat |-> x] \in [Nat -> D] /\ IsIteration([k \in Nat |-> x], f, x, 0)
    BY DEF IsIteration
  <2> QED
    BY <2>1
<1>2. ASSUME NEW n \in Nat, n \in S PROVE n + 1 \in S
  <2>1. PICK h \in [Nat -> D] : IsIteration(h, f, x, n)
    BY <1>2
  <2> DEFINE g == [k \in Nat |-> IF k = n + 1 THEN f[h[n]] ELSE h[k]]
  <2>2. g \in [Nat -> D] /\ g[0] = x /\ \A k \in 1..(n+1) : g[k] = f[g[k-1]]
    BY <2>1 DEF IsIteration
  <2> HIDE DEF g
  <2>3. IsIteration(g, f, x, n + 1)
    BY <2>2 DEF IsIteration
  <2> QED
    BY <2>2, <2>3
<1>3. \A n \in Nat : \E h \in [Nat -> D] : IsIteration(h, f, x, n)
  <2> HIDE DEF S
  <2>1. Nat \subseteq S
    BY <1>1, <1>2, Induct
  <2> QED
    BY <2>1 DEF S
<1>4. ASSUME NEW m \in Nat, NEW h \in [Nat -> D], NEW e \in [Nat -> D],
             IsIteration(h, f, x, m), IsIteration(e, f, x, m + 1)
      PROVE  h[m] = e[m]
  <2> DEFINE E == {k \in Nat : k <= m => h[k] = e[k]}
  <2>1. 0 \in E
    BY <1>4 DEF IsIteration
  <2>2. ASSUME NEW k \in Nat, k \in E PROVE k + 1 \in E
    <3> SUFFICES ASSUME k + 1 <= m PROVE h[k + 1] = e[k + 1]
      OBVIOUS
    <3>1. k + 1 \in 1..m /\ k + 1 \in 1..(m + 1) /\ h[k] = e[k] /\ (k + 1) - 1 = k
      BY <2>2
    <3>2. h[k + 1] = f[h[k]] /\ e[k + 1] = f[e[k]]
      BY <3>1, <1>4 DEF IsIteration
    <3> QED
      BY <3>1, <3>2
  <2> HIDE DEF E
  <2>3. m \in E
    BY <2>1, <2>2, Induct
  <2> QED
    BY <2>3 DEF E
<1> DEFINE it == [n \in Nat |-> CHOOSE h \in [Nat -> D] : IsIteration(h, f, x, n)]
           g == [n \in Nat |-> it[n][n]]
<1>5. \A n \in Nat : it[n] \in [Nat -> D] /\ IsIteration(it[n], f, x, n)
  BY <1>3
<1> HIDE DEF it
<1>6. g \in [Nat -> D] /\ g[0] = x
  BY <1>5 DEF IsIteration
<1>7. ASSUME NEW k \in Nat PROVE g[k+1] = f[g[k]]
  <2>1. it[k][k] = it[k+1][k]
    BY <1>4, <1>5
  <2>2. it[k+1][k+1] = f[it[k+1][k]]
    <3>1. k + 1 \in 1..(k + 1) /\ (k + 1) - 1 = k /\ k + 1 \in Nat
      OBVIOUS
    <3>2. IsIteration(it[k+1], f, x, k+1)
      BY <1>5, <3>1
    <3> QED
      BY <3>1, <3>2 DEF IsIteration
  <2> QED
    BY <2>1, <2>2
<1> HIDE DEF g
<1> QED
  BY <1>6, <1>7 DEF HasIterates

\* Balls of a graph: what Within is, for any graph.
Grow(g, S) == S \cup UNION {g[u] \ {Sink} : u \in S}
Reach(g, c) ==
    LET W[k \in Nat] ==
            IF k = 0 THEN {c}
            ELSE W[k-1] \cup UNION {g[u] \ {Sink} : u \in W[k-1]}
    IN  W

\* Within is such a ball of the disk graph.
LEMMA WithinIsReach == \A c : Within(c) = Reach(adj, c)
BY DEF Within, Reach, getAdjExceptSink

\* Its recursive definition is one, for balls can be grown step by step.
LEMMA ReachUnfolds ==
    ASSUME NEW g \in [Node -> SUBSET Node], NEW c \in Sensor
    PROVE  /\ Reach(g, c) \in [Nat -> SUBSET Sensor]
           /\ Reach(g, c)[0] = {c}
           /\ \A k \in Nat : Reach(g, c)[k+1] = Grow(g, Reach(g, c)[k])
<1> DEFINE D == SUBSET Sensor
           f == [S \in D |-> Grow(g, S)]
           Rec(W) == [k \in Nat |-> IF k = 0 THEN {c}
                        ELSE W[k-1] \cup UNION {g[u] \ {Sink} : u \in W[k-1]}]
<1>1. {c} \in D /\ f \in [D -> D]
  BY DEF Grow, Sensor
<1>2. PICK W \in [Nat -> D] : W[0] = {c} /\ \A k \in Nat : W[k+1] = f[W[k]]
  <2> HIDE DEF D, f
  <2>1. HasIterates(D, {c}, f)
    BY <1>1, Iterates
  <2> QED
    BY <2>1 DEF HasIterates
<1>3. \A k \in Nat : W[k+1] = Grow(g, W[k])
  BY <1>2
<1>4. W = Rec(W)
  <2>1. \A k \in Nat : W[k] = Rec(W)[k]
    <3> SUFFICES ASSUME NEW k \in Nat, k # 0
                 PROVE W[k] = Grow(g, W[k-1])
      BY <1>2 DEF Grow
    <3>1. k - 1 \in Nat /\ (k - 1) + 1 = k
      OBVIOUS
    <3> QED
      BY <3>1, <1>3
  <2> QED
    BY <2>1
<1>5. Reach(g, c) = Rec(Reach(g, c))
  <2>1. Reach(g, c) = CHOOSE V : V = Rec(V)
    BY DEF Reach
  <2> HIDE DEF Rec
  <2> QED
    BY <2>1, <1>4
<1> DEFINE V == Reach(g, c)
<1>6. V = [k \in Nat |-> V[k]] /\ V[0] = {c}
  BY <1>5
<1>7. \A k \in Nat : V[k+1] = Grow(g, V[k])
  BY <1>5 DEF Grow
<1>8. \A k \in Nat : V[k] \in SUBSET Sensor
  <2> DEFINE S == {k \in Nat : V[k] \in SUBSET Sensor}
  <2> HIDE DEF V
  <2>1. 0 \in S
    BY <1>6
  <2>2. \A k \in Nat : k \in S => k + 1 \in S
    BY <1>7 DEF Grow, Sensor
  <2> HIDE DEF S
  <2>3. Nat \subseteq S
    BY <2>1, <2>2, Induct
  <2> QED
    BY <2>3 DEF S
<1> HIDE DEF V
<1>9. V \in [Nat -> SUBSET Sensor]
  BY <1>6, <1>8
<1> QED
  BY <1>6, <1>7, <1>9 DEF V

\* Balls grow with their radius.
LEMMA ReachMono ==
    ASSUME NEW g \in [Node -> SUBSET Node], NEW c \in Sensor,
           NEW j \in Nat, NEW k \in Nat, j <= k
    PROVE  Reach(g, c)[j] \subseteq Reach(g, c)[k]
<1> DEFINE S == {n \in Nat : Reach(g, c)[j] \subseteq Reach(g, c)[j + n]}
<1>1. 0 \in S
  OBVIOUS
<1>2. ASSUME NEW n \in Nat, n \in S PROVE n + 1 \in S
  <2>1. /\ Reach(g, c)[(j + n) + 1] = Grow(g, Reach(g, c)[j + n])
        /\ (j + n) + 1 = j + (n + 1)
    BY ReachUnfolds
  <2> QED
    BY <1>2, <2>1 DEF Grow
<1> HIDE DEF S
<1>3. k - j \in S /\ j + (k - j) = k
  BY <1>1, <1>2, Induct
<1> QED
  BY <1>3 DEF S

\* What is k hops from a neighbour of c is k + 1 hops from c.
LEMMA ReachNeighbour ==
    ASSUME NEW g \in [Node -> SUBSET Node], NEW c \in Sensor,
           NEW w \in Sensor, w \in g[c], NEW k \in Nat
    PROVE  Reach(g, w)[k] \subseteq Reach(g, c)[k + 1]
<1> DEFINE S == {n \in Nat : Reach(g, w)[n] \subseteq Reach(g, c)[n + 1]}
<1>1. 0 \in S
  <2>1. /\ Reach(g, w)[0] = {w} /\ Reach(g, c)[0] = {c}
        /\ Reach(g, c)[0 + 1] = Grow(g, Reach(g, c)[0])
    BY ReachUnfolds
  <2> QED
    BY <2>1 DEF Grow, Sensor
<1>2. ASSUME NEW n \in Nat, n \in S PROVE n + 1 \in S
  <2>1. /\ Reach(g, w)[n + 1] = Grow(g, Reach(g, w)[n])
        /\ Reach(g, c)[(n + 1) + 1] = Grow(g, Reach(g, c)[n + 1])
    BY ReachUnfolds
  <2> QED
    BY <1>2, <2>1 DEF Grow
<1> HIDE DEF S
<1>3. k \in S
  BY <1>1, <1>2, Induct
<1> QED
  BY <1>3 DEF S

\* On an undirected graph, two nodes are in reach of each other or neither is.
LEMMA ReachSymmetric ==
    ASSUME NEW g \in [Node -> SUBSET Node],
           \A u, v \in Node : v \in g[u] <=> u \in g[v],
           NEW c \in Sensor, NEW v \in Sensor, NEW k \in Nat,
           v \in Reach(g, c)[k]
    PROVE  c \in Reach(g, v)[k]
<1> DEFINE S == {n \in Nat : \A b, w \in Sensor :
                                w \in Reach(g, b)[n] => b \in Reach(g, w)[n]}
<1>1. 0 \in S
  BY ReachUnfolds
<1>2. ASSUME NEW n \in Nat, n \in S PROVE n + 1 \in S
  <2> SUFFICES ASSUME NEW b \in Sensor, NEW w \in Sensor,
                      w \in Reach(g, b)[n + 1]
               PROVE  b \in Reach(g, w)[n + 1]
    OBVIOUS
  <2>1. /\ w \in Grow(g, Reach(g, b)[n]) /\ Reach(g, b)[n] \subseteq Sensor
    BY ReachUnfolds
  <2>2. CASE w \in Reach(g, b)[n]
    <3>1. b \in Reach(g, w)[n]
      BY <1>2, <2>2
    <3> QED
      BY <3>1, ReachMono
  <2>3. CASE w \notin Reach(g, b)[n]
    <3>1. PICK u \in Reach(g, b)[n] : w \in g[u]
      BY <2>1, <2>3 DEF Grow
    <3>2. u \in Sensor /\ u \in g[w]
      BY <2>1, <3>1 DEF Sensor
    <3>3. b \in Reach(g, u)[n]
      BY <1>2, <3>1, <3>2
    <3> QED
      BY <3>2, <3>3, ReachNeighbour
  <2> QED
    BY <2>2, <2>3
<1> HIDE DEF S
<1>3. k \in S
  BY <1>1, <1>2, Induct
<1> QED
  BY <1>3 DEF S
-----------------------------------------------------------------------------
(* The search itself.                                                      *)

Visited == {v \in Node : dhop[v] # None}
Queued(v) == \E m \in 1..Len(q) : q[m] = v

\* A visited node is exactly as far from the centre as it was counted.
CountedRight ==
    \A v \in Visited :
        /\ v \in Sensor /\ v \in isRemoved
        /\ v \in Reach(adj, Centre)[dhop[v]]
        /\ \A j \in 0..alpha : j < dhop[v] => v \notin Reach(adj, Centre)[j]
        /\ v # Centre => cent[v] = Centre

\* The queue holds nodes of one distance, then of the next.
InOrder ==
    \A m, n \in 1..Len(q) :
        m <= n => dhop[q[m]] <= dhop[q[n]] /\ dhop[q[n]] <= dhop[q[m]] + 1

\* Who is visited, near enough and no longer queued has been expanded.
Expanded ==
    \A v \in Visited :
        dhop[v] < alpha /\ ~Queued(v) => getAdjExceptSink(v) \subseteq Visited

\* The search of the last centre started there; the earlier ones are over.
BallsTaken ==
    \A m \in 1..Len(A) :
        /\ A[m] \in isRemoved
        /\ m = Len(A) => dhop[A[m]] = 0
        /\ m < Len(A) => Reach(adj, A[m])[alpha] \subseteq isRemoved

\* A clustered node is as far from its head as was counted.
HopsRight ==
    \A v \in Node : cent[v] # None =>
        /\ cent[v] \in Centres /\ hops[v] > 0
        /\ v \in Reach(adj, cent[v])[hops[v]]
        /\ v \notin Reach(adj, cent[v])[hops[v] - 1]

\* The centres are out of reach of one another and have no next hop.
Apart ==
    \A m \in 1..Len(A) :
        /\ next[A[m]] = None
        /\ \A n \in 1..Len(A) : m # n => A[n] \notin Reach(adj, A[m])[alpha]

\* A node has a next hop, a sensor, if it has a head.
Headed ==
    \A v \in Node : /\ cent[v] # None => next[v] # None
                    /\ next[v] # None => next[v] \in Sensor

SearchInv ==
    /\ Visited # {} => Len(A) > 0
    /\ CountedRight /\ InOrder /\ Expanded /\ BallsTaken
    /\ HopsRight /\ Apart /\ Headed

\* The disk graph's type, and what is used of it.
LEMMA GraphOK ==
    ASSUME TypeOK
    PROVE  /\ adj \in [Node -> SUBSET Node]
           /\ \A u, v \in Node : v \in adj[u] <=> u \in adj[v]
           /\ alpha \in Nat \ {0} /\ Sensor \subseteq Node
           /\ A \in Seq(Sensor) /\ Len(A) \in Nat
           /\ \A m \in 1..Len(A) : A[m] \in Sensor
           /\ Len(A) > 0 => Centre \in Sensor /\ Centre = A[Len(A)]
BY AlphaAssumption DEF TypeOK, Sensor, Centre

\* When nothing nearer than k hops is queued, all within k hops is visited.
LEMMA Complete ==
    ASSUME IInv, SearchInv, Len(A) > 0, NEW k \in Nat, k <= alpha,
           \A m \in 1..Len(q) : dhop[q[m]] >= k
    PROVE  \A j \in 0..k : Reach(adj, Centre)[j] \subseteq Visited
<1>1. TypeOK /\ CountedRight /\ Expanded /\ BallsTaken
  BY DEF IInv, SearchInv
<1>2. /\ adj \in [Node -> SUBSET Node] /\ Centre \in Sensor /\ alpha \in Nat
      /\ Sensor \subseteq Node /\ Len(A) \in 1..Len(A) /\ Centre = A[Len(A)]
  BY <1>1, GraphOK
<1> DEFINE S == {j \in Nat : j <= k => Reach(adj, Centre)[j] \subseteq Visited}
<1>3. 0 \in S
  <2>1. Reach(adj, Centre)[0] = {Centre}
    BY <1>2, ReachUnfolds
  <2>2. dhop[Centre] = 0
    BY <1>1, <1>2 DEF BallsTaken
  <2> QED
    BY <2>1, <2>2, <1>2, NoneNotNode DEF Visited
<1>4. ASSUME NEW j \in Nat, j \in S PROVE j + 1 \in S
  <2> SUFFICES ASSUME j + 1 <= k, NEW v \in Reach(adj, Centre)[j + 1]
               PROVE  v \in Visited
    OBVIOUS
  <2>1. /\ Reach(adj, Centre)[j] \subseteq Visited
        /\ Reach(adj, Centre)[j] \subseteq Sensor
        /\ v \in Reach(adj, Centre)[j]
                    \cup UNION {adj[u] \ {Sink} : u \in Reach(adj, Centre)[j]}
    BY <1>2, <1>4, ReachUnfolds DEF Grow
  <2>2. CASE v \in Reach(adj, Centre)[j]
    BY <2>1, <2>2
  <2>3. CASE v \notin Reach(adj, Centre)[j]
    <3>1. PICK u \in Reach(adj, Centre)[j] : v \in adj[u] \ {Sink}
      BY <2>1, <2>3
    <3>2. u \in Visited /\ u \in Node
      BY <2>1, <3>1 DEF Visited
    <3>3. dhop[u] \in 0..alpha
      BY <1>1, <3>2 DEF TypeOK, Visited
    <3>4. dhop[u] <= j
      BY <1>1, <1>2, <3>1, <3>2, <3>3 DEF CountedRight
    <3>5. dhop[u] < alpha /\ ~Queued(u)
      BY <1>2, <3>3, <3>4 DEF Queued
    <3> QED
      BY <1>1, <3>1, <3>2, <3>5 DEF Expanded, getAdjExceptSink
  <2> QED
    BY <2>2, <2>3
<1> HIDE DEF S
<1>5. Nat \subseteq S
  BY <1>3, <1>4, Induct
<1> QED
  BY <1>5 DEF S

\* The algorithm starts with no search.
LEMMA SearchInit == Init => SearchInv
<1> SUFFICES ASSUME Init PROVE SearchInv
  OBVIOUS
<1>1. /\ A = <<>> /\ q = <<>> /\ Visited = {} /\ Len(A) = 0 /\ Len(q) = 0
      /\ \A v \in Node : cent[v] = None /\ next[v] = None
  BY DEF Init, Visited
<1>2. CountedRight /\ InOrder /\ Expanded /\ BallsTaken
  BY <1>1 DEF CountedRight, InOrder, Expanded, BallsTaken
<1>3. HopsRight /\ Apart /\ Headed
  BY <1>1 DEF HopsRight, Apart, Headed
<1> QED
  BY <1>1, <1>2, <1>3 DEF SearchInv

\* Choosing a centre: it is out of reach of all the earlier ones.
LEMMA SearchPopCentre ==
    ASSUME IInv, SearchInv, NEW i \in Sensor, PopCentre(i)
    PROVE  SearchInv'
<1>1. /\ TypeOK /\ CountedRight /\ BallsTaken /\ HopsRight /\ Apart
      /\ TakenByBall /\ Headed
  BY DEF IInv, SearchInv
<1>2. /\ adj \in [Node -> SUBSET Node] /\ alpha \in Nat /\ alpha > 0
      /\ \A u, v \in Node : v \in adj[u] <=> u \in adj[v]
      /\ Sensor \subseteq Node /\ A \in Seq(Sensor) /\ Len(A) \in Nat
      /\ \A m \in 1..Len(A) : A[m] \in Sensor
  BY <1>1, GraphOK
<1>3. /\ q = <<>> /\ i \in Node /\ i \notin isRemoved /\ next[i] = None
      /\ cent[i] = None
  BY <1>1, <1>2 DEF PopCentre, TakenByBall, Headed
<1>4. /\ A' = Append(A, i) /\ Len(A') = Len(A) + 1
      /\ A'[Len(A) + 1] = i /\ \A k \in 1..Len(A) : A'[k] = A[k]
      /\ Centre' = i
  BY <1>2 DEF PopCentre, Centre
<1>5. /\ dhop' = [v \in Node |-> IF v = i THEN 0 ELSE None]
      /\ hops' = [hops EXCEPT ![i] = 0]
      /\ next' = next /\ cent' = cent /\ adj' = adj
      /\ alpha' = alpha /\ q' = <<i>> /\ isRemoved' = isRemoved \cup {i}
  BY DEF PopCentre, params
<1>6. Visited' = {i} /\ dhop'[i] = 0
  BY <1>2, <1>5, NoneNotNode DEF Visited
<1>8. CountedRight'
  <2>1. i \in Reach(adj, i)[0]
    BY <1>2, ReachUnfolds
  <2> QED
    BY <1>2, <1>4, <1>5, <1>6, <2>1 DEF CountedRight
<1>9. InOrder' /\ Expanded'
  <2>1. Len(q') = 1 /\ q'[1] = i
    BY <1>5
  <2>2. InOrder'
    BY <1>6, <2>1 DEF InOrder
  <2>3. Queued(i)'
    BY <2>1 DEF Queued
  <2> QED
    BY <1>6, <2>2, <2>3 DEF Expanded
<1>10. \A m \in 1..Len(A) : Reach(adj, A[m])[alpha] \subseteq isRemoved
  <2> SUFFICES ASSUME NEW m \in 1..Len(A), m = Len(A)
               PROVE  Reach(adj, A[m])[alpha] \subseteq isRemoved
    BY <1>1, <1>2 DEF BallsTaken
  <2>1. Len(A) > 0 /\ A[m] = Centre /\ Len(q) = 0 /\ alpha \in 0..alpha
    BY <1>2, <1>3 DEF Centre
  <2>2. Reach(adj, Centre)[alpha] \subseteq Visited
    <3>1. \A n \in 1..Len(q) : dhop[q[n]] >= alpha
      BY <2>1
    <3>2. \A j \in 0..alpha : Reach(adj, Centre)[j] \subseteq Visited
      BY <3>1, <2>1, <1>2, Complete
    <3> QED
      BY <3>2, <2>1
  <2>3. Visited \subseteq isRemoved
    BY <1>1 DEF CountedRight
  <2> QED
    BY <2>1, <2>2, <2>3
<1>11. BallsTaken'
  <2> SUFFICES ASSUME NEW m \in 1..Len(A')
               PROVE  /\ A'[m] \in isRemoved'
                      /\ m = Len(A') => dhop'[A'[m]] = 0
                      /\ m < Len(A') => Reach(adj, A'[m])[alpha] \subseteq isRemoved'
    BY <1>5 DEF BallsTaken
  <2>1. CASE m = Len(A) + 1
    BY <2>1, <1>2, <1>4, <1>5, <1>6
  <2>2. CASE m \in 1..Len(A)
    <3>1. A'[m] = A[m] /\ m # Len(A')
      BY <1>2, <1>4, <2>2
    <3> QED
      BY <2>2, <3>1, <1>1, <1>5, <1>10 DEF BallsTaken
  <2> QED
    BY <2>1, <2>2, <1>2, <1>4
<1>12. HopsRight'
  <2> SUFFICES ASSUME NEW v \in Node, cent[v] # None
               PROVE  /\ cent[v] \in Centres' /\ hops'[v] > 0
                      /\ v \in Reach(adj, cent[v])[hops'[v]]
                      /\ v \notin Reach(adj, cent[v])[hops'[v] - 1]
    BY <1>5 DEF HopsRight
  <2>1. cent[v] \in Centres'
    BY <1>1, <1>2, <1>4 DEF HopsRight, Centres
  <2>2. v # i
    BY <1>3
  <2> QED
    BY <1>1, <1>5, <2>1, <2>2 DEF HopsRight, TypeOK
<1>13. Apart'
  <2>1. \A k \in 1..Len(A') : k = Len(A) + 1 \/ k \in 1..Len(A)
    BY <1>2, <1>4
  <2>2. ASSUME NEW m \in 1..Len(A)
        PROVE  i \notin Reach(adj, A[m])[alpha] /\ A[m] \notin Reach(adj, i)[alpha]
    <3>1. A[m] \in Sensor /\ i \notin Reach(adj, A[m])[alpha]
      BY <1>2, <1>3, <1>10
    <3> QED
      BY <3>1, <1>2, ReachSymmetric
  <2>3. \A m \in 1..Len(A') : next[A'[m]] = None
    BY <2>1, <1>1, <1>3, <1>4 DEF Apart
  <2>4. ASSUME NEW m \in 1..Len(A'), NEW n \in 1..Len(A'), m # n
        PROVE  A'[n] \notin Reach(adj, A'[m])[alpha]
    <3>1. CASE m \in 1..Len(A) /\ n \in 1..Len(A)
      BY <3>1, <2>4, <1>1, <1>4 DEF Apart
    <3>2. CASE m = Len(A) + 1 /\ n \in 1..Len(A)
      BY <3>2, <2>2, <1>4
    <3>3. CASE n = Len(A) + 1 /\ m \in 1..Len(A)
      BY <3>3, <2>2, <1>4
    <3> QED
      BY <2>1, <2>4, <3>1, <3>2, <3>3
  <2> QED
    BY <2>3, <2>4, <1>5 DEF Apart
<1>14. Headed' /\ (Visited' # {} => Len(A') > 0)
  BY <1>1, <1>2, <1>4, <1>5 DEF Headed
<1> QED
  BY <1>8, <1>9, <1>11, <1>12, <1>13, <1>14 DEF SearchInv

\* Skipping a sensor, saving and no step at all leave the search alone.
LEMMA SearchSame ==
    ASSUME SearchInv, isRemoved' = isRemoved,
           UNCHANGED <<adj, alpha, A, cent, next, q, dhop, hops>>
    PROVE  SearchInv'
<1>1. /\ Visited' = Visited /\ Centre' = Centre /\ Centres' = Centres
      /\ \A v : Queued(v)' = Queued(v)
      /\ \A u : getAdjExceptSink(u)' = getAdjExceptSink(u)
  BY DEF Visited, Centre, Centres, Queued, getAdjExceptSink
<1>2. CountedRight' /\ InOrder' /\ Expanded' /\ BallsTaken'
  BY <1>1 DEF SearchInv, CountedRight, InOrder, Expanded, BallsTaken
<1>3. HopsRight' /\ Apart' /\ Headed'
  BY <1>1 DEF SearchInv, HopsRight, Apart, Headed
<1> QED
  BY <1>1, <1>2, <1>3 DEF SearchInv

\* Starting again forgets everything.
LEMMA SearchRetry ==
    ASSUME IInv, Retry
    PROVE  SearchInv'
<1>1. /\ A' = <<>> /\ q' = <<>> /\ Visited' = {}
      /\ \A v \in Node : cent'[v] = None /\ next'[v] = None
  BY DEF Retry, Visited, IInv, Done
<1>2. CountedRight' /\ InOrder' /\ Expanded' /\ BallsTaken'
  BY <1>1 DEF CountedRight, InOrder, Expanded, BallsTaken
<1>3. HopsRight' /\ Apart' /\ Headed'
  BY <1>1 DEF HopsRight, Apart, Headed
<1> QED
  BY <1>1, <1>2, <1>3 DEF SearchInv

\* A round of the search: whoever it takes is one hop further out than the
\* front node and no nearer, for all that is nearer has been visited.
LEMMA SearchSearch ==
    ASSUME IInv, SearchInv, Search
    PROVE  SearchInv'
<1> DEFINE u == Head(q)
           d == dhop[u] + 1
           taken == IF InRange(d) THEN Unvisited(u) ELSE {}
<1>1. /\ TypeOK /\ VisitedInBall /\ CountedRight /\ InOrder /\ Expanded
      /\ BallsTaken /\ HopsRight /\ Apart /\ Headed
      /\ q # <<>> /\ q \in Seq(Searching) /\ Len(A) > 0
  BY DEF IInv, SearchInv, Search
<1>2. /\ adj \in [Node -> SUBSET Node] /\ alpha \in Nat /\ Sensor \subseteq Node
      /\ A \in Seq(Sensor) /\ Len(A) \in 1..Len(A)
      /\ \A m \in 1..Len(A) : A[m] \in Sensor
      /\ Centre \in Sensor /\ Centre = A[Len(A)]
  BY <1>1, GraphOK
<1>3. /\ Len(q) \in Nat \ {0} /\ u = q[1] /\ u \in Searching
      /\ Len(Tail(q)) = Len(q) - 1
      /\ \A m \in 1..Len(Tail(q)) : Tail(q)[m] = q[m+1]
      /\ \A m \in 1..Len(q) : q[m] \in Searching
  BY <1>1
<1>4. /\ \A v \in Searching : v \in Sensor /\ v \in Visited /\ dhop[v] \in 0..alpha
                              /\ dhop[v] < alpha
      /\ u \in Sensor /\ u \in Visited /\ dhop[u] \in Nat /\ d \in 1..alpha
  <2>1. \A v \in Searching : v \in Sensor /\ v \in Visited /\ dhop[v] \in 0..alpha
                              /\ dhop[v] < alpha
    BY <1>1, <1>2 DEF Searching, Visited, TypeOK
  <2> QED
    BY <2>1, <1>2, <1>3
<1>5. /\ taken = Unvisited(u)
      /\ taken = {v \in adj[u] \ {Sink} : v \notin Visited}
      /\ taken \subseteq Sensor
  <2>1. taken = Unvisited(u)
    BY <1>4 DEF InRange
  <2>2. adj[u] \subseteq Node
    BY <1>2, <1>4
  <2> QED
    BY <2>1, <2>2 DEF Unvisited, getAdjExceptSink, Visited, Sensor
<1>6. /\ dhop' = [v \in Node |-> IF v \in Unvisited(u) THEN d ELSE dhop[v]]
      /\ isRemoved' = isRemoved \cup taken
      /\ cent' = [v \in Node |-> IF v \in taken THEN Centre ELSE cent[v]]
      /\ next' = [v \in Node |-> IF v \in taken THEN u ELSE next[v]]
      /\ hops' = [v \in Node |-> IF v \in taken THEN d ELSE hops[v]]
      /\ A' = A /\ adj' = adj /\ alpha' = alpha
  BY DEF Search, params
<1>7. PICK s \in Lists(taken) :
        q' = Tail(q) \o (IF d < alpha THEN s ELSE <<>>)
  BY DEF Search
<1>8. /\ s \in Seq(taken)
      /\ \A v \in taken : \E m \in 1..Len(s) : s[m] = v
  <2>1. IsFiniteSet(taken)
    BY <1>2, <1>5, FS_Subset, AlphaAssumption
  <2>2. Cardinality(taken) \in Nat
    BY <2>1, FS_CardinalityType
  <2>3. s \in [1..Cardinality(taken) -> taken]
        /\ \A v \in taken : \E m \in DOMAIN s : s[m] = v
    BY DEF Lists
  <2> HIDE DEF taken
  <2>4. s \in Seq(taken) /\ DOMAIN s = 1..Len(s)
    BY <2>2, <2>3
  <2> QED
    BY <2>3, <2>4
\* All within as many hops as the front node has been visited.
<1>9. \A j \in 0..dhop[u] : Reach(adj, Centre)[j] \subseteq Visited
  <2>1. \A m \in 1..Len(q) : dhop[q[m]] >= dhop[u]
    BY <1>1, <1>3, <1>4 DEF InOrder
  <2>2. dhop[u] <= alpha
    BY <1>3, <1>4
  <2> QED
    BY <1>1, <1>4, <2>1, <2>2, Complete
<1> DEFINE k == dhop[u]
<1>10. d = k + 1 /\ k \in Nat /\ k < alpha
  BY <1>3, <1>4
<1>11. \A v \in taken : v \in Reach(adj, Centre)[d]
  <2>1. u \in Reach(adj, Centre)[k]
    BY <1>1, <1>4 DEF CountedRight
  <2>2. Reach(adj, Centre)[k + 1] = Grow(adj, Reach(adj, Centre)[k])
    <3>1. k \in Nat
      BY <1>10
    <3> HIDE DEF k
    <3> QED
      BY <3>1, <1>2, ReachUnfolds
  <2> QED
    BY <1>5, <2>1, <2>2 DEF Grow
<1> HIDE DEF u, taken, d, k
<1>12. \A v \in Node :
        /\ v \in taken => /\ dhop'[v] = d /\ cent'[v] = Centre
                          /\ next'[v] = u /\ hops'[v] = d /\ dhop[v] = None
        /\ v \notin taken => /\ dhop'[v] = dhop[v] /\ cent'[v] = cent[v]
                             /\ next'[v] = next[v] /\ hops'[v] = hops[v]
  BY <1>5, <1>6 DEF Visited
<1>13. /\ Centre' = Centre /\ Centres' = Centres
       /\ Visited' = Visited \cup taken /\ d # None
  <2>1. Centre' = Centre /\ Centres' = Centres
    BY <1>6 DEF Centre, Centres
  <2>2. d # None
    BY <1>4, NoneNotNode
  <2> QED
    BY <2>1, <2>2, <1>2, <1>5, <1>12 DEF Visited
<1>14. \A v \in Visited : v \in Node /\ dhop'[v] = dhop[v] /\ v \notin taken
  BY <1>5, <1>12 DEF Visited
<1>15. CountedRight'
  <2> SUFFICES ASSUME NEW v \in Visited'
               PROVE  /\ v \in Sensor /\ v \in isRemoved'
                      /\ v \in Reach(adj, Centre)[dhop'[v]]
                      /\ \A j \in 0..alpha :
                            j < dhop'[v] => v \notin Reach(adj, Centre)[j]
                      /\ v # Centre => cent'[v] = Centre
    BY <1>6, <1>13 DEF CountedRight
  <2>1. CASE v \in taken
    <3>1. \A j \in 0..alpha : j < d => v \notin Reach(adj, Centre)[j]
      BY <2>1, <1>2, <1>5, <1>9, <1>10 DEF k
    <3> QED
      BY <2>1, <3>1, <1>2, <1>5, <1>6, <1>11, <1>12
  <2>2. CASE v \notin taken
    BY <2>2, <1>1, <1>6, <1>12, <1>13, <1>14 DEF CountedRight
  <2> QED
    BY <2>1, <2>2
<1>16. \A m \in 1..Len(q') :
        \/ m \in 1..Len(Tail(q)) /\ q'[m] = q[m+1] /\ m + 1 \in 1..Len(q)
        \/ m > Len(Tail(q)) /\ q'[m] \in taken
  BY <1>1, <1>3, <1>7, <1>8
<1>17. \A m \in 1..Len(q) : q[m] \in Visited /\ dhop'[q[m]] = dhop[q[m]]
                            /\ dhop[q[m]] \in Nat
                            /\ k <= dhop[q[m]] /\ dhop[q[m]] <= d
  BY <1>1, <1>3, <1>4, <1>10, <1>14 DEF InOrder, k
<1>18. \A v \in taken : dhop'[v] = d
  BY <1>2, <1>5, <1>12
<1>19. InOrder'
  <2> SUFFICES ASSUME NEW m \in 1..Len(q'), NEW n \in 1..Len(q'), m <= n
               PROVE  dhop'[q'[m]] <= dhop'[q'[n]] /\ dhop'[q'[n]] <= dhop'[q'[m]] + 1
    BY DEF InOrder
  <2>1. CASE m \in 1..Len(Tail(q)) /\ n \in 1..Len(Tail(q))
    <3>1. /\ q'[m] = q[m+1] /\ q'[n] = q[n+1]
          /\ m + 1 \in 1..Len(q) /\ n + 1 \in 1..Len(q) /\ m + 1 <= n + 1
      BY <1>3, <1>16, <2>1
    <3> QED
      BY <3>1, <1>1, <1>17 DEF InOrder
  <2>2. CASE m \in 1..Len(Tail(q)) /\ n > Len(Tail(q))
    <3>1. q'[m] = q[m+1] /\ m + 1 \in 1..Len(q) /\ q'[n] \in taken
      BY <1>3, <1>16, <2>2
    <3> QED
      BY <3>1, <1>10, <1>17, <1>18
  <2>3. CASE m > Len(Tail(q))
    <3>1. q'[m] \in taken /\ q'[n] \in taken
      BY <1>3, <1>16, <2>3
    <3> QED
      BY <3>1, <1>10, <1>18
  <2> QED
    BY <2>1, <2>2, <2>3, <1>3
<1>20. Expanded'
  <2> SUFFICES ASSUME NEW v \in Visited', dhop'[v] < alpha,
                      \A m \in 1..Len(q') : q'[m] # v
               PROVE  adj[v] \ {Sink} \subseteq Visited'
    BY <1>6 DEF Expanded, Queued, getAdjExceptSink
  <2>1. CASE v \in taken
    <3>1. d < alpha /\ q' = Tail(q) \o s
      BY <2>1, <1>7, <1>18
    <3>2. PICK m \in 1..Len(s) : s[m] = v
      BY <2>1, <1>8
    <3>3. Len(Tail(q)) + m \in 1..Len(q') /\ q'[Len(Tail(q)) + m] = v
      BY <3>1, <3>2, <1>1, <1>3, <1>8
    <3> QED
      BY <3>3
  <2>2. CASE v \in Visited /\ v = u
    BY <2>2, <1>5, <1>13
  <2>3. CASE v \in Visited /\ v # u
    <3>1. ASSUME NEW m \in 1..Len(q), q[m] = v PROVE FALSE
      <4>1. m # 1 /\ m - 1 \in 1..Len(Tail(q)) /\ (m - 1) + 1 = m
        BY <3>1, <2>3, <1>3
      <4>2. m - 1 \in 1..Len(q') /\ q'[m - 1] = q[m]
        BY <4>1, <1>1, <1>3, <1>7, <1>8
      <4> QED
        BY <4>2, <3>1
    <3>2. ~Queued(v)
      BY <3>1 DEF Queued
    <3> QED
      BY <2>3, <3>2, <1>1, <1>13, <1>14 DEF Expanded, getAdjExceptSink
  <2> QED
    BY <2>1, <2>2, <2>3, <1>13
<1>21. \A v \in taken : v \notin {A[m] : m \in 1..Len(A)}
  <2> SUFFICES ASSUME NEW m \in 1..Len(A), A[m] \in taken PROVE FALSE
    OBVIOUS
  <2>1. m # Len(A)
    <3>1. dhop[Centre] = 0
      BY <1>1, <1>2 DEF BallsTaken
    <3> QED
      BY <3>1, <1>2, <1>5, NoneNotNode DEF Visited
  <2>2. A[m] \in Reach(adj, Centre)[alpha]
    <3>1. Reach(adj, Centre)[d] \subseteq Reach(adj, Centre)[alpha]
      BY <1>2, <1>4, ReachMono
    <3> QED
      BY <3>1, <1>11
  <2> QED
    BY <2>1, <2>2, <1>1, <1>2 DEF Apart
<1>22. BallsTaken'
  <2> SUFFICES ASSUME NEW m \in 1..Len(A)
               PROVE  /\ A[m] \in isRemoved'
                      /\ m = Len(A) => dhop'[A[m]] = 0
                      /\ m < Len(A) => Reach(adj, A[m])[alpha] \subseteq isRemoved'
    BY <1>6 DEF BallsTaken
  <2>1. A[m] \in Node /\ A[m] \notin taken
    BY <1>2, <1>21
  <2> QED
    BY <2>1, <1>1, <1>6, <1>12 DEF BallsTaken
<1>23. HopsRight'
  <2> SUFFICES ASSUME NEW v \in Node, cent'[v] # None
               PROVE  /\ cent'[v] \in Centres /\ hops'[v] > 0
                      /\ v \in Reach(adj, cent'[v])[hops'[v]]
                      /\ v \notin Reach(adj, cent'[v])[hops'[v] - 1]
    BY <1>6, <1>13 DEF HopsRight
  <2>1. CASE v \in taken
    <3>1. d - 1 = k /\ k \in 0..k /\ d > 0
      BY <1>10
    <3>2. v \notin Reach(adj, Centre)[k]
      BY <2>1, <3>1, <1>5, <1>9 DEF k
    <3>3. Centre \in Centres
      BY <1>2 DEF Centres
    <3> QED
      BY <2>1, <3>1, <3>2, <3>3, <1>11, <1>12
  <2>2. CASE v \notin taken
    BY <2>2, <1>1, <1>12 DEF HopsRight
  <2> QED
    BY <2>1, <2>2
<1>24. Apart'
  <2>1. \A m \in 1..Len(A) : next'[A[m]] = None
    BY <1>1, <1>2, <1>12, <1>21 DEF Apart
  <2> QED
    BY <2>1, <1>1, <1>6 DEF Apart
<1>25. Headed'
  <2>1. u # None
    BY <1>2, <1>4, NoneNotNode
  <2> QED
    BY <2>1, <1>1, <1>4, <1>12 DEF Headed
<1> QED
  BY <1>1, <1>6, <1>15, <1>19, <1>20, <1>22, <1>23, <1>24, <1>25 DEF SearchInv

\* Every step keeps the search right.
LEMMA SearchStep == IInv /\ SearchInv /\ [Next]_vars => SearchInv'
<1> SUFFICES ASSUME IInv, SearchInv, [Next]_vars PROVE SearchInv'
  OBVIOUS
<1>1. ASSUME NEW i \in Sensor, PopRemoved(i) PROVE SearchInv'
  BY <1>1, SearchSame DEF PopRemoved, params
<1>2. CASE Save \/ UNCHANGED vars
  BY <1>2, SearchSame DEF Save, vars
<1> QED
  BY <1>1, <1>2, SearchPopCentre, SearchSearch, SearchRetry DEF Next, Finished

\* The search is right through every run.
THEOREM SearchInductive == Spec => []SearchInv
<1> QED
  BY SearchInit, SearchStep, Inductive, PTL DEF Spec

\* Hop counts are distances, on a shortest path and to the head.
THEOREM HopCountsRight == Spec => []HopsAreDistances
<1>1. SearchInv => HopsAreDistances
  BY WithinIsReach DEF SearchInv, HopsRight, HopsAreDistances
<1> QED
  BY <1>1, SearchInductive, PTL

\* No centre is within alpha hops of another, and none is taken over.
THEOREM CentresKeepApart == Spec => []CentresApart
<1>1. SearchInv => CentresApart
  BY WithinIsReach DEF SearchInv, Apart, CentresApart
<1> QED
  BY <1>1, SearchInductive, PTL

\* A finished ball has taken everything in range of its centre.
THEOREM BallsComplete == Spec => []BallComplete
<1>1. IInv /\ SearchInv => BallComplete
  <2> SUFFICES ASSUME IInv, SearchInv, q = <<>>, A # <<>>,
                      NEW v \in Reach(adj, Centre)[alpha], v # Centre
               PROVE  cent[v] = Centre
    BY WithinIsReach DEF BallComplete
  <2>1. alpha \in Nat /\ Len(A) > 0 /\ Len(q) = 0 /\ alpha \in 0..alpha
    BY GraphOK DEF IInv
  <2>2. Reach(adj, Centre)[alpha] \subseteq Visited
    <3>1. \A n \in 1..Len(q) : dhop[q[n]] >= alpha
      BY <2>1
    <3>2. \A j \in 0..alpha : Reach(adj, Centre)[j] \subseteq Visited
      BY <3>1, <2>1, Complete
    <3> QED
      BY <3>2, <2>1
  <2> QED
    BY <2>2 DEF SearchInv, CountedRight
<1> QED
  BY <1>1, Inductive, SearchInductive, PTL

-----------------------------------------------------------------------------
(* Where routes end.                                                       *)

\* Next hops followed from v: what Follow counts, for any choice of them.
Chase(nx, v) ==
    LET F[k \in Nat] ==
            IF k = 0 THEN v
            ELSE IF nx[F[k-1]] = None THEN F[k-1] ELSE nx[F[k-1]]
    IN  F

\* Follow follows the next hops there are.
LEMMA FollowIsChase == \A v : Follow(v) = Chase(next, v)[Cardinality(Node)]
BY DEF Follow, Chase

\* This recursive definition is one, too.
LEMMA ChaseUnfolds ==
    ASSUME NEW nx \in [Node -> Node \cup {None}], NEW v \in Node
    PROVE  /\ Chase(nx, v) \in [Nat -> Node] /\ Chase(nx, v)[0] = v
           /\ \A k \in Nat : Chase(nx, v)[k+1] =
                IF nx[Chase(nx, v)[k]] = None THEN Chase(nx, v)[k]
                                              ELSE nx[Chase(nx, v)[k]]
<1> DEFINE hop == [w \in Node |-> IF nx[w] = None THEN w ELSE nx[w]]
           Rec(F) == [k \in Nat |-> IF k = 0 THEN v
                        ELSE IF nx[F[k-1]] = None THEN F[k-1] ELSE nx[F[k-1]]]
<1>1. hop \in [Node -> Node]
  OBVIOUS
<1>2. PICK F \in [Nat -> Node] : F[0] = v /\ \A k \in Nat : F[k+1] = hop[F[k]]
  <2> DEFINE D == Node
  <2>1. v \in D
    OBVIOUS
  <2>2. hop \in [D -> D]
    BY <1>1
  <2> HIDE DEF hop, D, Rec
  <2>3. HasIterates(D, v, hop)
    BY <2>1, <2>2, Iterates
  <2> QED
    BY <2>3 DEF D, HasIterates
<1>3. F = Rec(F)
  <2>1. \A k \in Nat : F[k] = Rec(F)[k]
    <3> SUFFICES ASSUME NEW k \in Nat, k # 0
                 PROVE  F[k] = IF nx[F[k-1]] = None THEN F[k-1] ELSE nx[F[k-1]]
      BY <1>2
    <3>1. k - 1 \in Nat /\ (k - 1) + 1 = k /\ F[k-1] \in Node
      BY <1>2
    <3>2. F[k] = hop[F[k-1]]
      BY <3>1, <1>2
    <3> QED
      BY <3>1, <3>2
  <2> QED
    BY <2>1
<1> DEFINE C == Chase(nx, v)
<1>4. C = Rec(C)
  <2>1. C = CHOOSE G : G = Rec(G)
    BY DEF Chase
  <2> HIDE DEF Rec, C
  <2> QED
    BY <2>1, <1>3
<1>5. C = [k \in Nat |-> C[k]] /\ C[0] = v
  BY <1>4
<1>6. \A k \in Nat : C[k+1] = IF nx[C[k]] = None THEN C[k] ELSE nx[C[k]]
  BY <1>4
<1> HIDE DEF C
<1>7. \A k \in Nat : C[k] \in Node
  <2> DEFINE S == {k \in Nat : C[k] \in Node}
  <2>1. 0 \in S
    BY <1>5
  <2>2. \A k \in Nat : k \in S => k + 1 \in S
    BY <1>6
  <2> HIDE DEF S
  <2>3. Nat \subseteq S
    BY <2>1, <2>2, Induct
  <2> QED
    BY <2>3 DEF S
<1> QED
  BY <1>5, <1>6, <1>7 DEF C

\* The order in which next hops lead inward.
Inward(v, w) ==
    \/ ball[v] < ball[w]
    \/ ball[v] = ball[w] /\ hops[w] < hops[v]

\* Every hop leads further inward, so a route passes no node twice and has
\* come to its end after as many hops as there are nodes.
LEMMA RouteEnds ==
    ASSUME IInv, NEW v \in Node
    PROVE  Follow(v) \in Node /\ next[Follow(v)] = None
<1> DEFINE C == Chase(next, v)
           N == Cardinality(Node)
<1>1. /\ TypeOK /\ next \in [Node -> Node \cup {None}]
      /\ \A w \in Node : ball[w] \in Nat /\ hops[w] \in Nat
      /\ N \in Nat /\ Follow(v) = C[N]
  <2>1. IsFiniteSet(Node) /\ N \in Nat
    BY AlphaAssumption, FS_CardinalityType
  <2>2. TypeOK
    BY DEF IInv
  <2> QED
    BY <2>1, <2>2, FollowIsChase DEF TypeOK
<1>2. /\ C \in [Nat -> Node]
      /\ \A k \in Nat : C[k+1] = IF next[C[k]] = None THEN C[k] ELSE next[C[k]]
  BY <1>1, ChaseUnfolds
<1> HIDE DEF C, N
<1> SUFFICES ASSUME next[C[N]] # None PROVE FALSE
  BY <1>1, <1>2
\* A route that has not ended had not ended before.
<1>3. \A k \in 0..N : next[C[k]] # None
  <2> DEFINE S == {n \in Nat : n <= N => next[C[N - n]] # None}
  <2>1. 0 \in S
    BY <1>1
  <2>2. ASSUME NEW n \in Nat, n \in S PROVE n + 1 \in S
    <3> SUFFICES ASSUME n + 1 <= N PROVE next[C[N - (n + 1)]] # None
      OBVIOUS
    <3>1. N - (n + 1) \in Nat /\ (N - (n + 1)) + 1 = N - n
      BY <1>1
    <3>2. next[C[N - n]] # None
      BY <2>2, <1>1
    <3> QED
      BY <3>1, <3>2, <1>2
  <2> HIDE DEF S
  <2>3. Nat \subseteq S
    BY <2>1, <2>2, Induct
  <2> SUFFICES ASSUME NEW k \in 0..N PROVE next[C[k]] # None
    OBVIOUS
  <2>4. N - k \in Nat /\ N - k <= N /\ N - (N - k) = k
    BY <1>1
  <2> QED
    BY <2>3, <2>4 DEF S
<1>4. \A k \in Nat : k < N => Inward(C[k], C[k+1])
  <2>1. \A w \in Node : next[w] # None => Inward(w, next[w])
    BY DEF IInv, HopsLeadInward, Inward
  <2> SUFFICES ASSUME NEW k \in Nat, k < N PROVE Inward(C[k], C[k+1])
    OBVIOUS
  <2>2. k \in 0..N
    BY <1>1
  <2>3. C[k] \in Node /\ next[C[k]] # None /\ C[k+1] = next[C[k]]
    BY <2>2, <1>2, <1>3
  <2> QED
    BY <2>1, <2>3
<1>5. \A i, j \in 0..N : i < j => Inward(C[i], C[j])
  <2> SUFFICES ASSUME NEW i \in 0..N
               PROVE  \A j \in 0..N : i < j => Inward(C[i], C[j])
    OBVIOUS
  <2> DEFINE S == {n \in Nat : i + 1 + n <= N => Inward(C[i], C[i + 1 + n])}
  <2>1. 0 \in S
    BY <1>1, <1>4
  <2>2. ASSUME NEW n \in Nat, n \in S PROVE n + 1 \in S
    <3> DEFINE j == i + 1 + n
    <3> SUFFICES ASSUME j + 1 <= N PROVE Inward(C[i], C[j + 1])
      OBVIOUS
    <3>1. j \in Nat /\ j + 1 \in Nat /\ i \in Nat /\ j < N
      BY <1>1
    <3>2. Inward(C[i], C[j]) /\ Inward(C[j], C[j + 1])
      BY <2>2, <3>1, <1>1, <1>4
    <3>3. C[i] \in Node /\ C[j] \in Node /\ C[j + 1] \in Node
      BY <3>1, <1>2
    <3> HIDE DEF j
    <3> QED
      BY <3>2, <3>3, <1>1 DEF Inward
  <2> HIDE DEF S
  <2>3. Nat \subseteq S
    BY <2>1, <2>2, Induct
  <2> SUFFICES ASSUME NEW j \in 0..N, i < j PROVE Inward(C[i], C[j])
    OBVIOUS
  <2>4. j - i - 1 \in Nat /\ i + 1 + (j - i - 1) = j
    BY <1>1
  <2> QED
    BY <2>3, <2>4, <1>1 DEF S
<1>6. \A i, j \in 0..N : i # j => C[i] # C[j]
  <2>1. \A w \in Node : ~Inward(w, w)
    BY <1>1 DEF Inward
  <2>2. \A i \in 0..N : i \in Nat /\ C[i] \in Node
    BY <1>1, <1>2
  <2>3. \A i, j \in 0..N : i # j => i < j \/ j < i
    BY <1>1
  <2> QED
    BY <2>1, <2>2, <2>3, <1>5
<1>7. \E i, j \in 0..N : i # j /\ C[i] = C[j]
  <2> DEFINE f == [i \in 0..N |-> C[i]]
  <2>1. f \in [0..N -> Node]
    BY <1>1, <1>2
  <2>2. IsFiniteSet(0..N) /\ Cardinality(0..N) = N + 1
    BY <1>1, FS_Interval
  <2>3. IsFiniteSet(Node) /\ Cardinality(Node) < Cardinality(0..N)
    BY <1>1, <2>2, AlphaAssumption DEF N
  <2> HIDE DEF f
  <2>4. \E i, j \in 0..N : i # j /\ f[i] = f[j]
    BY <2>1, <2>2, <2>3, FS_PigeonHole
  <2> QED
    BY <2>4 DEF f
<1> QED
  BY <1>6, <1>7

\* Next hops never lead to the sink.
LEMMA RouteStaysSensor ==
    ASSUME TypeOK, Headed, NEW v \in Sensor
    PROVE  Follow(v) \in Sensor
<1> DEFINE C == Chase(next, v)
           N == Cardinality(Node)
           S == {k \in Nat : C[k] \in Sensor}
<1>1. N \in Nat /\ Follow(v) = C[N] /\ Sensor \subseteq Node
  BY AlphaAssumption, FS_CardinalityType, FollowIsChase DEF Sensor
<1>2. /\ C[0] = v
      /\ \A k \in Nat : C[k+1] = IF next[C[k]] = None THEN C[k] ELSE next[C[k]]
  BY <1>1, ChaseUnfolds DEF TypeOK
<1> HIDE DEF C, N
<1>3. 0 \in S /\ \A k \in Nat : k \in S => k + 1 \in S
  BY <1>1, <1>2 DEF Headed
<1> HIDE DEF S
<1>4. N \in S
  BY <1>1, <1>3, Induct
<1> QED
  BY <1>1, <1>4 DEF S

\* In a saved clustering every sensor's next hops end at a centre.
THEOREM RoutesEndAtCentres == Spec => []RoutesReachACentre
<1>1. IInv /\ SearchInv => RoutesReachACentre
  <2> SUFFICES ASSUME IInv, SearchInv, saved, NEW v \in Sensor
               PROVE  Follow(v) \in Centres
    BY DEF RoutesReachACentre
  <2>1. Follow(v) \in Sensor /\ next[Follow(v)] = None
    <3>1. v \in Node /\ TypeOK /\ Headed
      BY DEF IInv, SearchInv, Sensor
    <3> QED
      BY <3>1, RouteEnds, RouteStaysSensor
  <2>2. Follow(v) \in isRemoved
    BY <2>1 DEF IInv, NobodyLost, Done
  <2> QED
    BY <2>1, <2>2 DEF IInv, RemovedAccounted
<1> QED
  BY <1>1, Inductive, SearchInductive, PTL

-----------------------------------------------------------------------------
(* Why the clustering ends.                                                *)

\* A step saves the clustering, retries with a larger alpha, takes a sensor off
\* the queue, visits new nodes or shortens the search's queue, and undoes none
\* of the former for the latter.
Ahead ==
    \/ ~saved /\ saved'
    \/ saved' = saved /\ alpha < alpha'
    \/ UNCHANGED <<saved, alpha>> /\ p_queue' \subseteq p_queue /\ p_queue' # p_queue
    \/ /\ UNCHANGED <<saved, alpha, p_queue>>
       /\ Visited \subseteq Visited'
       /\ Visited' # Visited \/ Len(q') < Len(q)

\* A round of the search visits new nodes or shortens the queue.
LEMMA SearchAhead ==
    ASSUME IInv, SearchInv, Search
    PROVE  Ahead
<1> DEFINE u == Head(q)
           d == dhop[u] + 1
<1>1. /\ TypeOK /\ q # <<>> /\ q \in Seq(Searching) /\ u \in Searching
      /\ adj \in [Node -> SUBSET Node] /\ alpha \in Nat
  BY GraphOK DEF IInv, Search
<1>2. u \in Node /\ dhop[u] \in Nat /\ d \in Nat
  BY <1>1, NoneNotNode DEF Searching, Sensor, TypeOK
<1>3. Unvisited(u) \subseteq Node /\ \A v \in Unvisited(u) : v \notin Visited
  BY <1>1, <1>2 DEF Unvisited, getAdjExceptSink, Visited
<1>4. /\ UNCHANGED <<saved, alpha, p_queue>>
      /\ dhop' = [v \in Node |-> IF v \in Unvisited(u) THEN d ELSE dhop[v]]
      /\ \E s \in Lists(IF InRange(d) THEN Unvisited(u) ELSE {}) :
            q' = Tail(q) \o (IF d < alpha THEN s ELSE <<>>)
  BY DEF Search, params
<1>5. Visited' = Visited \cup Unvisited(u)
  <2> HIDE DEF u, d
  <2> QED
    BY <1>2, <1>3, <1>4, NoneNotNode DEF Visited
<1>6. CASE Unvisited(u) # {}
  BY <1>3, <1>4, <1>5, <1>6 DEF Ahead
<1>7. CASE Unvisited(u) = {}
  <2>1. PICK s \in Lists({}) : q' = Tail(q) \o (IF d < alpha THEN s ELSE <<>>)
    BY <1>4, <1>7
  <2>2. s = <<>>
    BY FS_EmptySet DEF Lists
  <2>3. Len(q') < Len(q)
    BY <1>1, <2>1, <2>2
  <2> QED
    BY <1>4, <1>5, <1>7, <2>3 DEF Ahead
<1> QED
  BY <1>6, <1>7

\* Every step that is one gets ahead.  alpha is bounded and Node is finite, so
\* there are finitely many such steps: the variant of the loops, on any graph.
THEOREM EveryStepAhead == Spec => [][Ahead]_vars
<1>1. IInv /\ SearchInv /\ [Next]_vars => [Ahead]_vars
  <2> SUFFICES ASSUME IInv, SearchInv, Next PROVE [Ahead]_vars
    OBVIOUS
  <2>1. ASSUME NEW i \in Sensor, PopCentre(i) \/ PopRemoved(i) PROVE Ahead
    BY <2>1 DEF PopCentre, PopRemoved, params, Ahead
  <2>2. CASE Retry
    BY <2>2 DEF Retry, Ahead, IInv, TypeOK
  <2>3. CASE Save
    BY <2>3 DEF Save, Ahead
  <2>4. CASE Finished
    BY <2>4 DEF Finished
  <2> QED
    BY <2>1, <2>2, <2>3, <2>4, SearchAhead DEF Next
<1> QED
  BY <1>1, Inductive, SearchInductive, PTL DEF Spec
=============================================================================
