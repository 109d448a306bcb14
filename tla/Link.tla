-------------------------------- MODULE Link --------------------------------
(***************************************************************************)
(* What a MAC with acknowledgements promises its network layers: a packet  *)
(* reaches only those it was sent to, at most once and in the order of the *)
(* sender's packets; it may be lost, but not one that was acknowledged.    *)
(***************************************************************************)
EXTENDS Naturals, Sequences, SequencesExt

CONSTANTS Node, Destination, BROADCAST

VARIABLES sent, delivered, acked

vars == <<sent, delivered, acked>>

Init ==
    /\ sent = [n \in Node |-> <<>>]         \* destinations of n's packets
    /\ delivered = [n \in Node |-> <<>>]    \* packets let through, <<source, number>>
    /\ acked = [n \in Node |-> {}]          \* numbers of n's acknowledged packets

Submit(n) ==
    /\ \E d \in Destination : sent' = [sent EXCEPT ![n] = Append(@, d)]
    /\ UNCHANGED <<delivered, acked>>

Deliver(m, n) ==
    /\ \E k \in DOMAIN sent[m] :
         /\ sent[m][k] \in {n, BROADCAST}
         /\ \A j \in DOMAIN sent[m] : <<m, j>> \in ToSet(delivered[n]) => j < k
         /\ delivered' = [delivered EXCEPT ![n] = Append(@, <<m, k>>)]
    /\ UNCHANGED <<sent, acked>>

Acknowledge(n) ==
    /\ \E k \in DOMAIN sent[n] :
         /\ sent[n][k] \in Node /\ <<n, k>> \in ToSet(delivered[sent[n][k]])
         /\ acked' = [acked EXCEPT ![n] = @ \cup {k}]
    /\ UNCHANGED <<sent, delivered>>

Next == \E n \in Node : Submit(n) \/ Acknowledge(n) \/ \E m \in Node : Deliver(m, n)

Spec == Init /\ [][Next]_vars
=============================================================================
