---------------------------- MODULE PacketQueue ----------------------------
(***************************************************************************)
(* What a MAC without acknowledgements promises the network layer: packets *)
(* queue up to a limit, the one at the front is attempted a fixed number   *)
(* of times, then it is discarded and the next one starts afresh.          *)
(***************************************************************************)
EXTENDS Naturals

CONSTANTS Size, Tries

VARIABLES queued,   \* packets waiting
          tried     \* attempts made for the front one

vars == <<queued, tried>>

Init == queued = 0 /\ tried = 0

\* A packet is accepted; an idle MAC may make its first attempt at once.
Accept ==
    /\ queued < Size
    /\ queued' = queued + 1
    /\ tried' \in IF queued = 0 THEN {0, 1} ELSE {tried}

Attempt ==
    /\ queued > 0 /\ tried < Tries
    /\ tried' = tried + 1 /\ UNCHANGED queued

\* The front packet is let go with all its attempts made (the last of them
\* possibly in this very step); the next one may be attempted at once.
Discard ==
    /\ queued > 0 /\ tried \in {Tries - 1, Tries}
    /\ queued' = queued - 1
    /\ tried' \in IF queued > 1 THEN {0, 1} ELSE {0}

Next == Accept \/ Attempt \/ Discard

Spec == Init /\ [][Next]_vars

\* The packet at the front is attempted and let go in the end.
FairSpec == Spec /\ WF_vars(Attempt \/ Discard)
=============================================================================
