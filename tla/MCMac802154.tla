---------------------------- MODULE MCMac802154 ----------------------------
(* A coordinator, 0, two devices, 1 and 2, and an address, 3, where nobody  *)
(* answers, in six settings.                                                *)
EXTENDS Mac802154

\* Without slots, both ways: every packet contends in the CAP.
Contention ==
    [enableSlottedCSMA |-> FALSE, requestGTS |-> 0, gtsOnly |-> FALSE, beaconSlots |-> 3,
     macMaxFrameRetries |-> 2, macMaxCSMABackoffs |-> 1, maxLostBeacons |-> 2,
     nodes |-> {0, 1}, traffic |-> {<<0, 1>>, <<1, 0>>}, mortal |-> {},
     maxPackets |-> 1, maxBackoff |-> 1, minExchange |-> 0, maxExchange |-> 1]

\* Several packets, to everyone and to nobody, while the coordinator may die.
Unanswered ==
    [Contention EXCEPT !.enableSlottedCSMA = TRUE, !.traffic = {<<1, BROADCAST>>, <<1, 3>>},
                       !.mortal = {0}, !.maxPackets = 2]

\* A backoff that outlasts the CAP, the slot of two ticks or half the superframe:
\* the carrier may be sensed for a packet that has long been served.
StaleSensing ==
    [Contention EXCEPT !.requestGTS = 1, !.macMaxFrameRetries = 1, !.macMaxCSMABackoffs = 0,
                       !.maxLostBeacons = 1, !.maxBackoff = 3, !.maxExchange = 0]

\* More slots asked for than there are: requests are denied, data never sent.
Denied ==
    [Contention EXCEPT !.requestGTS = 3, !.traffic = {<<1, 0>>}, !.maxPackets = 2,
                       !.maxBackoff = 3, !.maxExchange = 3]

\* Data in the slot only, which an exchange may overrun; an inactive period
\* follows the superframe.
InSlotsOnly ==
    [Contention EXCEPT !.requestGTS = 1, !.gtsOnly = TRUE, !.beaconSlots = 4,
                       !.traffic = {<<1, 0>>}, !.maxPackets = 2, !.maxExchange = 3]

\* Two devices, each with a slot, in a PAN left at the first beacon missed.  An
\* exchange takes a slot, two ticks, or longer.
TwoSlots ==
    [Contention EXCEPT !.requestGTS = 1, !.nodes = {0, 1, 2}, !.traffic = {<<2, 1>>},
                       !.macMaxFrameRetries = 1, !.macMaxCSMABackoffs = 0,
                       !.maxLostBeacons = 1, !.maxBackoff = 0,
                       !.minExchange = 2, !.maxExchange = 3]

MCDevice == {1, 2}
MCPars == {Contention, Unanswered, StaleSensing, Denied, InSlotsOnly, TwoSlots}
=============================================================================
