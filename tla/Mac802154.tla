------------------------------ MODULE Mac802154 ------------------------------
(***************************************************************************)
(* A PAN of 802.15.4 nodes: the coordinator's beacons, association,        *)
(* CSMA-CA in the contention access period (CAP), granted time slots (GTS) *)
(* and acknowledged frames; Basic802154 with the decisions of              *)
(* StaticGTS802154 (with requestGTS = 0 and ~gtsOnly those of              *)
(* Basic802154 itself), VirtualMac's buffer, numbering and duplicate       *)
(* filter, and the TimerService slots of each node.                        *)
(*                                                                         *)
(* Time is discrete: a superframe slot has two ticks, a timer counts them  *)
(* down.  Guard and wake-up times, shorter than a tick, put a timer on the *)
(* tick before; what is due in the same tick comes in any order.           *)
(***************************************************************************)
EXTENDS Integers, Sequences, SequencesExt, FiniteSets

CONSTANTS
    Hub, Device,            \* the PAN coordinator, and the other nodes
    Stranger,               \* an address outside the PAN
    Pars,                   \* the settings considered, see Parameters
    macBufferSize, numSuperframeSlots,
    minCAPLength            \* in slots

Node == Device \cup {Hub}
BROADCAST == -1
Address == Node \cup {Stranger, BROADCAST}
MaxGTS == 7

\* Parameters of the .ini (beaconSlots: slots from beacon to beacon), how many
\* ticks a random backoff may take at most, and an exchange (sending, and waiting
\* for the answer) at least and at most, who is there, who sends to whom, who may
\* die, and a bound on the packets of a source.
Parameters ==
    [enableSlottedCSMA : BOOLEAN, requestGTS : Nat, gtsOnly : BOOLEAN, beaconSlots : Nat,
     macMaxFrameRetries : Nat \ {0}, macMaxCSMABackoffs : Nat, maxLostBeacons : Nat \ {0},
     maxBackoff : Nat, minExchange : Nat, maxExchange : Nat,
     nodes : SUBSET Node, traffic : SUBSET (Node \X Address), mortal : SUBSET Node,
     maxPackets : Nat]

ASSUME MacAssumption ==
    /\ Node \subseteq Nat /\ Hub \notin Device /\ Stranger \in Nat \ Node
    /\ macBufferSize \in Nat \ {0} /\ numSuperframeSlots \in Nat /\ minCAPLength \in 1..numSuperframeSlots
    /\ \A p \in Pars : p \in Parameters /\ Hub \in p.nodes /\ p.beaconSlots >= numSuperframeSlots
                     /\ p.minExchange <= p.maxExchange

MacState == {"SETUP", "SLEEP", "CAP", "GTS"}
Timer == {"PERFORM_CCA", "ATTEMPT_TX", "BEACON_TIMEOUT", "ACK_TIMEOUT", "GTS_START",
          "SLEEP_START", "FRAME_START", "BACK_TO_SETUP"}

VARIABLES
    par,        \* the setting, of all nodes
    mac,        \* per node, the fields of its Basic802154 module
    hub,        \* the coordinator's own: associatedDevices, GTSlist (of the owners)
                \* and how many of its entries the last beacon announced
    sent,       \* per node, the destinations of the packets handed down
    pktHistory, \* per node and source, the last sequence number let through
    delivered,  \* history: packets passed up, per node, as <<source, number>>
    acked       \* history: numbers of the packets cleared by an ACK, per node

vars == <<par, mac, hub, sent, pktHistory, delivered, acked>>

Off == -1
NoFrame == [type |-> "none", dst |-> BROADCAST, sn |-> 0, slots |-> 0]
Frame(type, dst, sn, slots) == [type |-> type, dst |-> dst, sn |-> sn, slots |-> slots]

Startup(n) ==
    [macState |-> "SETUP", associated |-> n = Hub,
     timers |-> [t \in Timer |-> IF n = Hub /\ t = "FRAME_START" THEN 0 ELSE Off],
     currentPacket |-> NoFrame, retries |-> 0, NB |-> 0, CW |-> 0,
     TXBuffer |-> <<>>, assignedGTS |-> 0, lostBeacons |-> 0,
     capLeft |-> 0, gtsLeft |-> 0,  \* ticks left of the CAP and to the GTS's end
     adjacent |-> FALSE,            \* CAPend = GTSstart
     awake |-> TRUE, disabled |-> n \notin par.nodes,
     frame |-> NoFrame, to |-> {},  \* what the radio sends, and who is still to get it
     tried |-> 0,                   \* history: attempts for the current packet
     guest |-> TRUE,                \* history: not associated at the last beacon heard
     carried |-> FALSE]             \* history: waiting for an answer at that beacon

Init ==
    /\ par \in Pars
    /\ mac = [n \in Node |-> Startup(n)]
    /\ hub = [associatedDevices |-> {}, GTSlist |-> <<>>, announced |-> 0]
    /\ sent = [n \in Node |-> <<>>]
    /\ pktHistory = [n \in Node |-> [m \in Node |-> 0]]
    /\ delivered = [n \in Node |-> <<>>]
    /\ acked = [n \in Node |-> {}]

-----------------------------------------------------------------------------
\* The superframe, in ticks from its beacon.
Interval == 2 * par.beaconSlots

\* Entry i of the list starts after what remains of the CAP.
gtsStart(i) == 2 * (numSuperframeSlots - i * par.requestGTS)
gtsEnd(i) == gtsStart(i) + 2 * par.requestGTS
CAPend(k) == gtsStart(k)

\* Helper functions, as what they make of the fields s of node n.  b is the
\* random backoff and d how many ticks further a transmission with its answer
\* lasts, wherever the function gets to need them.  Neither is bounded by what
\* is left of the CAP or the slot, or by their lengths.
Backoff == 0..par.maxBackoff
Exchange == {d \in 0..par.maxExchange : par.minExchange <= d}

Set(s, t, k) == [s EXCEPT !.timers[t] = k]
Stop(s, t) == Set(s, t, Off)
Running(s, t) == s.timers[t] # Off

Send(n, s, f) ==
    [s EXCEPT !.frame = f, !.awake = TRUE,
              !.to = (IF f.dst = BROADCAST THEN Node ELSE {f.dst} \cap Node) \ {n}]
Reply(n, s, f) == Set(Send(n, s, f), "ATTEMPT_TX", 0)

performCSMACA(s, b) == Set(s, "PERFORM_CCA", b)

\* Mutant of Fits: only the sending has to fit, not the answer.
FitsWithoutAnswer(s, d) ==
    /\ s.macState = "CAP" => s.capLeft > 0 \/ s.adjacent
    /\ s.macState = "GTS" => s.gtsLeft > 0

\* Sending now ends within the CAP (or the GTS that follows), or the GTS.
Fits(s, d) ==
    /\ s.macState = "CAP" => d < s.capLeft \/ s.adjacent
    /\ s.macState = "GTS" => d < s.gtsLeft

transmitCurrentPacket(n, s, d) ==
    IF s.currentPacket = NoFrame \/ ~Fits(s, d) THEN s
    ELSE Set([Send(n, s, s.currentPacket) EXCEPT !.retries = @ - 1, !.tried = @ + 1],
             IF s.currentPacket.dst = BROADCAST THEN "ATTEMPT_TX" ELSE "ACK_TIMEOUT", d)

GtsOnly(p) == p.type = "DATA" /\ par.gtsOnly
FirstCW == IF par.enableSlottedCSMA THEN 2 ELSE 1

\* attemptTransmission for a packet with retries left, or none.
Attempt(n, s, b, d) ==
    IF s.currentPacket = NoFrame THEN s
    ELSE IF s.macState = "GTS" THEN transmitCurrentPacket(n, s, d)
    ELSE IF s.macState = "CAP" /\ ~GtsOnly(s.currentPacket)
    THEN performCSMACA([s EXCEPT !.NB = 0, !.CW = FirstCW], b)
    ELSE s

Dormant(s) == s.macState \in {"SLEEP", "SETUP"}

\* Mutant of transmitPacket: the new packet gets what is left of the retries.
transmitPacketKeepsRetries(n, s, p, b, d) ==
    LET t == [s EXCEPT !.currentPacket = p, !.tried = 0,
                       !.retries = IF @ > 0 THEN @ ELSE par.macMaxFrameRetries]
    IN  IF Running(t, "ATTEMPT_TX") \/ Running(t, "ACK_TIMEOUT") \/ Dormant(t) THEN t
        ELSE Attempt(n, t, b, d)

transmitPacket(n, s, p, b, d) ==
    LET t == [s EXCEPT !.currentPacket = p, !.tried = 0,
                       !.retries = IF p.dst = BROADCAST THEN 1 ELSE par.macMaxFrameRetries]
    IN  IF Running(t, "ATTEMPT_TX") \/ Running(t, "ACK_TIMEOUT") \/ Dormant(t) THEN t
        ELSE Attempt(n, t, b, d)

\* Mutant of transmissionOutcome: a granted request is not followed by data.
transmissionOutcomeOfRequest(n, s, b, d) ==
    IF ~s.associated THEN s
    ELSE IF s.assignedGTS = 0 /\ par.requestGTS > 0
    THEN transmitPacket(n, s, Frame("GTS_REQUEST", Hub, 0, 0), b, d)
    ELSE s

\* The next packet, which for a node that wants a slot and has none is a request.
transmissionOutcome(n, s, b, d) ==
    IF ~s.associated THEN s
    ELSE IF s.assignedGTS = 0 /\ par.requestGTS > 0
    THEN transmitPacket(n, s, Frame("GTS_REQUEST", Hub, 0, 0), b, d)
    ELSE IF s.TXBuffer = <<>> THEN s
    ELSE transmitPacket(n, [s EXCEPT !.TXBuffer = Tail(@)], Head(s.TXBuffer), b, d)

clearCurrentPacket(n, s, b, d) ==
    IF s.currentPacket = NoFrame THEN s
    ELSE transmissionOutcome(n, [s EXCEPT !.currentPacket = NoFrame], b, d)

\* Mutant of attemptTransmission: the retries left are not looked at.
attemptTransmissionAgain(n, s, b, d) ==
    LET t == Stop(s, "ATTEMPT_TX") IN IF Dormant(t) THEN t ELSE Attempt(n, t, b, d)

attemptTransmission(n, s, b, d) ==
    LET t == Stop(s, "ATTEMPT_TX")
    IN  IF Dormant(t) THEN t
        ELSE IF t.currentPacket # NoFrame /\ t.retries = 0
        THEN clearCurrentPacket(n, t, b, d)
        ELSE Attempt(n, t, b, d)

-----------------------------------------------------------------------------
Becomes(n, s) == mac' = [mac EXCEPT ![n] = s]
Transmitting(n) == mac[n].to # {}

\* Timer t of n, whose radio is idle, fires: its slot is emptied first.
Due(n, t) == mac[n].timers[t] = 0
Fires(n, t) == Due(n, t) /\ ~Transmitting(n)
After(n, t) == Stop(mac[n], t)

\* Entries the beacon carries; a list that leaves no CAP is dropped.
prepareBeacon_hub ==
    IF CAPend(Len(hub.GTSlist)) > 0 THEN Len(hub.GTSlist) ELSE 0

HubFrameStart ==
    /\ Fires(Hub, "FRAME_START")
    /\ LET k == prepareBeacon_hub
       IN  /\ Becomes(Hub,
                Set(Reply(Hub, [mac[Hub] EXCEPT !.macState = "CAP", !.capLeft = CAPend(k)],
                          Frame("BEACON", BROADCAST, 0, 0)),
                    "FRAME_START", Interval))
           /\ hub' = [hub EXCEPT !.announced = k,
                                 !.GTSlist = IF k = 0 THEN <<>> ELSE @]
    /\ UNCHANGED <<par, sent, pktHistory, delivered, acked>>

\* A device expects the beacon.
FrameStart(n) ==
    /\ Due(n, "FRAME_START") /\ n # Hub
    /\ Becomes(n, Set([After(n, "FRAME_START") EXCEPT !.awake = TRUE], "BEACON_TIMEOUT", 2))
    /\ UNCHANGED <<par, hub, sent, pktHistory, delivered, acked>>

GtsStart(n) ==
    /\ Due(n, "GTS_START")
    /\ LET s == [After(n, "GTS_START") EXCEPT !.macState = "GTS", !.awake = TRUE]
       IN  Becomes(n, Set(Set(s, "ATTEMPT_TX", 1), "SLEEP_START", s.gtsLeft))
    /\ UNCHANGED <<par, hub, sent, pktHistory, delivered, acked>>

\* A beacon was missed; after maxLostBeacons of them the PAN is lost.
BeaconTimeout(n) ==
    /\ Due(n, "BEACON_TIMEOUT")
    /\ LET s == [After(n, "BEACON_TIMEOUT") EXCEPT !.lostBeacons = @ + 1]
       IN  Becomes(n,
             IF s.lostBeacons >= par.maxLostBeacons
             THEN [s EXCEPT !.macState = "SETUP", !.associated = FALSE,
                            !.assignedGTS = 0, !.currentPacket = NoFrame]
             ELSE IF s.associated
             THEN Set([s EXCEPT !.macState = "SLEEP", !.awake = FALSE],
                      "FRAME_START", Interval - 2)
             ELSE s)
    /\ UNCHANGED <<par, hub, sent, pktHistory, delivered, acked>>

\* No answer has come, nor is one on its way.
AckTimeout(n) ==
    /\ Fires(n, "ACK_TIMEOUT")
    /\ \A m \in Node : ~(n \in mac[m].to /\ mac[m].frame.type = "ACK")
    /\ \E b \in Backoff, d \in Exchange :
         Becomes(n, attemptTransmission(n, After(n, "ACK_TIMEOUT"), b, d))
    /\ UNCHANGED <<par, hub, sent, pktHistory, delivered, acked>>

AttemptTx(n) ==
    /\ Fires(n, "ATTEMPT_TX")
    /\ LET s == After(n, "ATTEMPT_TX")
       IN  IF Running(s, "ACK_TIMEOUT") THEN Becomes(n, s)
           ELSE \E b \in Backoff, d \in Exchange :
                  Becomes(n, attemptTransmission(n, s, b, d))
    /\ UNCHANGED <<par, hub, sent, pktHistory, delivered, acked>>

\* Mutant of SleepStart: the beacon that is waited for is forgotten.
SleepStartAnyway(n) ==
    /\ Due(n, "SLEEP_START")
    /\ Becomes(n, Stop([After(n, "SLEEP_START") EXCEPT !.macState = "SLEEP", !.awake = FALSE],
                       "PERFORM_CCA"))
    /\ UNCHANGED <<par, hub, sent, pktHistory, delivered, acked>>

SleepStart(n) ==
    /\ Due(n, "SLEEP_START")
    /\ LET s == After(n, "SLEEP_START")
       IN  Becomes(n, IF Running(s, "BEACON_TIMEOUT") THEN s
                      ELSE Stop([s EXCEPT !.macState = "SLEEP", !.awake = FALSE],
                                "PERFORM_CCA"))
    /\ UNCHANGED <<par, hub, sent, pktHistory, delivered, acked>>

BackToSetup(n) ==
    /\ Due(n, "BACK_TO_SETUP")
    /\ LET s == After(n, "BACK_TO_SETUP")
       IN  Becomes(n, IF s.associated THEN s ELSE [s EXCEPT !.macState = "SETUP"])
    /\ UNCHANGED <<par, hub, sent, pktHistory, delivered, acked>>

-----------------------------------------------------------------------------
\* PERFORM_CCA.  Nodes need not hear each other, so the channel may be clear at
\* any time, but it is busy only when someone is sending.
Assesses(n) == mac[n].macState \notin {"GTS", "SLEEP"}

CcaInVain(n) ==
    /\ Due(n, "PERFORM_CCA") /\ ~Assesses(n)
    /\ Becomes(n, After(n, "PERFORM_CCA"))
    /\ UNCHANGED <<par, hub, sent, pktHistory, delivered, acked>>

\* The radio is sending (or asleep): listen, and wait for another occasion.
CcaNotValid(n) ==
    /\ Due(n, "PERFORM_CCA") /\ Assesses(n) /\ (Transmitting(n) \/ ~mac[n].awake)
    /\ Becomes(n, [After(n, "PERFORM_CCA") EXCEPT !.awake = TRUE])
    /\ UNCHANGED <<par, hub, sent, pktHistory, delivered, acked>>

CcaClear(n) ==
    /\ Fires(n, "PERFORM_CCA") /\ Assesses(n) /\ mac[n].awake
    /\ LET s == [After(n, "PERFORM_CCA") EXCEPT !.CW = @ - 1]
       IN  IF s.CW > 0 THEN Becomes(n, performCSMACA(s, 0))
           ELSE \E d \in Exchange : Becomes(n, transmitCurrentPacket(n, s, d))
    /\ UNCHANGED <<par, hub, sent, pktHistory, delivered, acked>>

CcaBusy(n) ==
    /\ Fires(n, "PERFORM_CCA") /\ Assesses(n) /\ mac[n].awake
    /\ \E m \in Node : Transmitting(m)
    /\ LET s == [After(n, "PERFORM_CCA") EXCEPT !.CW = FirstCW, !.NB = @ + 1]
           failed == IF s.currentPacket = NoFrame THEN 0 ELSE 1
       IN  \E b \in Backoff, d \in Exchange :
             Becomes(n, IF s.NB <= par.macMaxCSMABackoffs THEN performCSMACA(s, b)
                        ELSE attemptTransmission(n,
                                [s EXCEPT !.retries = @ - 1, !.tried = @ + failed], b, d))
    /\ UNCHANGED <<par, hub, sent, pktHistory, delivered, acked>>

-----------------------------------------------------------------------------
\* GTS_START comes before the slot by the time the radio takes to wake up.
Waking(s) == s.macState = "GTS" /\ ~s.adjacent /\ s.gtsLeft > 2 * par.requestGTS

\* A frame of m reaches n, which listens and becomes s.
Arrives(m, n, type) ==
    /\ n \in mac[m].to /\ mac[m].frame.type = type
    /\ mac[n].awake /\ ~Transmitting(n) /\ ~mac[n].disabled /\ ~Waking(mac[n])

Taken(s, n) == [s EXCEPT !.to = @ \ {n}, !.frame = IF s.to = {n} THEN NoFrame ELSE @]
Takes(m, n, s) == mac' = [mac EXCEPT ![m] = Taken(@, n), ![n] = s]

\* The beacon's CAP and n's slot in it, as n computes them.
Superframe(n, s) ==
    LET k == hub.announced
        mine == {i \in 1..k : hub.GTSlist[i] = n}
        t == [s EXCEPT !.lostBeacons = 0, !.macState = "CAP", !.capLeft = CAPend(k),
                       !.gtsLeft = 0, !.adjacent = FALSE, !.guest = ~s.associated,
                       !.carried = Running(s, "ACK_TIMEOUT")]
    IN  IF mine = {} THEN t
        ELSE LET i == CHOOSE j \in mine : TRUE
             IN  [t EXCEPT !.gtsLeft = gtsEnd(i), !.adjacent = (i = k)]

\* Timers for the superframe that has begun.
Scheduled(n, s) ==
    LET t == IF s.adjacent THEN s ELSE Set(s, "SLEEP_START", s.capLeft)
    IN  IF ~s.associated THEN Set(s, "BACK_TO_SETUP", s.capLeft)
        ELSE IF s.gtsLeft = 0 THEN t
        ELSE Set(t, "GTS_START", s.gtsLeft - 2 * par.requestGTS - 1)

receiveBeacon_node(n, s, b, d) ==
    IF s.associated THEN s
    ELSE transmitPacket(n, s, Frame("ASSOCIATE", Hub, 0, 0), b, d)

\* A beacon that is heard comes after the timers due with its frame.
ReceiveBeacon(n) ==
    /\ Arrives(Hub, n, "BEACON") /\ ~Due(n, "SLEEP_START")
    /\ LET s == Scheduled(n, Superframe(n, Stop(mac[n], "BEACON_TIMEOUT")))
       IN  \E b \in Backoff, d \in Exchange :
             Takes(Hub, n, Set(attemptTransmission(n, receiveBeacon_node(n, s, b, d), b, d),
                               "FRAME_START", Interval - 1))
    /\ UNCHANGED <<par, hub, sent, pktHistory, delivered, acked>>

ReceiveAssociate(m) ==
    /\ Arrives(m, Hub, "ASSOCIATE")
    /\ Takes(m, Hub, Reply(Hub, mac[Hub], Frame("ACK", m, 0, 0)))
    /\ hub' = [hub EXCEPT !.associatedDevices = @ \cup {m}]
    /\ UNCHANGED <<par, sent, pktHistory, delivered, acked>>

Listed(m) == \E i \in DOMAIN hub.GTSlist : hub.GTSlist[i] = m

\* Mutant of Accommodates: the CAP may shrink to nothing.
AccommodatesAll(m) == Len(hub.GTSlist) < MaxGTS

\* Another entry leaves the list short enough and the CAP long enough.
Accommodates(m) ==
    /\ Len(hub.GTSlist) < MaxGTS
    /\ CAPend(Len(hub.GTSlist) + 1) >= 2 * minCAPLength

\* gtsRequest_hub, with the list it leaves; a known owner keeps its entry.
ReceiveGtsRequest(m) ==
    /\ Arrives(m, Hub, "GTS_REQUEST")
    /\ LET granted == IF Listed(m) \/ Accommodates(m) THEN par.requestGTS ELSE 0
       IN  Takes(m, Hub, Reply(Hub, mac[Hub], Frame("ACK", m, 0, granted)))
    /\ hub' = IF ~Listed(m) /\ Accommodates(m)
              THEN [hub EXCEPT !.GTSlist = Append(@, m)] ELSE hub
    /\ UNCHANGED <<par, sent, pktHistory, delivered, acked>>

\* Mutant of isNotDuplicatePacket: a retransmission is let through.
isNotDuplicateOrAgain(n, m, sn) == pktHistory[n][m] <= sn

isNotDuplicatePacket(n, m, sn) == pktHistory[n][m] < sn

\* The ACK carries seqNum, which counts from 0 where the sequence number of
\* VirtualMac counts from 1.
ReceiveData(m, n) ==
    /\ Arrives(m, n, "DATA")
    /\ LET f == mac[m].frame
       IN  /\ Takes(m, n, IF f.dst = BROADCAST THEN mac[n]
                          ELSE Reply(n, mac[n], Frame("ACK", m, f.sn - 1, 0)))
           /\ IF isNotDuplicatePacket(n, m, f.sn)
              THEN /\ pktHistory' = [pktHistory EXCEPT ![n][m] = f.sn]
                   /\ delivered' = [delivered EXCEPT ![n] = Append(@, <<m, f.sn>>)]
              ELSE UNCHANGED <<pktHistory, delivered>>
    /\ UNCHANGED <<par, hub, sent, acked>>

\* handleAckPacket: what an ACK means depends on the current packet.
handleAckPacket(n, s, f, b, d) ==
    LET t == Stop(s, "ACK_TIMEOUT")
        p == s.currentPacket
    IN  IF p.type = "ASSOCIATE"
        THEN clearCurrentPacket(n, [t EXCEPT !.associated = TRUE, !.macState = "CAP"], b, d)
        ELSE IF p.type = "GTS_REQUEST"
        THEN clearCurrentPacket(n, [t EXCEPT !.assignedGTS = f.slots], b, d)
        ELSE IF p.sn - 1 = f.sn THEN clearCurrentPacket(n, t, b, d)
        ELSE attemptTransmission(n, t, b, d)

ReceiveAck(m, n) ==
    /\ Arrives(m, n, "ACK")
    /\ LET f == mac[m].frame
           p == mac[n].currentPacket
       IN  /\ IF p = NoFrame THEN Takes(m, n, mac[n])
              ELSE \E b \in Backoff, d \in Exchange :
                     Takes(m, n, handleAckPacket(n, mac[n], f, b, d))
           /\ acked' = IF p.type = "DATA" /\ p.sn - 1 = f.sn
                       THEN [acked EXCEPT ![n] = @ \cup {p.sn}] ELSE acked
    /\ UNCHANGED <<par, hub, sent, pktHistory, delivered>>

\* n does not get the frame: out of reach, collided, or n asleep or sending.
Lose(m, n) ==
    /\ n \in mac[m].to
    /\ Becomes(m, Taken(mac[m], n))
    /\ UNCHANGED <<par, hub, sent, pktHistory, delivered, acked>>

\* Served at once by an associated node that has nothing to send, else buffered.
acceptNewPacket(n, s, p, b, d) ==
    IF s.associated /\ s.currentPacket = NoFrame THEN transmitPacket(n, s, p, b, d)
    ELSE [s EXCEPT !.TXBuffer = IF Len(@) < macBufferSize THEN Append(@, p) ELSE @]

FromNetworkLayer(n, dst) ==
    /\ Len(sent[n]) < par.maxPackets /\ ~mac[n].disabled
    /\ sent' = [sent EXCEPT ![n] = Append(@, dst)]
    /\ \E b \in Backoff, d \in Exchange :
         Becomes(n, acceptNewPacket(n, mac[n], Frame("DATA", dst, Len(sent[n]) + 1, 0), b, d))
    /\ UNCHANGED <<par, hub, pktHistory, delivered, acked>>

\* OUT_OF_ENERGY or DESTROY_NODE: from now on every message, timers included,
\* is deleted.
Disable(n) ==
    /\ n \in par.mortal /\ ~mac[n].disabled
    /\ Becomes(n, [mac[n] EXCEPT !.disabled = TRUE, !.timers = [t \in Timer |-> Off]])
    /\ UNCHANGED <<par, hub, sent, pktHistory, delivered, acked>>

\* What is due has been done; only a transmission that lasts goes on.
Lasts(s) == s.timers["ACK_TIMEOUT"] > 0 \/ s.timers["ATTEMPT_TX"] > 0

Less(k) == IF k > 0 THEN k - 1 ELSE k

Tick ==
    /\ \A n \in Node : /\ \A t \in Timer : ~Due(n, t)
                       /\ Transmitting(n) => Lasts(mac[n])
    /\ mac' = [n \in Node |->
                 [mac[n] EXCEPT !.timers = [t \in Timer |-> Less(mac[n].timers[t])],
                                !.capLeft = Less(@), !.gtsLeft = Less(@)]]
    /\ UNCHANGED <<par, hub, sent, pktHistory, delivered, acked>>

-----------------------------------------------------------------------------
Timers(n) ==
    \/ FrameStart(n) \/ GtsStart(n) \/ BeaconTimeout(n) \/ AckTimeout(n) \/ AttemptTx(n)
    \/ SleepStart(n) \/ BackToSetup(n)
    \/ CcaInVain(n) \/ CcaNotValid(n) \/ CcaClear(n) \/ CcaBusy(n)

Receive(m, n) == ReceiveData(m, n) \/ ReceiveAck(m, n)

Next ==
    \/ Tick \/ HubFrameStart
    \/ \E n \in Node :
        \/ Timers(n) \/ Disable(n)
        \/ ReceiveBeacon(n) \/ ReceiveAssociate(n) \/ ReceiveGtsRequest(n)
        \/ \E m \in Node : Receive(m, n) \/ Lose(m, n)
        \/ \E t \in par.traffic : t[1] = n /\ FromNetworkLayer(n, t[2])

Spec == Init /\ [][Next]_vars

-----------------------------------------------------------------------------
FrameType == {"none", "BEACON", "ASSOCIATE", "GTS_REQUEST", "DATA", "ACK"}
FrameOK(f) ==
    /\ f.type \in FrameType /\ f.dst \in Address
    /\ f.sn \in 0..par.maxPackets /\ f.slots \in {0, par.requestGTS}

Latest(t) ==
    IF t = "PERFORM_CCA" THEN par.maxBackoff
    ELSE IF t = "ACK_TIMEOUT" THEN par.maxExchange
    ELSE IF t = "ATTEMPT_TX" THEN par.maxExchange + 1 ELSE Interval

\* Without a packet, retries may be one below 0: see CcaBusy.
TypeOK ==
    /\ \A n \in Node :
        LET s == mac[n]
        IN  /\ s.macState \in MacState
            /\ \A t \in Timer : s.timers[t] \in Off..Latest(t)
            /\ FrameOK(s.currentPacket) /\ FrameOK(s.frame) /\ s.to \subseteq Node \ {n}
            /\ s.to # {} => s.frame # NoFrame
            /\ s.retries \in (IF s.currentPacket = NoFrame THEN -1 ELSE 0)..par.macMaxFrameRetries
            /\ s.tried \in 0..par.macMaxFrameRetries
            /\ s.NB \in 0..(par.macMaxCSMABackoffs + 1) /\ s.CW \in 0..2
            /\ s.lostBeacons \in 0..par.maxLostBeacons
            /\ Len(s.TXBuffer) <= macBufferSize
            /\ s.assignedGTS \in {0, par.requestGTS}
            /\ {s.capLeft, s.gtsLeft} \subseteq 0..Interval
    /\ hub.associatedDevices \subseteq Device /\ hub.announced \in 0..Len(hub.GTSlist)

\* A member of the PAN that has packets has one in service, the others behind
\* it in order: nothing waits in the buffer of a node that serves nothing.
ServesBuffer ==
    \A n \in Node :
        mac[n].associated /\ mac[n].currentPacket = NoFrame => mac[n].TXBuffer = <<>>

\* An attempt under way is for the packet in service, with retries of its own:
\* the counter that is tested for 0 is never below it.
AttemptsCounted ==
    \A n \in Node :
        LET s == mac[n]
        IN  s.currentPacket # NoFrame =>
              /\ s.tried + s.retries =
                    IF s.currentPacket.dst = BROADCAST THEN 1 ELSE par.macMaxFrameRetries
              /\ Running(s, "PERFORM_CCA") /\ Assesses(n) => s.retries > 0

\* A beacon finds every member of the PAN awake, whatever it missed before and
\* wherever its slot was; it counts the beacons it misses, unless it was no
\* member at the last one; and who sleeps will wake up.
WakesForBeacon ==
    \A n \in Device :
        LET s == mac[n]
        IN  ~s.disabled =>
              /\ mac[Hub].frame.type = "BEACON" /\ n \in mac[Hub].to /\ s.associated
                    => s.awake /\ (Running(s, "BEACON_TIMEOUT") \/ s.guest)
              /\ ~s.awake => s.associated /\ Running(s, "FRAME_START")

\* The coordinator's list: each owner once, room for the CAP, and every slot
\* that a device believes to have.
GrantsKept ==
    /\ \A i, j \in DOMAIN hub.GTSlist : hub.GTSlist[i] = hub.GTSlist[j] => i = j
    /\ Len(hub.GTSlist) <= MaxGTS /\ CAPend(Len(hub.GTSlist)) >= 2 * minCAPLength
    /\ \A n \in Device :
        /\ mac[n].associated => n \in hub.associatedDevices
        /\ mac[n].assignedGTS # 0 => Listed(n)

\* Ticks since the beacon, by the coordinator's clock.
Now == Interval - mac[Hub].timers["FRAME_START"]

InSlot(i) == gtsStart(i) <= Now /\ Now < gtsEnd(i)

\* n sends a frame of its own or waits for the answer.
Active(n) ==
    \/ mac[n].to # {} /\ mac[n].frame.type # "ACK"
    \/ Running(mac[n], "ACK_TIMEOUT")

\* Nothing makes an exchange begun in the CAP next to n's own slot end with this
\* slot: whether it does depends on how long an exchange is.
Unchecked(n) == mac[n].adjacent /\ par.maxExchange > 2 * par.requestGTS

\* A granted slot is its owner's: no other node sends a frame of its own in it,
\* nor waits for an answer.  Three kinds of node are no party to that: one that
\* was no member when it last heard a beacon; one that heard the beacon in the
\* middle of an exchange, whose end and whose retry fall anywhere; and the owner of
\* the slot next to the CAP, if an exchange can be longer than a slot.
SlotsExclusive ==
    ~mac[Hub].disabled =>
        \A i \in 1..hub.announced : InSlot(i) =>
            \A n \in Node \ {hub.GTSlist[i]} :
                Active(n) => n # Hub /\ (mac[n].guest \/ mac[n].carried \/ Unchecked(n))

\* A packet for one address leaves service acknowledged, after all attempts, or
\* because the PAN is lost.
NotGivenUpEarly ==
    [][\A n \in Node :
         LET p == mac[n].currentPacket
         IN  p.type = "DATA" /\ p.dst # BROADCAST /\ mac'[n].currentPacket # p =>
                \/ mac[n].tried = par.macMaxFrameRetries
                \/ mac[n].tried + 1 = par.macMaxFrameRetries /\ CcaBusy(n)
                \/ p.sn \in acked'[n]
                \/ ~mac'[n].associated]_vars

\* 802.15.4 keeps a link's promise: in order, at most once, no acknowledged loss.
LinkLayer == INSTANCE Link WITH Destination <- Address
KeepsPromise == LinkLayer!Spec
=============================================================================
