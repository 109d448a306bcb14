-------------------------- MODULE Mac802154_proofs --------------------------
(***************************************************************************)
(* A PAN of any number of devices, in any setting: packets are served with *)
(* retries of their own, and every member wakes up for the beacon.         *)
(***************************************************************************)
EXTENDS Mac802154, SequenceTheorems, TLAPS

AnyFrame == [type : FrameType, dst : Address, sn : Nat, slots : Nat]

NodeState ==
    [macState : MacState, associated : BOOLEAN, timers : [Timer -> Int],
     currentPacket : AnyFrame, retries : Int, NB : Int, CW : Int,
     TXBuffer : Seq(AnyFrame), assignedGTS : Nat, lostBeacons : Int,
     capLeft : Int, gtsLeft : Int, adjacent : BOOLEAN, awake : BOOLEAN,
     disabled : BOOLEAN, frame : AnyFrame, to : SUBSET Node, tried : Int,
     guest : BOOLEAN, carried : BOOLEAN]

\* A frame is numbered and asks for slots as its type demands.
Sound(f) ==
    /\ f \in AnyFrame /\ FrameOK(f)
    /\ f.type = "DATA" => f.sn > 0
    /\ f.type = "GTS_REQUEST" => par.requestGTS > 0

\* What n has in service, buffered and on the air.
Carries(n, s) ==
    /\ Sound(s.currentPacket) /\ Sound(s.frame)
    /\ s.currentPacket.type \in {"none", "ASSOCIATE", "GTS_REQUEST", "DATA"}
    /\ s.currentPacket.type = "none" => s.currentPacket = NoFrame
    /\ \A i \in DOMAIN s.TXBuffer : Sound(s.TXBuffer[i]) /\ s.TXBuffer[i].type = "DATA"
    /\ Len(s.TXBuffer) <= macBufferSize
    /\ s.to \subseteq Node \ {n} /\ (s.to # {} => s.frame # NoFrame)
    /\ s.frame.type = "BEACON" => n = Hub

\* Retries and attempts of the packet in service, and the state of CSMA-CA; a
\* CCA that finds the channel busy may find nothing in service.
Attempts(s) ==
    /\ s.retries \in -1..par.macMaxFrameRetries /\ s.tried \in 0..par.macMaxFrameRetries
    /\ s.currentPacket # NoFrame =>
         /\ s.retries >= 0
         /\ s.tried + s.retries = IF s.currentPacket.dst = BROADCAST THEN 1
                                  ELSE par.macMaxFrameRetries
    /\ s.NB \in 0..(par.macMaxCSMABackoffs + 1) /\ s.CW \in 0..2
    /\ Running(s, "PERFORM_CCA") =>
         s.NB <= par.macMaxCSMABackoffs /\ s.CW > 0 /\ s.retries >= 0

\* The radio is assessed for a packet with retries left; not so in a slot or in
\* sleep, where a CCA that is still pending does nothing.
Sensed(s) ==
    Running(s, "PERFORM_CCA") /\ s.macState \notin {"GTS", "SLEEP"} /\ s.currentPacket # NoFrame
        => s.retries > 0

Counted(s) == Attempts(s) /\ Sensed(s)

Served(s) == s.associated /\ s.currentPacket = NoFrame => s.TXBuffer = <<>>

\* The timers of a packet under way.
Transmissions == {"PERFORM_CCA", "ATTEMPT_TX", "ACK_TIMEOUT"}

\* Timers are within their ranges, and off when the module is disabled.
Ranged(s) ==
    /\ \A t \in Timer : s.timers[t] >= Off
    /\ \A t \in Timer \ Transmissions : s.timers[t] <= Interval
    /\ s.timers["PERFORM_CCA"] <= par.maxBackoff
    /\ s.timers["ACK_TIMEOUT"] <= par.maxExchange
    /\ s.timers["ATTEMPT_TX"] <= par.maxExchange + 1
    /\ s.capLeft \in 0..Interval /\ s.gtsLeft \in 0..Interval
    /\ s.disabled => \A t \in Timer : s.timers[t] = Off
    /\ s.lostBeacons \in 0..par.maxLostBeacons
    /\ s.assignedGTS \in {0, par.requestGTS}

\* Whether a device waits for the beacon, or for the time to do so; all of its
\* slot and its sleep come before, and its slot begins a tick early at most.
Expects(s) == Running(s, "FRAME_START") \/ Running(s, "BEACON_TIMEOUT")

Timed(s) ==
    /\ ~(Running(s, "FRAME_START") /\ Running(s, "BEACON_TIMEOUT"))
    /\ s.timers["BEACON_TIMEOUT"] <= 2
    /\ Expects(s) => s.lostBeacons < par.maxLostBeacons
    /\ s.gtsLeft > 0 /\ ~s.disabled => Expects(s)
    /\ Running(s, "FRAME_START") => s.gtsLeft <= s.timers["FRAME_START"] + 1
    /\ Running(s, "BEACON_TIMEOUT") => s.gtsLeft = 0 \/ s.gtsLeft < s.timers["BEACON_TIMEOUT"]
    /\ Running(s, "SLEEP_START") =>
         /\ s.associated /\ Expects(s)
         /\ Running(s, "FRAME_START") => s.timers["SLEEP_START"] <= s.timers["FRAME_START"] + 1
         /\ Running(s, "BEACON_TIMEOUT") => s.timers["SLEEP_START"] < s.timers["BEACON_TIMEOUT"]
    /\ Running(s, "GTS_START") =>
         /\ s.associated /\ par.requestGTS > 0
         /\ s.timers["GTS_START"] = s.gtsLeft - 2 * par.requestGTS - 1
    /\ s.macState = "GTS" /\ ~s.disabled => s.gtsLeft <= 2 * par.requestGTS + 1

Member(s) ==
    /\ s.macState \in {"GTS", "SLEEP"} => s.associated
    /\ s.currentPacket.type = "ASSOCIATE" => ~s.associated /\ s.guest
    /\ s.associated /\ ~s.guest /\ ~s.disabled => Expects(s)
    /\ ~s.disabled /\ ~s.awake => s.associated /\ Running(s, "FRAME_START")
    /\ s.macState = "CAP" /\ s.adjacent /\ ~s.guest /\ ~s.disabled => Running(s, "GTS_START")

\* The coordinator has none of the devices' timers.
Leads(h) ==
    /\ h.associated /\ h.macState \in {"SETUP", "CAP"}
    /\ h.gtsLeft = 0 /\ ~h.adjacent /\ h.lostBeacons = 0
    /\ h.currentPacket.type # "ASSOCIATE"
    /\ ~h.disabled => Running(h, "FRAME_START")
    /\ \A t \in {"BEACON_TIMEOUT", "GTS_START", "SLEEP_START", "BACK_TO_SETUP"} :
         ~Running(h, t)
    /\ h.frame.type = "BEACON" /\ h.to # {} /\ ~h.disabled =>
         h.timers["ATTEMPT_TX"] = 0 /\ h.timers["FRAME_START"] = Interval

NodeOK(n, s) ==
    /\ s \in NodeState
    /\ Carries(n, s) /\ Counted(s) /\ Served(s) /\ Ranged(s)
    /\ IF n = Hub THEN Leads(s) ELSE Timed(s) /\ Member(s)

\* The device whose state is s keeps the coordinator's time: it expects the
\* next beacon one tick before it is due and until one tick after.
Paced(h, n, s) ==
    /\ h.frame.type = "BEACON" /\ n \in h.to =>
         /\ s.gtsLeft = 0 /\ s.capLeft = 0
         /\ ~Running(s, "FRAME_START") /\ s.timers["BEACON_TIMEOUT"] \in {Off, 1}
    /\ ~h.disabled =>
         LET left == h.timers["FRAME_START"]
         IN  /\ s.gtsLeft <= left /\ s.capLeft <= left
             /\ Running(s, "FRAME_START") => s.timers["FRAME_START"] = left - 1
             /\ Running(s, "BEACON_TIMEOUT") =>
                  s.timers["BEACON_TIMEOUT"] = left + 1
                    \/ s.timers["BEACON_TIMEOUT"] = left + 1 - Interval

\* The coordinator's list.
ListOK ==
    /\ hub \in [associatedDevices : SUBSET Device, GTSlist : Seq(Device), announced : Nat]
    /\ hub.announced <= Len(hub.GTSlist) /\ Len(hub.GTSlist) <= MaxGTS
    /\ hub.GTSlist # <<>> => par.requestGTS > 0
    /\ CAPend(Len(hub.GTSlist)) >= 2 * minCAPLength
    /\ \A i, j \in DOMAIN hub.GTSlist : hub.GTSlist[i] = hub.GTSlist[j] => i = j

NodesOK ==
    /\ mac \in [Node -> NodeState] /\ \A n \in Node : NodeOK(n, mac[n])
    /\ \A n \in Device : Paced(mac[Hub], n, mac[n])

IInv ==
    /\ par \in Pars /\ NodesOK /\ ListOK
    /\ sent \in [Node -> Seq(Address)]
    /\ pktHistory \in [Node -> [Node -> Nat]]
    /\ delivered \in [Node -> Seq(Node \X Nat)] /\ acked \in [Node -> SUBSET Nat]

-----------------------------------------------------------------------------
(* The settings, and the fields of a node. *)

\* What the assumption says of the setting in use.
Setting ==
    /\ par.requestGTS \in Nat /\ par.macMaxFrameRetries \in Nat \ {0}
    /\ par.macMaxCSMABackoffs \in Nat /\ par.maxLostBeacons \in Nat \ {0}
    /\ par.maxBackoff \in Nat /\ par.maxExchange \in Nat
    /\ par.maxPackets \in Nat /\ par.traffic \subseteq Node \X Address
    /\ Hub \in par.nodes /\ par.mortal \subseteq Node
    /\ numSuperframeSlots \in Nat /\ minCAPLength \in 1..numSuperframeSlots
    /\ Interval \in Nat /\ Interval >= 2 * numSuperframeSlots /\ Interval >= 2
    /\ BROADCAST \in Address /\ Node \subseteq Address /\ Node \subseteq Nat
    /\ Hub \in Node /\ Hub \notin Device /\ Node = Device \cup {Hub}
    /\ macBufferSize \in Nat \ {0} /\ Address \subseteq Int /\ BROADCAST \notin Node

\* Every setting considered is one.
LEMMA SettingOK ==
    ASSUME par \in Pars
    PROVE  Setting
<1>1. par \in Parameters /\ Hub \in par.nodes /\ par.beaconSlots >= numSuperframeSlots
  BY MacAssumption
<1>2. /\ par.requestGTS \in Nat /\ par.macMaxFrameRetries \in Nat \ {0}
      /\ par.macMaxCSMABackoffs \in Nat /\ par.maxLostBeacons \in Nat \ {0}
      /\ par.maxBackoff \in Nat /\ par.maxExchange \in Nat
      /\ par.maxPackets \in Nat /\ par.traffic \subseteq Node \X Address
      /\ Hub \in par.nodes /\ par.mortal \subseteq Node /\ par.beaconSlots \in Nat
  BY <1>1 DEF Parameters
<1>3. numSuperframeSlots \in Nat /\ minCAPLength \in 1..numSuperframeSlots
  BY MacAssumption
<1>4. Interval \in Nat /\ Interval >= 2 * numSuperframeSlots /\ Interval >= 2
  BY <1>1, <1>2, <1>3 DEF Interval
<1>5. /\ BROADCAST \in Address /\ Node \subseteq Address /\ Node \subseteq Nat
      /\ Hub \in Node /\ Hub \notin Device /\ Node = Device \cup {Hub}
      /\ macBufferSize \in Nat \ {0} /\ Address \subseteq Int /\ BROADCAST \notin Node
  BY MacAssumption DEF Address, Node, BROADCAST
<1> QED
  BY <1>2, <1>3, <1>4, <1>5 DEF Setting

\* Fields that s and t agree on: its place in the superframe and the PAN,
SameOwn(s, t) ==
    /\ t.macState = s.macState /\ t.associated = s.associated
    /\ t.assignedGTS = s.assignedGTS /\ t.lostBeacons = s.lostBeacons
    /\ t.capLeft = s.capLeft /\ t.gtsLeft = s.gtsLeft /\ t.adjacent = s.adjacent
    /\ t.disabled = s.disabled /\ t.guest = s.guest /\ t.carried = s.carried

\* the radio,
SameRadio(s, t) == t.awake = s.awake /\ t.frame = s.frame /\ t.to = s.to

\* the packets and the attempts.
SamePackets(s, t) ==
    /\ t.currentPacket = s.currentPacket /\ t.TXBuffer = s.TXBuffer
    /\ t.retries = s.retries /\ t.tried = s.tried /\ t.NB = s.NB /\ t.CW = s.CW

\* Setting a timer.
LEMMA SetOK ==
    ASSUME NEW s \in NodeState, NEW t \in Timer, NEW k \in Int
    PROVE  /\ Set(s, t, k) \in NodeState
           /\ SameOwn(s, Set(s, t, k)) /\ SameRadio(s, Set(s, t, k))
           /\ SamePackets(s, Set(s, t, k))
           /\ \A x \in Timer : Set(s, t, k).timers[x] = IF x = t THEN k ELSE s.timers[x]
BY DEF Set, NodeState, SameOwn, SameRadio, SamePackets

\* Emptying its slot.
LEMMA StopOK ==
    ASSUME NEW s \in NodeState, NEW t \in Timer
    PROVE  /\ Stop(s, t) \in NodeState
           /\ SameOwn(s, Stop(s, t)) /\ SameRadio(s, Stop(s, t)) /\ SamePackets(s, Stop(s, t))
           /\ \A x \in Timer : Stop(s, t).timers[x] = IF x = t THEN Off ELSE s.timers[x]
BY SetOK DEF Stop, Off

\* Changing the attempts.
WithAttempts(s, r, k) == [s EXCEPT !.retries = r, !.tried = k]

\* Only the counters of attempts change.
LEMMA AttemptsOK ==
    ASSUME NEW s \in NodeState, NEW r \in Int, NEW k \in Int
    PROVE  LET t == WithAttempts(s, r, k)
           IN  /\ t \in NodeState /\ SameOwn(s, t) /\ SameRadio(s, t) /\ t.timers = s.timers
               /\ t.currentPacket = s.currentPacket /\ t.TXBuffer = s.TXBuffer
               /\ t.NB = s.NB /\ t.CW = s.CW /\ t.retries = r /\ t.tried = k
<1> DEFINE a == [s EXCEPT !.retries = r]
           b == [a EXCEPT !.tried = k]
<1>1. a \in NodeState
  BY DEF NodeState
<1>2. /\ SameOwn(s, a) /\ SameRadio(s, a) /\ a.timers = s.timers
      /\ a.currentPacket = s.currentPacket /\ a.TXBuffer = s.TXBuffer
      /\ a.NB = s.NB /\ a.CW = s.CW /\ a.retries = r /\ a.tried = s.tried
  BY DEF NodeState, SameOwn, SameRadio
<1>3. WithAttempts(s, r, k) = b
  BY DEF NodeState, WithAttempts
<1> HIDE DEF a
<1>4. b \in NodeState
  BY <1>1 DEF NodeState
<1>5. /\ SameOwn(a, b) /\ SameRadio(a, b) /\ b.timers = a.timers
      /\ b.currentPacket = a.currentPacket /\ b.TXBuffer = a.TXBuffer
      /\ b.NB = a.NB /\ b.CW = a.CW /\ b.retries = a.retries /\ b.tried = k
  BY <1>1 DEF NodeState, SameOwn, SameRadio
<1> HIDE DEF b
<1> QED
  BY <1>2, <1>3, <1>4, <1>5 DEF SameOwn, SameRadio

\* Changing the backoffs.
WithBackoffs(s, r, k) == [s EXCEPT !.NB = r, !.CW = k]

\* Only the counters of backoffs change.
LEMMA BackoffsOK ==
    ASSUME NEW s \in NodeState, NEW r \in Int, NEW k \in Int
    PROVE  LET t == WithBackoffs(s, r, k)
           IN  /\ t \in NodeState /\ SameOwn(s, t) /\ SameRadio(s, t) /\ t.timers = s.timers
               /\ t.currentPacket = s.currentPacket /\ t.TXBuffer = s.TXBuffer
               /\ t.retries = s.retries /\ t.tried = s.tried /\ t.NB = r /\ t.CW = k
<1> DEFINE a == [s EXCEPT !.NB = r]
           b == [a EXCEPT !.CW = k]
<1>1. a \in NodeState
  BY DEF NodeState
<1>2. /\ SameOwn(s, a) /\ SameRadio(s, a) /\ a.timers = s.timers
      /\ a.currentPacket = s.currentPacket /\ a.TXBuffer = s.TXBuffer
      /\ a.retries = s.retries /\ a.tried = s.tried /\ a.NB = r
  BY DEF NodeState, SameOwn, SameRadio
<1>3. WithBackoffs(s, r, k) = b
  BY DEF NodeState, WithBackoffs
<1> HIDE DEF a
<1>4. b \in NodeState
  BY <1>1 DEF NodeState
<1>5. /\ SameOwn(a, b) /\ SameRadio(a, b) /\ b.timers = a.timers
      /\ b.currentPacket = a.currentPacket /\ b.TXBuffer = a.TXBuffer
      /\ b.retries = a.retries /\ b.tried = a.tried /\ b.NB = a.NB /\ b.CW = k
  BY <1>1 DEF NodeState, SameOwn, SameRadio
<1> HIDE DEF b
<1> QED
  BY <1>2, <1>3, <1>4, <1>5 DEF SameOwn, SameRadio

\* Changing the packets.
WithPacket(s, p) == [s EXCEPT !.currentPacket = p]
WithBuffer(s, q) == [s EXCEPT !.TXBuffer = q]

\* Only the packet in service changes.
LEMMA PacketOK ==
    ASSUME NEW s \in NodeState, NEW p \in AnyFrame
    PROVE  LET t == WithPacket(s, p)
           IN  /\ t \in NodeState /\ SameOwn(s, t) /\ SameRadio(s, t) /\ t.timers = s.timers
               /\ t.currentPacket = p /\ t.TXBuffer = s.TXBuffer
               /\ t.NB = s.NB /\ t.CW = s.CW /\ t.retries = s.retries /\ t.tried = s.tried
<1> DEFINE t == WithPacket(s, p)
<1>1. t \in NodeState
  BY DEF WithPacket, NodeState
<1>2. /\ SameOwn(s, t) /\ SameRadio(s, t) /\ t.timers = s.timers
      /\ t.currentPacket = p /\ t.TXBuffer = s.TXBuffer
      /\ t.NB = s.NB /\ t.CW = s.CW /\ t.retries = s.retries /\ t.tried = s.tried
  BY DEF WithPacket, NodeState, SameOwn, SameRadio
<1> QED
  BY <1>1, <1>2

\* Changing the buffer.
LEMMA BufferOK ==
    ASSUME NEW s \in NodeState, NEW q \in Seq(AnyFrame)
    PROVE  LET t == WithBuffer(s, q)
           IN  /\ t \in NodeState /\ SameOwn(s, t) /\ SameRadio(s, t) /\ t.timers = s.timers
               /\ t.currentPacket = s.currentPacket /\ t.TXBuffer = q
               /\ t.NB = s.NB /\ t.CW = s.CW /\ t.retries = s.retries /\ t.tried = s.tried
<1> DEFINE t == WithBuffer(s, q)
<1>1. t \in NodeState
  BY DEF WithBuffer, NodeState
<1>2. /\ SameOwn(s, t) /\ SameRadio(s, t) /\ t.timers = s.timers
      /\ t.currentPacket = s.currentPacket /\ t.TXBuffer = q
      /\ t.NB = s.NB /\ t.CW = s.CW /\ t.retries = s.retries /\ t.tried = s.tried
  BY DEF WithBuffer, NodeState, SameOwn, SameRadio
<1> QED
  BY <1>1, <1>2

\* Putting a frame on the air.
LEMMA SendOK ==
    ASSUME NEW n \in Node, NEW s \in NodeState, NEW f \in AnyFrame
    PROVE  /\ Send(n, s, f) \in NodeState
           /\ SameOwn(s, Send(n, s, f)) /\ SamePackets(s, Send(n, s, f))
           /\ Send(n, s, f).timers = s.timers
           /\ Send(n, s, f).frame = f /\ Send(n, s, f).awake
           /\ Send(n, s, f).to = (IF f.dst = BROADCAST THEN Node ELSE {f.dst} \cap Node) \ {n}
<1> DEFINE T == (IF f.dst = BROADCAST THEN Node ELSE {f.dst} \cap Node) \ {n}
           a == [s EXCEPT !.frame = f]
           b == [a EXCEPT !.awake = TRUE]
           c == [b EXCEPT !.to = T]
<1>1. T \in SUBSET Node
  OBVIOUS
<1>2. a \in NodeState /\ SameOwn(s, a) /\ SamePackets(s, a) /\ a.timers = s.timers /\ a.frame = f
  BY DEF NodeState, SameOwn, SamePackets
<1>3. Send(n, s, f) = c
  BY DEF Send, NodeState
<1> HIDE DEF a
<1>4. /\ b \in NodeState /\ SameOwn(a, b) /\ SamePackets(a, b) /\ b.timers = a.timers
      /\ b.frame = a.frame /\ b.awake
  BY <1>2 DEF NodeState, SameOwn, SamePackets
<1> HIDE DEF b, T
<1>5. /\ c \in NodeState /\ SameOwn(b, c) /\ SamePackets(b, c) /\ c.timers = b.timers
      /\ c.frame = b.frame /\ c.awake = b.awake /\ c.to = T
  BY <1>1, <1>4 DEF NodeState, SameOwn, SamePackets
<1> HIDE DEF c
<1>6. SameOwn(s, c) /\ SamePackets(s, c)
  BY <1>2, <1>4, <1>5 DEF SameOwn, SamePackets
<1> QED
  BY <1>2, <1>3, <1>4, <1>5, <1>6 DEF T

-----------------------------------------------------------------------------
(* The helper functions. *)

Own == {"ASSOCIATE", "GTS_REQUEST", "DATA"}

\* A node whose packets, attempts and timers are in order.
Fit(n, s) == s \in NodeState /\ Carries(n, s) /\ Counted(s) /\ Ranged(s) /\ ~s.disabled

\* The same but for a CCA pending when n comes out of its slot or its sleep.
Nearly(n, s) == s \in NodeState /\ Carries(n, s) /\ Attempts(s) /\ Ranged(s) /\ ~s.disabled

\* What the helpers leave alone on the way from s to t.
Kept(s, t) ==
    /\ SameOwn(s, t) /\ (s.awake => t.awake)
    /\ \A x \in Timer \ Transmissions : t.timers[x] = s.timers[x]
    /\ (t.frame = s.frame /\ t.to = s.to) \/ t.frame.type \in Own \cup {"ACK"}

\* A packet has a retry left.
Ready(s) == s.currentPacket # NoFrame => s.retries > 0

\* Doing nothing leaves all that alone.
LEMMA KeptSelf == \A s : Kept(s, s)
BY DEF Kept, SameOwn

\* So do two stretches in a row.
LEMMA KeptTwice ==
    ASSUME NEW s, NEW t, NEW u, Kept(s, t), Kept(t, u)
    PROVE  Kept(s, u)
BY DEF Kept, SameOwn

\* No packet at all is in order too.
LEMMA NoFrameOK ==
    ASSUME Setting
    PROVE  Sound(NoFrame) /\ NoFrame.type = "none" /\ NoFrame.dst = BROADCAST
BY DEF Setting, Sound, NoFrame, AnyFrame, FrameOK, FrameType

\* A timer of the helpers that is set within its range.
LEMMA SetFit ==
    ASSUME Setting, NEW n \in Node, NEW s, Fit(n, s), NEW x \in {"ATTEMPT_TX", "ACK_TIMEOUT"},
           NEW k \in Exchange \cup {0, Off}
    PROVE  /\ Fit(n, Set(s, x, k)) /\ Kept(s, Set(s, x, k))
           /\ SamePackets(s, Set(s, x, k)) /\ SameRadio(s, Set(s, x, k))
           /\ Set(s, x, k).timers["PERFORM_CCA"] = s.timers["PERFORM_CCA"]
           /\ Set(s, x, k).timers[x] = k
<1> DEFINE t == Set(s, x, k)
<1>1. x \in Timer /\ k \in Int /\ s \in NodeState /\ "PERFORM_CCA" \in Timer
      /\ k \in Off..par.maxExchange
  BY DEF Timer, Off, Fit, Setting, Exchange
<1>2. /\ t \in NodeState /\ SameOwn(s, t) /\ SameRadio(s, t) /\ SamePackets(s, t)
      /\ \A y \in Timer : t.timers[y] = IF y = x THEN k ELSE s.timers[y]
  BY <1>1, SetOK
<1> HIDE DEF t
<1>3. t.timers["PERFORM_CCA"] = s.timers["PERFORM_CCA"] /\ t.timers[x] = k
  BY <1>1, <1>2
<1>4. Carries(n, t)
  BY <1>2 DEF Fit, Carries, SameRadio, SamePackets
<1>5. Counted(t)
  BY <1>2, <1>3 DEF Fit, Counted, Attempts, Sensed, SameOwn, SamePackets, Running
<1>6. Ranged(t)
  BY <1>1, <1>2 DEF Fit, Ranged, SameOwn, Off, Timer, Transmissions, Setting
<1>7. Kept(s, t)
  BY <1>2 DEF Kept, Transmissions, SameRadio
<1> QED
  BY <1>2, <1>3, <1>4, <1>5, <1>6, <1>7 DEF Fit, t, SameOwn

\* transmitCurrentPacket uses up a retry.
LEMMA TransmitOK ==
    ASSUME Setting, NEW n \in Node, NEW s, Fit(n, s), NEW d \in Exchange, Ready(s),
           Running(s, "PERFORM_CCA") => s.macState = "GTS"
    PROVE  LET t == transmitCurrentPacket(n, s, d)
           IN  /\ Fit(n, t) /\ Kept(s, t)
               /\ t.currentPacket = s.currentPacket /\ t.TXBuffer = s.TXBuffer
<1>1. CASE s.currentPacket = NoFrame \/ ~Fits(s, d)
  BY <1>1, KeptSelf DEF transmitCurrentPacket
<1>2. CASE ~(s.currentPacket = NoFrame \/ ~Fits(s, d))
  <2> DEFINE p == s.currentPacket
             a == Send(n, s, p)
             c == WithAttempts(a, a.retries - 1, a.tried + 1)
             x == IF p.dst = BROADCAST THEN "ATTEMPT_TX" ELSE "ACK_TIMEOUT"
             t == Set(c, x, d)
  <2>1. s \in NodeState /\ p \in AnyFrame /\ Sound(p) /\ p.type \in Own /\ p # NoFrame
    BY <1>2, NoFrameOK DEF Fit, Carries, Sound, Own
  <2>2. /\ a \in NodeState /\ SameOwn(s, a) /\ SamePackets(s, a) /\ a.timers = s.timers
        /\ a.frame = p /\ a.awake /\ a.to \subseteq Node \ {n}
    BY <2>1, SendOK
  <2>3. s.retries \in Int /\ s.tried \in Int /\ s.retries > 0
    BY <1>2, <2>1 DEF NodeState, Ready
  <2>4. transmitCurrentPacket(n, s, d) = t
    BY <1>2 DEF transmitCurrentPacket, WithAttempts
  <2> HIDE DEF a
  <2>5. a.retries - 1 \in Int /\ a.tried + 1 \in Int
        /\ a.retries = s.retries /\ a.tried = s.tried
    BY <2>2, <2>3 DEF SamePackets
  <2>6. /\ c \in NodeState /\ SameOwn(a, c) /\ SameRadio(a, c) /\ c.timers = a.timers
        /\ c.currentPacket = a.currentPacket /\ c.TXBuffer = a.TXBuffer /\ c.NB = a.NB
        /\ c.CW = a.CW /\ c.retries = a.retries - 1 /\ c.tried = a.tried + 1
    BY <2>2, <2>5, AttemptsOK
  <2> HIDE DEF c
  <2>7. /\ c.timers = s.timers /\ SameOwn(s, c) /\ c.currentPacket = p
        /\ c.TXBuffer = s.TXBuffer /\ c.NB = s.NB /\ c.CW = s.CW
        /\ c.retries = s.retries - 1 /\ c.tried = s.tried + 1
        /\ c.frame = p /\ c.awake /\ c.to \subseteq Node \ {n}
    BY <2>2, <2>5, <2>6 DEF SameOwn, SameRadio, SamePackets
  <2>8. Carries(n, c)
    BY <2>1, <2>7 DEF Fit, Carries, Own
  <2>9. Counted(c)
    <3>1. /\ c.currentPacket = s.currentPacket /\ c.NB = s.NB /\ c.CW = s.CW
          /\ c.retries = s.retries - 1 /\ c.tried = s.tried + 1 /\ c.macState = s.macState
          /\ c.timers["PERFORM_CCA"] = s.timers["PERFORM_CCA"]
      BY <2>7 DEF SameOwn
    <3>2. Attempts(s) /\ s.currentPacket # NoFrame
      BY <2>1 DEF Fit, Counted
    <3>3. /\ s.retries \in 0..par.macMaxFrameRetries /\ s.tried \in 0..par.macMaxFrameRetries
          /\ s.tried + s.retries = IF s.currentPacket.dst = BROADCAST THEN 1
                                    ELSE par.macMaxFrameRetries
          /\ s.NB \in 0..(par.macMaxCSMABackoffs + 1) /\ s.CW \in 0..2
          /\ Running(s, "PERFORM_CCA") => s.NB <= par.macMaxCSMABackoffs /\ s.CW > 0
      BY <2>3, <3>2 DEF Attempts
    <3>4. par.macMaxFrameRetries \in Nat \ {0}
      BY DEF Setting
    <3>5. c.retries \in 0..par.macMaxFrameRetries /\ c.tried \in 0..par.macMaxFrameRetries
      BY <2>3, <3>1, <3>3, <3>4
    <3>6. c.tried + c.retries = s.tried + s.retries
      BY <2>3, <3>1
    <3>7. Running(c, "PERFORM_CCA") <=> Running(s, "PERFORM_CCA")
      BY <3>1 DEF Running
    <3>8. Attempts(c)
      BY <3>1, <3>3, <3>4, <3>5, <3>6, <3>7 DEF Attempts
    <3>9. Sensed(c)
      BY <3>1, <3>7 DEF Sensed
    <3> QED
      BY <3>8, <3>9 DEF Counted
  <2>10. Ranged(c)
    BY <2>7 DEF Fit, Ranged, SameOwn
  <2>11. Fit(n, c) /\ Kept(s, c)
    BY <2>1, <2>6, <2>7, <2>8, <2>9, <2>10 DEF Fit, Kept, SameOwn
  <2>12. x \in {"ATTEMPT_TX", "ACK_TIMEOUT"} /\ d \in Exchange \cup {Off}
    OBVIOUS
  <2>13. Fit(n, t) /\ Kept(c, t) /\ SamePackets(c, t)
    BY <2>11, <2>12, SetFit
  <2>14. Kept(s, t)
    BY <2>11, <2>13, KeptTwice
  <2> QED
    BY <2>4, <2>7, <2>13, <2>14 DEF SamePackets
<1> QED
  BY <1>1, <1>2

\* attemptTransmission's branches for a packet with a retry left.
LEMMA AttemptOK ==
    ASSUME Setting, NEW n \in Node, NEW s, Fit(n, s), NEW b \in Backoff, NEW d \in Exchange, Ready(s)
    PROVE  LET t == Attempt(n, s, b, d)
           IN  /\ Fit(n, t) /\ Kept(s, t)
               /\ t.currentPacket = s.currentPacket /\ t.TXBuffer = s.TXBuffer
<1>1. CASE s.currentPacket # NoFrame /\ s.macState = "GTS"
  BY <1>1, TransmitOK DEF Attempt
<1>2. CASE s.currentPacket # NoFrame /\ s.macState = "CAP" /\ ~GtsOnly(s.currentPacket)
  <2> DEFINE v == WithBackoffs(s, 0, FirstCW)
             t == Set(v, "PERFORM_CCA", b)
  <2>1. s \in NodeState /\ FirstCW \in 1..2 /\ "PERFORM_CCA" \in Timer
        /\ b \in 0..par.maxBackoff /\ b \in Int /\ FirstCW \in Int
    BY DEF Fit, FirstCW, Timer, Backoff, Setting
  <2>3. Attempt(n, s, b, d) = t
    BY <1>2 DEF Attempt, performCSMACA, WithBackoffs
  <2>4. /\ v \in NodeState /\ SameOwn(s, v) /\ SameRadio(s, v) /\ v.timers = s.timers
        /\ v.currentPacket = s.currentPacket /\ v.TXBuffer = s.TXBuffer
        /\ v.retries = s.retries /\ v.tried = s.tried /\ v.NB = 0 /\ v.CW = FirstCW
    BY <2>1, BackoffsOK
  <2> HIDE DEF v
  <2>5. /\ t \in NodeState /\ SameOwn(v, t) /\ SameRadio(v, t) /\ SamePackets(v, t)
        /\ \A x \in Timer : t.timers[x] = IF x = "PERFORM_CCA" THEN b ELSE v.timers[x]
    <3>1. v \in NodeState /\ b \in Int /\ "PERFORM_CCA" \in Timer
      BY <2>1, <2>4
    <3> QED
      BY <3>1, SetOK
  <2> HIDE DEF t
  <2>6. /\ SameOwn(s, t) /\ SameRadio(s, t) /\ t.currentPacket = s.currentPacket
        /\ t.TXBuffer = s.TXBuffer /\ t.retries = s.retries /\ t.tried = s.tried
        /\ t.NB = 0 /\ t.CW = FirstCW
        /\ \A x \in Timer : t.timers[x] = IF x = "PERFORM_CCA" THEN b ELSE s.timers[x]
    BY <2>4, <2>5 DEF SameOwn, SameRadio, SamePackets
  <2>7. Carries(n, t)
    BY <2>6 DEF Fit, Carries, SameRadio
  <2>8. Counted(t)
    BY <1>2, <2>1, <2>6 DEF Fit, Counted, Attempts, Sensed, SameOwn, Ready, Setting
  <2>9. Ranged(t)
    BY <2>1, <2>6 DEF Fit, Ranged, SameOwn, Off, Setting, Timer, Transmissions
  <2>10. Kept(s, t)
    BY <2>6 DEF Kept, SameRadio, Transmissions
  <2> QED
    BY <2>3, <2>5, <2>6, <2>7, <2>8, <2>9, <2>10 DEF Fit, SameOwn
<1>3. CASE ~(s.currentPacket # NoFrame /\ s.macState = "GTS")
            /\ ~(s.currentPacket # NoFrame /\ s.macState = "CAP" /\ ~GtsOnly(s.currentPacket))
  <2>1. Attempt(n, s, b, d) = s
    BY <1>3 DEF Attempt
  <2> QED
    BY <2>1, KeptSelf
<1> QED
  BY <1>1, <1>2, <1>3

\* A packet a node may put in service.
Servable(p) == Sound(p) /\ p.type \in Own

\* transmitPacket puts p in service, with retries of its own.
LEMMA NewPacketOK ==
    ASSUME Setting, NEW n \in Node, NEW s, Nearly(n, s), NEW p, Servable(p),
           NEW b \in Backoff, NEW d \in Exchange
    PROVE  LET t == transmitPacket(n, s, p, b, d)
           IN  /\ Fit(n, t) /\ Kept(s, t) /\ t.currentPacket = p /\ t.TXBuffer = s.TXBuffer
               /\ Running(s, "ATTEMPT_TX") => SameRadio(s, t) /\ t.timers = s.timers
<1> DEFINE all == IF p.dst = BROADCAST THEN 1 ELSE par.macMaxFrameRetries
           a == WithPacket(s, p)
           c == WithAttempts(a, all, 0)
<1>1. s \in NodeState /\ p \in AnyFrame /\ all \in Int /\ 0 \in Int /\ all > 0
      /\ all <= par.macMaxFrameRetries /\ p # NoFrame
  BY NoFrameOK DEF Servable, Sound, Own, Nearly, Setting
<1>2. /\ a \in NodeState /\ SameOwn(s, a) /\ SameRadio(s, a) /\ a.timers = s.timers
      /\ a.currentPacket = p /\ a.TXBuffer = s.TXBuffer
      /\ a.NB = s.NB /\ a.CW = s.CW /\ a.retries = s.retries /\ a.tried = s.tried
  BY <1>1, PacketOK
<1>3. transmitPacket(n, s, p, b, d) =
        IF Running(c, "ATTEMPT_TX") \/ Running(c, "ACK_TIMEOUT") \/ Dormant(c) THEN c
        ELSE Attempt(n, c, b, d)
  <2>1. c = [s EXCEPT !.currentPacket = p, !.tried = 0, !.retries = all]
    BY <1>1 DEF WithAttempts, WithPacket, NodeState
  <2> QED
    BY <2>1 DEF transmitPacket
<1> HIDE DEF a, all
<1>4. /\ c \in NodeState /\ SameOwn(a, c) /\ SameRadio(a, c) /\ c.timers = a.timers
      /\ c.currentPacket = a.currentPacket /\ c.TXBuffer = a.TXBuffer /\ c.NB = a.NB
      /\ c.CW = a.CW /\ c.retries = all /\ c.tried = 0
  BY <1>1, <1>2, AttemptsOK
<1> HIDE DEF c
<1>5. /\ SameOwn(s, c) /\ SameRadio(s, c) /\ c.timers = s.timers
      /\ c.currentPacket = p /\ c.TXBuffer = s.TXBuffer /\ c.NB = s.NB
      /\ c.CW = s.CW /\ c.retries = all /\ c.tried = 0
  BY <1>2, <1>4 DEF SameOwn, SameRadio
<1>6. Carries(n, c)
  BY <1>1, <1>5 DEF Nearly, Carries, SameRadio, Servable, Own
<1>7. Counted(c)
  <2>1. /\ Attempts(s) /\ c.timers["PERFORM_CCA"] = s.timers["PERFORM_CCA"]
        /\ c.currentPacket = p /\ c.NB = s.NB /\ c.CW = s.CW /\ c.retries = all /\ c.tried = 0
    BY <1>5 DEF Nearly
  <2>2. Attempts(c)
    BY <1>1, <2>1 DEF Attempts, Running, Setting, all
  <2>3. Sensed(c)
    BY <1>1, <2>1 DEF Sensed
  <2> QED
    BY <2>2, <2>3 DEF Counted
<1>8. Ranged(c)
  BY <1>5 DEF Nearly, Ranged, SameOwn
<1>9. Kept(s, c)
  BY <1>5 DEF Kept, SameRadio
<1>10. Fit(n, c) /\ Ready(c)
  BY <1>1, <1>4, <1>5, <1>6, <1>7, <1>8 DEF Fit, Nearly, Ready, SameOwn
<1>11. CASE Running(c, "ATTEMPT_TX") \/ Running(c, "ACK_TIMEOUT") \/ Dormant(c)
  BY <1>3, <1>5, <1>9, <1>10, <1>11
<1>12. CASE ~(Running(c, "ATTEMPT_TX") \/ Running(c, "ACK_TIMEOUT") \/ Dormant(c))
  <2> DEFINE t == Attempt(n, c, b, d)
  <2>1. Fit(n, t) /\ Kept(c, t) /\ t.currentPacket = c.currentPacket /\ t.TXBuffer = c.TXBuffer
    BY <1>10, AttemptOK
  <2>2. ~Running(s, "ATTEMPT_TX")
    BY <1>5, <1>12 DEF Running
  <2>3. Kept(s, t)
    BY <1>9, <2>1, KeptTwice
  <2> QED
    BY <1>3, <1>5, <1>12, <2>1, <2>2, <2>3
<1> QED
  BY <1>11, <1>12

\* The same for a node in order.
LEMMA NextPacketOK ==
    ASSUME Setting, NEW n \in Node, NEW s, Fit(n, s), NEW p, Servable(p),
           NEW b \in Backoff, NEW d \in Exchange
    PROVE  LET t == transmitPacket(n, s, p, b, d)
           IN  /\ Fit(n, t) /\ Kept(s, t) /\ t.currentPacket = p /\ t.TXBuffer = s.TXBuffer
               /\ Running(s, "ATTEMPT_TX") => SameRadio(s, t) /\ t.timers = s.timers
<1>1. Nearly(n, s)
  BY DEF Fit, Nearly, Counted
<1> QED
  BY <1>1, NewPacketOK

\* A stretch of helpers that ends with the buffer served; requests for
\* association begin with a beacon only.
Works(n, s, t) ==
    /\ Fit(n, t) /\ Served(t) /\ Kept(s, t)
    /\ t.currentPacket.type = "ASSOCIATE" => s.currentPacket.type = "ASSOCIATE"

\* A stretch after another that leaves things alone.
LEMMA WorksTwice ==
    ASSUME NEW n, NEW s, NEW t, NEW u, Kept(s, t), Works(n, t, u),
           t.currentPacket.type = "ASSOCIATE" => s.currentPacket.type = "ASSOCIATE"
    PROVE  Works(n, s, u)
BY KeptTwice DEF Works

\* The request for a slot, and the head of the buffer, can be served.
LEMMA RequestOK ==
    ASSUME Setting, par.requestGTS > 0
    PROVE  Servable(Frame("GTS_REQUEST", Hub, 0, 0))
BY DEF Setting, Servable, Sound, Frame, AnyFrame, FrameOK, FrameType, Own

\* So can the request to associate.
LEMMA AssociateOK ==
    ASSUME Setting
    PROVE  Servable(Frame("ASSOCIATE", Hub, 0, 0))
BY DEF Setting, Servable, Sound, Frame, AnyFrame, FrameOK, FrameType, Own

\* The head of the buffer leaves it in order.
LEMMA PopOK ==
    ASSUME Setting, NEW n \in Node, NEW s, Fit(n, s), s.TXBuffer # <<>>
    PROVE  /\ Servable(Head(s.TXBuffer)) /\ Head(s.TXBuffer).type = "DATA"
           /\ LET t == WithBuffer(s, Tail(s.TXBuffer))
              IN  Fit(n, t) /\ Kept(s, t) /\ t.currentPacket = s.currentPacket
<1> DEFINE q == s.TXBuffer
           t == WithBuffer(s, Tail(q))
<1>1. s \in NodeState /\ q \in Seq(AnyFrame)
  BY DEF Fit, NodeState
<1>2. /\ Tail(q) \in Seq(AnyFrame) /\ Head(q) = q[1] /\ 1 \in DOMAIN q
      /\ Len(Tail(q)) = Len(q) - 1 /\ Len(q) \in Nat
      /\ \A i \in DOMAIN Tail(q) : i + 1 \in DOMAIN q /\ Tail(q)[i] = q[i + 1]
  BY <1>1
<1>3. \A i \in DOMAIN q : Sound(q[i]) /\ q[i].type = "DATA"
  BY DEF Fit, Carries
<1>4. Servable(Head(q)) /\ Head(q).type = "DATA"
  BY <1>2, <1>3 DEF Servable, Own
<1>5. /\ t \in NodeState /\ SameOwn(s, t) /\ SameRadio(s, t) /\ t.timers = s.timers
      /\ t.currentPacket = s.currentPacket /\ t.TXBuffer = Tail(q)
      /\ t.NB = s.NB /\ t.CW = s.CW /\ t.retries = s.retries /\ t.tried = s.tried
  BY <1>1, <1>2, BufferOK
<1> HIDE DEF t
<1>6. \A i \in DOMAIN Tail(q) : Sound(Tail(q)[i]) /\ Tail(q)[i].type = "DATA"
  BY <1>2, <1>3
<1>7. Len(Tail(q)) <= macBufferSize
  BY <1>2 DEF Fit, Carries, Setting
<1> HIDE DEF q
<1>8. Carries(n, t)
  BY <1>5, <1>6, <1>7 DEF Fit, Carries, SameRadio
<1>9. Counted(t)
  BY <1>5 DEF Fit, Counted, Attempts, Sensed, SameOwn, Running
<1>10. Ranged(t) /\ ~t.disabled
  BY <1>5 DEF Fit, Ranged, SameOwn
<1>11. Kept(s, t)
  BY <1>5 DEF Kept, SameRadio
<1> QED
  BY <1>4, <1>5, <1>8, <1>9, <1>10, <1>11 DEF Fit, t, q

\* transmissionOutcome leaves the buffer served.
LEMMA OutcomeOK ==
    ASSUME Setting, NEW n \in Node, NEW s, Fit(n, s), NEW b \in Backoff, NEW d \in Exchange
    PROVE  Works(n, s, transmissionOutcome(n, s, b, d))
<1>1. CASE ~s.associated
  BY <1>1, KeptSelf DEF transmissionOutcome, Works, Served
<1>2. CASE s.associated /\ s.assignedGTS = 0 /\ par.requestGTS > 0
  <2> DEFINE p == Frame("GTS_REQUEST", Hub, 0, 0)
             t == transmitPacket(n, s, p, b, d)
  <2>1. transmissionOutcome(n, s, b, d) = t
    BY <1>2 DEF transmissionOutcome
  <2>2. Servable(p) /\ p.type = "GTS_REQUEST"
    BY <1>2, RequestOK DEF Frame
  <2> HIDE DEF p
  <2>3. Fit(n, t) /\ Kept(s, t) /\ t.currentPacket = p
    BY <2>2, NextPacketOK
  <2> HIDE DEF t
  <2>4. Served(t)
    BY <2>2, <2>3, NoFrameOK DEF Served
  <2> QED
    BY <2>1, <2>2, <2>3, <2>4 DEF Works
<1>3. CASE s.associated /\ ~(s.assignedGTS = 0 /\ par.requestGTS > 0) /\ s.TXBuffer = <<>>
  BY <1>3, KeptSelf DEF transmissionOutcome, Works, Served
<1>4. CASE s.associated /\ ~(s.assignedGTS = 0 /\ par.requestGTS > 0) /\ s.TXBuffer # <<>>
  <2> DEFINE p == Head(s.TXBuffer)
             u == WithBuffer(s, Tail(s.TXBuffer))
             t == transmitPacket(n, u, p, b, d)
  <2>1. transmissionOutcome(n, s, b, d) = t
    BY <1>4 DEF transmissionOutcome, WithBuffer
  <2>2. Servable(p) /\ p.type = "DATA" /\ Fit(n, u) /\ Kept(s, u)
    BY <1>4, PopOK
  <2> HIDE DEF p, u
  <2>3. Fit(n, t) /\ Kept(u, t) /\ t.currentPacket = p
    BY <2>2, NextPacketOK
  <2> HIDE DEF t
  <2>4. Served(t)
    BY <2>2, <2>3, NoFrameOK DEF Served
  <2>5. Kept(s, t)
    BY <2>2, <2>3, KeptTwice
  <2> QED
    BY <2>1, <2>2, <2>3, <2>4, <2>5 DEF Works
<1> QED
  BY <1>1, <1>2, <1>3, <1>4

\* Taking the packet out of service leaves the rest in order.
LEMMA UnserveOK ==
    ASSUME Setting, NEW n \in Node, NEW s, Nearly(n, s)
    PROVE  LET t == WithPacket(s, NoFrame)
           IN  /\ Fit(n, t) /\ Kept(s, t) /\ t.currentPacket = NoFrame
               /\ SameRadio(s, t) /\ t.timers = s.timers
<1> DEFINE t == WithPacket(s, NoFrame)
<1>1. s \in NodeState /\ NoFrame \in AnyFrame /\ Sound(NoFrame) /\ NoFrame.type = "none"
  BY NoFrameOK DEF Nearly, Sound
<1>2. /\ t \in NodeState /\ SameOwn(s, t) /\ SameRadio(s, t) /\ t.timers = s.timers
      /\ t.currentPacket = NoFrame /\ t.TXBuffer = s.TXBuffer
      /\ t.NB = s.NB /\ t.CW = s.CW /\ t.retries = s.retries /\ t.tried = s.tried
  BY <1>1, PacketOK
<1> HIDE DEF t
<1>3. Carries(n, t)
  BY <1>1, <1>2 DEF Nearly, Carries, SameRadio
<1>4. Counted(t)
  BY <1>2 DEF Nearly, Counted, Attempts, Sensed, SameOwn, Running
<1>5. Ranged(t) /\ ~t.disabled
  BY <1>2 DEF Nearly, Ranged, SameOwn
<1>6. Kept(s, t)
  BY <1>2 DEF Kept, SameRadio
<1> QED
  BY <1>2, <1>3, <1>4, <1>5, <1>6 DEF Fit, t

\* clearCurrentPacket goes on to the next packet.
LEMMA ClearOK ==
    ASSUME Setting, NEW n \in Node, NEW s, Fit(n, s), Served(s), NEW b \in Backoff, NEW d \in Exchange
    PROVE  Works(n, s, clearCurrentPacket(n, s, b, d))
<1>1. CASE s.currentPacket = NoFrame
  BY <1>1, KeptSelf DEF clearCurrentPacket, Works
<1>2. CASE s.currentPacket # NoFrame
  <2> DEFINE u == WithPacket(s, NoFrame)
             t == transmissionOutcome(n, u, b, d)
  <2>1. clearCurrentPacket(n, s, b, d) = t
    BY <1>2 DEF clearCurrentPacket, WithPacket
  <2>2. Fit(n, u) /\ Kept(s, u) /\ u.currentPacket = NoFrame
    BY UnserveOK DEF Fit, Nearly, Counted
  <2> HIDE DEF u
  <2>3. Works(n, u, t)
    BY <2>2, OutcomeOK
  <2> QED
    BY <2>1, <2>2, <2>3, WorksTwice, NoFrameOK
<1> QED
  BY <1>1, <1>2

\* A timer of the helpers stops.
LEMMA StopNearly ==
    ASSUME Setting, NEW n \in Node, NEW s, Nearly(n, s), Served(s), NEW x \in Transmissions
    PROVE  /\ Nearly(n, Stop(s, x)) /\ Served(Stop(s, x)) /\ Kept(s, Stop(s, x))
           /\ SamePackets(s, Stop(s, x)) /\ SameRadio(s, Stop(s, x))
           /\ Running(Stop(s, x), "PERFORM_CCA") => Running(s, "PERFORM_CCA")
           /\ Stop(s, x).timers[x] = Off
<1> DEFINE t == Stop(s, x)
<1>1. x \in Timer /\ s \in NodeState /\ "PERFORM_CCA" \in Timer
  BY DEF Timer, Nearly, Transmissions
<1>2. /\ t \in NodeState /\ SameOwn(s, t) /\ SameRadio(s, t) /\ SamePackets(s, t)
      /\ \A y \in Timer : t.timers[y] = IF y = x THEN Off ELSE s.timers[y]
  BY <1>1, StopOK
<1> HIDE DEF t
<1>3. t.timers["PERFORM_CCA"] = Off \/ t.timers["PERFORM_CCA"] = s.timers["PERFORM_CCA"]
  BY <1>1, <1>2
<1>4. Carries(n, t)
  BY <1>2 DEF Nearly, Carries, SameRadio, SamePackets
<1>5. Attempts(t)
  BY <1>2, <1>3 DEF Nearly, Attempts, SameOwn, SamePackets, Running
<1>6. Ranged(t) /\ ~t.disabled
  BY <1>1, <1>2 DEF Nearly, Ranged, SameOwn, Off, Timer, Setting, Transmissions
<1>7. Kept(s, t)
  BY <1>1, <1>2 DEF Kept, Transmissions, SameRadio
<1>8. Served(t)
  BY <1>2 DEF Served, SameOwn, SamePackets
<1> QED
  BY <1>1, <1>2, <1>3, <1>4, <1>5, <1>6, <1>7, <1>8 DEF Nearly, t, Running, Kept, SameOwn

\* So it does for a node in order.
LEMMA StopFit ==
    ASSUME Setting, NEW n \in Node, NEW s, Fit(n, s), Served(s), NEW x \in Transmissions
    PROVE  /\ Works(n, s, Stop(s, x)) /\ Stop(s, x).currentPacket = s.currentPacket
           /\ SamePackets(s, Stop(s, x)) /\ SameRadio(s, Stop(s, x))
           /\ Running(Stop(s, x), "PERFORM_CCA") => Running(s, "PERFORM_CCA")
           /\ Stop(s, x).timers[x] = Off

<1>1. Nearly(n, s) /\ Sensed(s)
  BY DEF Fit, Nearly, Counted
<1> DEFINE t == Stop(s, x)
<1>2. /\ Nearly(n, t) /\ Served(t) /\ Kept(s, t) /\ SamePackets(s, t) /\ SameRadio(s, t)
      /\ Running(t, "PERFORM_CCA") => Running(s, "PERFORM_CCA")
      /\ t.timers[x] = Off
  BY <1>1, StopNearly
<1> HIDE DEF t
<1>3. Sensed(t)
  BY <1>1, <1>2 DEF Sensed, SamePackets, Kept, SameOwn
<1> QED
  BY <1>2, <1>3 DEF Works, Fit, Nearly, Counted, SamePackets, t

\* attemptTransmission gives up what has no retries left, and tries the rest.
LEMMA AgainOK ==
    ASSUME Setting, NEW n \in Node, NEW s, Fit(n, s), Served(s), NEW b \in Backoff, NEW d \in Exchange
    PROVE  Works(n, s, attemptTransmission(n, s, b, d))
<1> DEFINE t == Stop(s, "ATTEMPT_TX")
<1>1. Works(n, s, t) /\ t.currentPacket = s.currentPacket
  BY StopFit DEF Transmissions
<1>2. attemptTransmission(n, s, b, d) =
        IF Dormant(t) THEN t
        ELSE IF t.currentPacket # NoFrame /\ t.retries = 0 THEN clearCurrentPacket(n, t, b, d)
        ELSE Attempt(n, t, b, d)
  BY DEF attemptTransmission
<1> HIDE DEF t
<1>3. Fit(n, t) /\ Served(t) /\ Kept(s, t)
  BY <1>1 DEF Works
<1>4. CASE Dormant(t)
  BY <1>1, <1>2, <1>4
<1>5. CASE ~Dormant(t) /\ t.currentPacket # NoFrame /\ t.retries = 0
  <2> DEFINE u == clearCurrentPacket(n, t, b, d)
  <2>1. Works(n, t, u)
    BY <1>3, ClearOK
  <2> HIDE DEF u
  <2>2. Works(n, s, u)
    BY <1>1, <1>3, <2>1, WorksTwice
  <2> QED
    BY <1>2, <1>5, <2>2 DEF u
<1>6. CASE ~Dormant(t) /\ ~(t.currentPacket # NoFrame /\ t.retries = 0)
  <2> DEFINE u == Attempt(n, t, b, d)
  <2>1. Ready(t)
    <3>1. t.retries \in Int /\ (t.currentPacket # NoFrame => t.retries >= 0)
      BY <1>3 DEF Fit, Counted, Attempts, NodeState
    <3> QED
      BY <1>6, <3>1 DEF Ready
  <2>2. Fit(n, u) /\ Kept(t, u) /\ u.currentPacket = t.currentPacket /\ u.TXBuffer = t.TXBuffer
    BY <1>3, <2>1, AttemptOK
  <2>3. Served(u)
    BY <1>3, <2>2 DEF Served, Kept, SameOwn
  <2>4. Works(n, t, u)
    BY <2>2, <2>3 DEF Works
  <2> QED
    BY <1>1, <1>2, <1>3, <1>6, <2>4, WorksTwice
<1> QED
  BY <1>4, <1>5, <1>6

\* Or gives it up when n comes out of its slot with a CCA pending.
LEMMA ResumeOK ==
    ASSUME Setting, NEW n \in Node, NEW s, Nearly(n, s), Served(s), s.macState = "CAP",
           NEW b \in Backoff, NEW d \in Exchange
    PROVE  Works(n, s, attemptTransmission(n, s, b, d))
<1>1. CASE s.currentPacket # NoFrame /\ s.retries = 0
  <2> DEFINE t == Stop(s, "ATTEMPT_TX")
             v == WithPacket(t, NoFrame)
             u == transmissionOutcome(n, v, b, d)
  <2>1. /\ Nearly(n, t) /\ Served(t) /\ Kept(s, t) /\ SamePackets(s, t)
    BY StopNearly DEF Transmissions
  <2>2. attemptTransmission(n, s, b, d) = u
    <3>1. ~Dormant(t) /\ t.currentPacket # NoFrame /\ t.retries = 0
      BY <1>1, <2>1 DEF Dormant, Kept, SameOwn, SamePackets
    <3> QED
      BY <3>1 DEF attemptTransmission, clearCurrentPacket, WithPacket
  <2> HIDE DEF t
  <2>3. Fit(n, v) /\ Kept(t, v) /\ v.currentPacket = NoFrame
    BY <2>1, UnserveOK
  <2> HIDE DEF v
  <2>4. Works(n, v, u)
    BY <2>3, OutcomeOK
  <2> HIDE DEF u
  <2>5. Kept(s, v)
    BY <2>1, <2>3, KeptTwice
  <2> QED
    BY <2>2, <2>3, <2>4, <2>5, WorksTwice, NoFrameOK
<1>2. CASE ~(s.currentPacket # NoFrame /\ s.retries = 0)
  <2>1. Fit(n, s)
    BY <1>2 DEF Nearly, Fit, Counted, Attempts, Sensed, NodeState
  <2> QED
    BY <2>1, AgainOK
<1> QED
  BY <1>1, <1>2

\* What an ACK may change of a node's place in the PAN.
Joins(s, t) ==
    /\ t.lostBeacons = s.lostBeacons /\ t.capLeft = s.capLeft /\ t.gtsLeft = s.gtsLeft
    /\ t.adjacent = s.adjacent /\ t.disabled = s.disabled /\ t.guest = s.guest
    /\ t.carried = s.carried /\ (s.awake => t.awake)
    /\ \A x \in Timer \ Transmissions : t.timers[x] = s.timers[x]
    /\ (t.frame = s.frame /\ t.to = s.to) \/ t.frame.type \in Own \cup {"ACK"}
    /\ IF s.currentPacket.type = "ASSOCIATE"
       THEN t.associated /\ t.macState = "CAP"
       ELSE t.associated = s.associated /\ t.macState = s.macState
    /\ t.currentPacket.type = "ASSOCIATE" => t.associated = s.associated
                                               /\ s.currentPacket.type = "ASSOCIATE"

\* handleAckPacket, for a node that does not ask to associate in its slot.
LEMMA AckOK ==
    ASSUME Setting, NEW n \in Node, NEW s, Fit(n, s), Served(s), NEW f, Sound(f),
           s.currentPacket # NoFrame, NEW b \in Backoff, NEW d \in Exchange,
           s.currentPacket.type = "ASSOCIATE" => s.macState \notin {"GTS", "SLEEP"} /\ ~s.associated
    PROVE  LET t == handleAckPacket(n, s, f, b, d)
           IN  Fit(n, t) /\ Served(t) /\ Joins(s, t)
<1> DEFINE t == Stop(s, "ACK_TIMEOUT")
           u == handleAckPacket(n, s, f, b, d)
<1>1. Works(n, s, t) /\ SamePackets(s, t) /\ SameRadio(s, t)
  BY StopFit DEF Transmissions
<1>2. u = IF s.currentPacket.type = "ASSOCIATE"
          THEN clearCurrentPacket(n, [t EXCEPT !.associated = TRUE, !.macState = "CAP"], b, d)
          ELSE IF s.currentPacket.type = "GTS_REQUEST"
          THEN clearCurrentPacket(n, [t EXCEPT !.assignedGTS = f.slots], b, d)
          ELSE IF s.currentPacket.sn - 1 = f.sn THEN clearCurrentPacket(n, t, b, d)
          ELSE attemptTransmission(n, t, b, d)
  BY DEF handleAckPacket
<1> HIDE DEF t
<1>3. Fit(n, t) /\ Served(t) /\ Kept(s, t) /\ t.currentPacket = s.currentPacket /\ t \in NodeState
  BY <1>1 DEF Works, SamePackets, Fit
<1>4. CASE s.currentPacket.type = "ASSOCIATE"
  <2> DEFINE v == [t EXCEPT !.associated = TRUE]
             w == [v EXCEPT !.macState = "CAP"]
  <2>1. w = [t EXCEPT !.associated = TRUE, !.macState = "CAP"]
    BY <1>3 DEF NodeState
  <2>2. u = clearCurrentPacket(n, w, b, d)
    BY <1>2, <1>4, <2>1
  <2>3. /\ v \in NodeState /\ SamePackets(t, v) /\ SameRadio(t, v) /\ v.timers = t.timers
        /\ v.associated /\ v.macState = t.macState
        /\ v.assignedGTS = t.assignedGTS /\ v.lostBeacons = t.lostBeacons
        /\ v.capLeft = t.capLeft /\ v.gtsLeft = t.gtsLeft /\ v.adjacent = t.adjacent
        /\ v.disabled = t.disabled /\ v.guest = t.guest /\ v.carried = t.carried
    BY <1>3 DEF NodeState, SamePackets, SameRadio
  <2> HIDE DEF v
  <2>4. /\ w \in NodeState /\ SamePackets(v, w) /\ SameRadio(v, w) /\ w.timers = v.timers
        /\ w.associated = v.associated /\ w.macState = "CAP"
        /\ w.assignedGTS = v.assignedGTS /\ w.lostBeacons = v.lostBeacons
        /\ w.capLeft = v.capLeft /\ w.gtsLeft = v.gtsLeft /\ w.adjacent = v.adjacent
        /\ w.disabled = v.disabled /\ w.guest = v.guest /\ w.carried = v.carried
    BY <2>3 DEF NodeState, MacState, SamePackets, SameRadio
  <2> HIDE DEF w
  <2>5. Carries(n, w)
    BY <1>3, <2>3, <2>4 DEF Fit, Carries, SameRadio, SamePackets
  <2>6. t.macState \notin {"GTS", "SLEEP"}
    BY <1>3, <1>4 DEF Kept, SameOwn
  <2>7. Counted(w)
    BY <1>3, <2>3, <2>4, <2>6 DEF Fit, Counted, Attempts, Sensed, Running, SamePackets
  <2>8. Ranged(w) /\ ~w.disabled
    BY <1>3, <2>3, <2>4 DEF Fit, Ranged
  <2>9. w.currentPacket = s.currentPacket
    BY <1>3, <2>3, <2>4 DEF SamePackets
  <2>10. Served(w)
    BY <2>9 DEF Served
  <2>11. Works(n, w, u)
    BY <2>2, <2>4, <2>5, <2>7, <2>8, <2>10, ClearOK DEF Fit
  <2>12. u.currentPacket.type # "ASSOCIATE"
    <3> DEFINE x == WithPacket(w, NoFrame)
    <3>1. u = transmissionOutcome(n, x, b, d)
      BY <2>2, <2>9 DEF clearCurrentPacket, WithPacket
    <3>2. Fit(n, x) /\ x.currentPacket = NoFrame
      BY <2>4, <2>5, <2>7, <2>8, UnserveOK DEF Nearly, Counted
    <3> HIDE DEF x
    <3> QED
      BY <3>1, <3>2, OutcomeOK, NoFrameOK DEF Works
  <2>13. Fit(n, u) /\ Served(u) /\ Kept(w, u)
    BY <2>11 DEF Works
  <2> HIDE DEF u
  <2>14. u.associated /\ u.macState = "CAP"
    BY <2>3, <2>4, <2>13 DEF Kept, SameOwn
  <2>15. /\ u.lostBeacons = s.lostBeacons /\ u.capLeft = s.capLeft /\ u.gtsLeft = s.gtsLeft
         /\ u.adjacent = s.adjacent /\ u.disabled = s.disabled /\ u.guest = s.guest
         /\ u.carried = s.carried
    BY <1>3, <2>3, <2>4, <2>13 DEF Kept, SameOwn
  <2>16. (s.awake => u.awake) /\ \A x \in Timer \ Transmissions : u.timers[x] = s.timers[x]
    BY <1>3, <2>3, <2>4, <2>13 DEF Kept, SameRadio
  <2>17. (u.frame = s.frame /\ u.to = s.to) \/ u.frame.type \in Own \cup {"ACK"}
    BY <1>3, <2>3, <2>4, <2>13 DEF Kept, SameRadio
  <2>18. Joins(s, u)
    BY <1>4, <2>12, <2>14, <2>15, <2>16, <2>17 DEF Joins
  <2> QED
    BY <2>13, <2>18 DEF u
<1>5. CASE s.currentPacket.type = "GTS_REQUEST"
  <2> DEFINE w == [t EXCEPT !.assignedGTS = f.slots]
  <2>1. u = clearCurrentPacket(n, w, b, d)
    BY <1>2, <1>5
  <2>2. f.slots \in Nat /\ f.slots \in {0, par.requestGTS}
    BY DEF Sound, AnyFrame, FrameOK
  <2>3. /\ w \in NodeState /\ SamePackets(t, w) /\ SameRadio(t, w) /\ w.timers = t.timers
        /\ w.associated = t.associated /\ w.macState = t.macState
        /\ w.assignedGTS = f.slots /\ w.lostBeacons = t.lostBeacons
        /\ w.capLeft = t.capLeft /\ w.gtsLeft = t.gtsLeft /\ w.adjacent = t.adjacent
        /\ w.disabled = t.disabled /\ w.guest = t.guest /\ w.carried = t.carried
    BY <1>3, <2>2 DEF NodeState, SamePackets, SameRadio
  <2> HIDE DEF w
  <2>4. Carries(n, w)
    BY <1>3, <2>3 DEF Fit, Carries, SameRadio, SamePackets
  <2>5. Counted(w)
    BY <1>3, <2>3 DEF Fit, Counted, Attempts, Sensed, Running, SamePackets
  <2>6. Ranged(w) /\ ~w.disabled
    BY <1>3, <2>2, <2>3 DEF Fit, Ranged
  <2>7. Served(w) /\ w.currentPacket = s.currentPacket
    BY <1>3, <2>3 DEF Served, SamePackets
  <2>8. Works(n, w, u)
    BY <2>1, <2>3, <2>4, <2>5, <2>6, <2>7, ClearOK DEF Fit
  <2>9. Fit(n, u) /\ Served(u) /\ Kept(w, u) /\ u.currentPacket.type # "ASSOCIATE"
    BY <1>5, <2>7, <2>8 DEF Works
  <2> HIDE DEF u
  <2>10. Joins(s, u)
    BY <1>3, <1>5, <2>3, <2>9 DEF Joins, Kept, SameOwn, SameRadio
  <2> QED
    BY <2>9, <2>10 DEF u
<1>6. CASE s.currentPacket.type \notin {"ASSOCIATE", "GTS_REQUEST"}
  <2>1. Works(n, t, u)
    BY <1>2, <1>3, <1>6, ClearOK, AgainOK
  <2>2. Works(n, s, u)
    BY <1>3, <2>1, WorksTwice
  <2> HIDE DEF u
  <2>3. Fit(n, u) /\ Served(u) /\ Joins(s, u)
    BY <1>6, <2>2 DEF Works, Joins, Kept, SameOwn
  <2> QED
    BY <2>3 DEF u
<1> QED
  BY <1>4, <1>5, <1>6

\* acceptNewPacket serves or buffers a packet for a node.
LEMMA AcceptOK ==
    ASSUME Setting, NEW n \in Node, NEW s, Fit(n, s), Served(s), NEW p, Servable(p),
           p.type = "DATA", NEW b \in Backoff, NEW d \in Exchange
    PROVE  LET t == acceptNewPacket(n, s, p, b, d)
           IN  /\ Works(n, s, t)
               /\ Running(s, "ATTEMPT_TX") => SameRadio(s, t) /\ t.timers = s.timers
<1> DEFINE t == acceptNewPacket(n, s, p, b, d)
<1>1. CASE s.associated /\ s.currentPacket = NoFrame
  <2>1. t = transmitPacket(n, s, p, b, d)
    BY <1>1 DEF acceptNewPacket
  <2> HIDE DEF t
  <2>2. /\ Fit(n, t) /\ Kept(s, t) /\ t.currentPacket = p
        /\ Running(s, "ATTEMPT_TX") => SameRadio(s, t) /\ t.timers = s.timers
    BY <2>1, NextPacketOK
  <2>3. Served(t)
    BY <2>2, NoFrameOK DEF Served
  <2> QED
    BY <2>2, <2>3 DEF Works, t
<1>2. CASE ~(s.associated /\ s.currentPacket = NoFrame)
  <2> DEFINE q == IF Len(s.TXBuffer) < macBufferSize THEN Append(s.TXBuffer, p) ELSE s.TXBuffer
  <2>1. s \in NodeState /\ s.TXBuffer \in Seq(AnyFrame) /\ p \in AnyFrame /\ Sound(p)
    BY DEF Fit, NodeState, Servable, Sound
  <2>2. /\ q \in Seq(AnyFrame) /\ Len(q) <= macBufferSize
        /\ \A i \in DOMAIN q : Sound(q[i]) /\ q[i].type = "DATA"
    <3>1. CASE Len(s.TXBuffer) < macBufferSize
      <4>1. q = Append(s.TXBuffer, p)
        BY <3>1
      <4>2. Len(s.TXBuffer) \in Nat /\ Len(q) = Len(s.TXBuffer) + 1 /\ q \in Seq(AnyFrame)
        BY <2>1, <4>1
      <4>3. \A i \in DOMAIN q : q[i] = p \/ (i \in DOMAIN s.TXBuffer /\ q[i] = s.TXBuffer[i])
        BY <2>1, <4>1
      <4>4. \A i \in DOMAIN s.TXBuffer : Sound(s.TXBuffer[i]) /\ s.TXBuffer[i].type = "DATA"
        BY DEF Fit, Carries
      <4>5. \A i \in DOMAIN q : Sound(q[i]) /\ q[i].type = "DATA"
        <5> HIDE DEF q
        <5> QED
          BY <2>1, <4>3, <4>4
      <4>6. Len(q) <= macBufferSize
        <5> HIDE DEF q
        <5> QED
          BY <3>1, <4>2 DEF Setting
      <4> QED
        BY <4>2, <4>5, <4>6
    <3>2. CASE ~(Len(s.TXBuffer) < macBufferSize)
      BY <2>1, <3>2 DEF Fit, Carries
    <3> QED
      BY <3>1, <3>2
  <2>3. t = WithBuffer(s, q)
    BY <1>2 DEF acceptNewPacket, WithBuffer
  <2> HIDE DEF q, t
  <2>4. /\ t \in NodeState /\ SameOwn(s, t) /\ SameRadio(s, t) /\ t.timers = s.timers
        /\ t.currentPacket = s.currentPacket /\ t.TXBuffer = q
        /\ t.NB = s.NB /\ t.CW = s.CW /\ t.retries = s.retries /\ t.tried = s.tried
    BY <2>1, <2>2, <2>3, BufferOK
  <2>5. Carries(n, t)
    BY <2>2, <2>4 DEF Fit, Carries, SameRadio
  <2>6. Counted(t)
    BY <2>4 DEF Fit, Counted, Attempts, Sensed, SameOwn, Running
  <2>7. Ranged(t) /\ ~t.disabled
    BY <2>4 DEF Fit, Ranged, SameOwn
  <2>8. Kept(s, t)
    BY <2>4 DEF Kept, SameRadio
  <2>9. Served(t)
    BY <1>2, <2>4 DEF Served, SameOwn
  <2> QED
    BY <2>4, <2>5, <2>6, <2>7, <2>8, <2>9 DEF Works, Fit, t
<1> QED
  BY <1>1, <1>2

-----------------------------------------------------------------------------
(* A node after a step of its own or of another. *)

\* A beacon on the air is left alone.
Undisturbed(s, t) ==
    \/ s.to = {} \/ s.frame.type # "BEACON"
    \/ /\ t.to = s.to /\ t.frame = s.frame
       /\ t.timers["ATTEMPT_TX"] = s.timers["ATTEMPT_TX"]

\* What the helpers leave of a node is in order again.
LEMMA WorksNode ==
    ASSUME Setting, NEW n \in Node, NEW s, NodeOK(n, s), ~s.disabled, NEW t, Works(n, s, t),
           n = Hub => Undisturbed(s, t)
    PROVE  NodeOK(n, t)
<1>1. /\ t \in NodeState /\ Carries(n, t) /\ Counted(t) /\ Ranged(t) /\ Served(t)
      /\ ~t.disabled /\ Kept(s, t)
      /\ t.currentPacket.type = "ASSOCIATE" => s.currentPacket.type = "ASSOCIATE"
  BY DEF Works, Fit
<1>2. /\ SameOwn(s, t) /\ (s.awake => t.awake)
      /\ \A x \in {"BEACON_TIMEOUT", "GTS_START", "SLEEP_START", "FRAME_START", "BACK_TO_SETUP"} :
           t.timers[x] = s.timers[x]
  BY <1>1 DEF Kept, Transmissions, Timer
<1>3. CASE n = Hub
  <2>1. Leads(s)
    BY <1>3 DEF NodeOK
  <2>2. t.frame.type = "BEACON" /\ t.to # {} =>
          /\ t.timers["ATTEMPT_TX"] = s.timers["ATTEMPT_TX"]
          /\ t.to = s.to /\ t.frame = s.frame
    BY <1>1, <1>3 DEF Kept, Own, Undisturbed
  <2>3. Leads(t)
    BY <1>1, <1>2, <2>1, <2>2 DEF Leads, SameOwn, Running
  <2> QED
    BY <1>1, <1>3, <2>3 DEF NodeOK
<1>4. CASE n # Hub
  <2>1. Timed(s) /\ Member(s)
    BY <1>4 DEF NodeOK
  <2>2. Timed(t)
    BY <1>1, <1>2, <2>1 DEF Timed, SameOwn, Running, Expects
  <2>3. Member(t)
    BY <1>1, <1>2, <2>1 DEF Member, SameOwn, Running, Expects
  <2> QED
    BY <1>1, <1>4, <2>2, <2>3 DEF NodeOK
<1> QED
  BY <1>3, <1>4

\* What the pace of a device depends on.
SamePace(s, t) ==
    /\ t.gtsLeft = s.gtsLeft /\ t.capLeft = s.capLeft
    /\ t.timers["FRAME_START"] = s.timers["FRAME_START"]
    /\ t.timers["BEACON_TIMEOUT"] = s.timers["BEACON_TIMEOUT"]

\* A device keeps its time when its timers stay.
LEMMA PacedSame ==
    ASSUME NEW h, NEW n, NEW s, NEW t, Paced(h, n, s), SamePace(s, t)
    PROVE  Paced(h, n, t)
BY DEF Paced, SamePace, Running

\* The helpers leave the pace alone.
LEMMA KeptPace ==
    ASSUME NEW s, NEW t, Kept(s, t)
    PROVE  SamePace(s, t)
BY DEF Kept, SameOwn, SamePace, Transmissions, Timer

\* What it depends on at the coordinator.
Leading(h, k) ==
    /\ k.disabled = h.disabled
    /\ k.timers["FRAME_START"] = h.timers["FRAME_START"]
    /\ k.frame.type = "BEACON" /\ k.to # {} => h.frame.type = "BEACON" /\ k.to \subseteq h.to

\* The devices keep time when the coordinator does.
LEMMA PacedLead ==
    ASSUME NEW h, NEW k, Leading(h, k), NEW n, NEW s, Paced(h, n, s)
    PROVE  Paced(k, n, s)
BY DEF Paced, Leading

\* The helpers leave the lead alone.
LEMMA KeptLead ==
    ASSUME NEW h, NEW k, Kept(h, k)
    PROVE  Leading(h, k)
BY DEF Kept, SameOwn, Leading, Transmissions, Timer, Own

\* One receiver less.
LEMMA TakenOK ==
    ASSUME Setting, NEW m \in Node, NEW n \in Node, NEW s, NodeOK(m, s), n \in s.to
    PROVE  LET t == Taken(s, n)
           IN  /\ NodeOK(m, t) /\ SamePace(s, t) /\ Leading(s, t)
               /\ n \notin t.to
               /\ SameOwn(s, t) /\ SamePackets(s, t) /\ t.timers = s.timers /\ t.awake = s.awake
<1> DEFINE a == [s EXCEPT !.to = @ \ {n}]
           f == IF s.to = {n} THEN NoFrame ELSE s.frame
           t == [a EXCEPT !.frame = f]
<1>1. s \in NodeState /\ f \in AnyFrame /\ Sound(f) /\ s.to \in SUBSET Node
      /\ NoFrame.type = "none"
  BY NoFrameOK DEF NodeOK, Carries, Sound, NodeState
<1>2. t = Taken(s, n)
  BY <1>1 DEF Taken, NodeState
<1>3. /\ a \in NodeState /\ SameOwn(s, a) /\ SamePackets(s, a) /\ a.timers = s.timers
      /\ a.awake = s.awake /\ a.frame = s.frame /\ a.to = s.to \ {n}
  BY <1>1 DEF NodeState, SameOwn, SamePackets
<1> HIDE DEF a, f
<1>4. /\ t \in NodeState /\ SameOwn(a, t) /\ SamePackets(a, t) /\ t.timers = a.timers
      /\ t.awake = a.awake /\ t.frame = f /\ t.to = a.to
  BY <1>1, <1>3 DEF NodeState, SameOwn, SamePackets
<1> HIDE DEF t
<1>5. SameOwn(s, t) /\ SamePackets(s, t) /\ t.timers = s.timers /\ t.awake = s.awake
      /\ t.frame = f /\ t.to = s.to \ {n}
  BY <1>3, <1>4 DEF SameOwn, SamePackets
<1>6. t.to # {} => f = s.frame
  BY <1>5 DEF f
<1>7. f.type = "BEACON" => m = Hub
  BY <1>1 DEF NodeOK, Carries, f
<1>8. Carries(m, t)
  BY <1>1, <1>5, <1>6, <1>7 DEF NodeOK, Carries, SamePackets
<1>9. Counted(t) /\ Served(t) /\ Ranged(t)
  BY <1>5 DEF NodeOK, Counted, Attempts, Sensed, Served, Ranged, SameOwn, SamePackets, Running
<1>10. m = Hub => Leads(t)
  BY <1>5, <1>6 DEF NodeOK, Leads, SameOwn, SamePackets, Running
<1>11. m # Hub => Timed(t) /\ Member(t)
  BY <1>5 DEF NodeOK, Timed, Member, SameOwn, SamePackets, Running, Expects
<1>12. NodeOK(m, t)
  BY <1>4, <1>8, <1>9, <1>10, <1>11 DEF NodeOK
<1>13. SamePace(s, t) /\ Leading(s, t) /\ n \notin t.to
  BY <1>5, <1>6 DEF SamePace, Leading, SameOwn
<1> QED
  BY <1>2, <1>5, <1>12, <1>13

\* The invariant of the nodes, said of their next states.
LEMMA Primed ==
    ASSUME par' = par, mac' \in [Node -> NodeState],
           \A n \in Node : NodeOK(n, mac'[n]),
           \A n \in Device : Paced(mac'[Hub], n, mac'[n])
    PROVE  NodesOK'
<1>1. ASSUME NEW n \in Node PROVE NodeOK(n, mac[n])'
  <2>1. NodeOK(n, mac'[n])
    OBVIOUS
  <2>2. Carries(n, mac[n])'
    BY <2>1 DEF NodeOK, Carries, Sound, FrameOK
  <2>3. Counted(mac[n])'
    BY <2>1 DEF NodeOK, Counted, Attempts, Sensed, Running
  <2>4. Served(mac[n])' /\ Ranged(mac[n])'
    BY <2>1 DEF NodeOK, Served, Ranged, Interval
  <2>5. n = Hub => Leads(mac[n])'
    BY <2>1 DEF NodeOK, Leads, Interval, Running
  <2>6. n # Hub => Timed(mac[n])' /\ Member(mac[n])'
    BY <2>1 DEF NodeOK, Timed, Member, Interval, Running, Expects
  <2> QED
    BY <2>1, <2>2, <2>3, <2>4, <2>5, <2>6 DEF NodeOK
<1>2. ASSUME NEW n \in Device PROVE Paced(mac[Hub], n, mac[n])'
  BY DEF Paced, Interval, Running
<1> QED
  BY <1>1, <1>2 DEF NodesOK

\* A step of node n alone.
LEMMA StepNode ==
    ASSUME Setting, NodesOK, par' = par, NEW n \in Node, NEW t, NodeOK(n, t), Becomes(n, t),
           n = Hub => \A m \in Device : Paced(t, m, mac[m]),
           n # Hub => Paced(mac[Hub], n, t)
    PROVE  NodesOK'
<1>1. mac' \in [Node -> NodeState] /\ mac'[n] = t /\ \A m \in Node \ {n} : mac'[m] = mac[m]
  BY DEF NodesOK, Becomes, NodeOK
<1>2. \A m \in Node : NodeOK(m, mac'[m])
  BY <1>1 DEF NodesOK
<1>3. \A m \in Device : Paced(mac'[Hub], m, mac'[m])
  BY <1>1 DEF NodesOK, Setting
<1> QED
  BY <1>1, <1>2, <1>3, Primed

\* A step of node n that takes a frame of m.
LEMMA StepTakes ==
    ASSUME Setting, NodesOK, par' = par, NEW m \in Node, NEW n \in Node, n \in mac[m].to,
           NEW t, NodeOK(n, t), Takes(m, n, t),
           n = Hub => \A k \in Device : Paced(t, k, mac[k]),
           n # Hub => Paced(IF m = Hub THEN Taken(mac[Hub], n) ELSE mac[Hub], n, t)
    PROVE  NodesOK'
<1> DEFINE u == Taken(mac[m], n)
<1>1. /\ NodeOK(m, u) /\ SamePace(mac[m], u) /\ Leading(mac[m], u)
      /\ m # n /\ u \in NodeState
  BY TakenOK DEF NodesOK, NodeOK, Carries
<1>2. /\ mac' \in [Node -> NodeState] /\ mac'[n] = t /\ mac'[m] = u
      /\ \A k \in Node \ {n, m} : mac'[k] = mac[k]
  BY <1>1 DEF NodesOK, Takes, NodeOK
<1> HIDE DEF u
<1>3. \A k \in Node : NodeOK(k, mac'[k])
  BY <1>1, <1>2 DEF NodesOK
<1>4. ASSUME NEW k \in Device PROVE Paced(mac'[Hub], k, mac'[k])
  <2>1. k \in Node /\ Hub \in Node /\ k # Hub
    BY DEF Setting
  <2>2. Paced(mac[Hub], k, mac[k])
    BY DEF NodesOK
  <2>3. CASE n = Hub
    <3>1. Paced(t, k, mac[k]) /\ mac'[Hub] = t
      BY <1>2, <2>3
    <3> QED
      BY <1>1, <1>2, <2>1, <2>3, <3>1, PacedSame
  <2>4. CASE m = Hub
    <3>1. mac'[Hub] = u /\ Paced(u, k, mac[k])
      BY <1>1, <1>2, <2>2, <2>4, PacedLead
    <3> QED
      BY <1>1, <1>2, <2>1, <2>4, <3>1 DEF u
  <2>5. CASE n # Hub /\ m # Hub
    <3>1. mac'[Hub] = mac[Hub]
      BY <1>2, <2>1, <2>5
    <3>2. CASE k = n
      BY <1>2, <2>5, <3>1, <3>2
    <3>3. CASE k = m
      BY <1>1, <1>2, <2>2, <3>1, <3>3, PacedSame
    <3>4. CASE k # n /\ k # m
      BY <1>2, <2>1, <2>2, <3>1, <3>4
    <3> QED
      BY <3>2, <3>3, <3>4
  <2> QED
    BY <2>3, <2>4, <2>5
<1> QED
  BY <1>2, <1>3, <1>4, Primed

\* Helpers at work in n: alone, or on a frame that was taken.
LEMMA StepWorks ==
    ASSUME Setting, NodesOK, par' = par, NEW n \in Node, ~mac[n].disabled,
           NEW t, Works(n, mac[n], t), n = Hub => Undisturbed(mac[n], t),
           \/ Becomes(n, t)
           \/ \E m \in Node : n \in mac[m].to /\ Takes(m, n, t)
    PROVE  NodesOK'
<1>1. NodeOK(n, mac[n]) /\ Kept(mac[n], t)
  BY DEF NodesOK, Works
<1>2. NodeOK(n, t)
  BY <1>1, WorksNode
<1>3. SamePace(mac[n], t) /\ Leading(mac[n], t)
  BY <1>1, KeptPace, KeptLead
<1>4. n = Hub => \A k \in Device : Paced(t, k, mac[k])
  BY <1>3, PacedLead DEF NodesOK
<1>5. n # Hub => Paced(mac[Hub], n, t)
  BY <1>3, PacedSame DEF NodesOK, Setting
<1>6. CASE Becomes(n, t)
  BY <1>2, <1>4, <1>5, <1>6, StepNode
<1>7. CASE \E m \in Node : n \in mac[m].to /\ Takes(m, n, t)
  <2>1. PICK m \in Node : n \in mac[m].to /\ Takes(m, n, t)
    BY <1>7
  <2>2. n # Hub => Paced(IF m = Hub THEN Taken(mac[Hub], n) ELSE mac[Hub], n, t)
    <3>1. m = Hub => Leading(mac[Hub], Taken(mac[Hub], n))
      BY <2>1, TakenOK DEF NodesOK
    <3> QED
      BY <1>5, <3>1, PacedLead
  <2> QED
    BY <1>2, <1>4, <2>1, <2>2, StepTakes
<1> QED
  BY <1>6, <1>7

-----------------------------------------------------------------------------
(* The timers of the helpers. *)

\* A node that does something is not disabled.
LEMMA DueOK ==
    ASSUME Setting, NodesOK, NEW n \in Node, NEW x \in Timer, Due(n, x)
    PROVE  ~mac[n].disabled /\ Fit(n, mac[n]) /\ Served(mac[n])
BY DEF NodesOK, NodeOK, Fit, Due, Ranged, Off

\* The radio is assessed and the channel found clear or busy: the counters after it.
LEMMA AssessOK ==
    ASSUME Setting, NEW n \in Node, NEW s, Fit(n, s), Served(s),
           s.timers["PERFORM_CCA"] = 0,
           NEW t, t = Stop(s, "PERFORM_CCA"), NEW NB, NEW CW, NEW r, NEW k,
           NB \in 0..(par.macMaxCSMABackoffs + 1), CW \in 0..2,
           r \in -1..par.macMaxFrameRetries, k \in 0..par.macMaxFrameRetries,
           s.currentPacket # NoFrame => r >= 0 /\ r + k = s.retries + s.tried
    PROVE  LET u == WithBackoffs(WithAttempts(t, r, k), NB, CW)
           IN  /\ Works(n, s, u) /\ u.currentPacket = s.currentPacket /\ u.TXBuffer = s.TXBuffer
               /\ u.NB = NB /\ u.CW = CW /\ u.retries = r /\ u.tried = k
               /\ u.macState = s.macState /\ ~Running(u, "PERFORM_CCA")
<1> DEFINE v == WithAttempts(t, r, k)
           u == WithBackoffs(v, NB, CW)
<1>1. /\ Works(n, s, t) /\ SamePackets(s, t) /\ SameRadio(s, t)
      /\ t.timers["PERFORM_CCA"] = Off
  BY StopFit DEF Transmissions
<1>2. t \in NodeState /\ NB \in Int /\ CW \in Int /\ r \in Int /\ k \in Int
  BY <1>1 DEF Works, Fit, Setting
<1>3. /\ v \in NodeState /\ SameOwn(t, v) /\ SameRadio(t, v) /\ v.timers = t.timers
      /\ v.currentPacket = t.currentPacket /\ v.TXBuffer = t.TXBuffer
      /\ v.NB = t.NB /\ v.CW = t.CW /\ v.retries = r /\ v.tried = k
  BY <1>2, AttemptsOK
<1> HIDE DEF v
<1>4. /\ u \in NodeState /\ SameOwn(v, u) /\ SameRadio(v, u) /\ u.timers = v.timers
      /\ u.currentPacket = v.currentPacket /\ u.TXBuffer = v.TXBuffer
      /\ u.retries = v.retries /\ u.tried = v.tried /\ u.NB = NB /\ u.CW = CW
  BY <1>2, <1>3, BackoffsOK
<1> HIDE DEF u
<1>5. /\ SameOwn(t, u) /\ SameRadio(t, u) /\ u.timers = t.timers
      /\ u.currentPacket = s.currentPacket /\ u.TXBuffer = s.TXBuffer
      /\ u.retries = r /\ u.tried = k /\ u.NB = NB /\ u.CW = CW
  BY <1>1, <1>3, <1>4 DEF SameOwn, SameRadio, SamePackets
<1>6. Fit(n, t) /\ Kept(s, t) /\ Served(t)
  BY <1>1 DEF Works
<1>7. Carries(n, u)
  BY <1>1, <1>5, <1>6 DEF Fit, Carries, SameRadio, SamePackets
<1>8. ~Running(u, "PERFORM_CCA")
  BY <1>1, <1>5 DEF Running
<1>9. Counted(u)
  <2>1. s.retries \in Int /\ s.tried \in Int
    BY DEF Fit, NodeState
  <2> QED
    BY <1>5, <1>8, <2>1 DEF Fit, Counted, Attempts, Sensed
<1>10. Ranged(u) /\ ~u.disabled
  BY <1>5, <1>6 DEF Fit, Ranged, SameOwn
<1>11. Kept(t, u)
  BY <1>5 DEF Kept, SameRadio
<1>12. Served(u) /\ u.macState = s.macState
  BY <1>5, <1>6 DEF Served, Kept, SameOwn
<1>13. Works(n, s, u)
  BY <1>4, <1>5, <1>6, <1>7, <1>9, <1>10, <1>11, <1>12, KeptTwice DEF Works, Fit
<1> QED
  BY <1>5, <1>8, <1>12, <1>13 DEF u, v

\* CSMA-CA goes on.
LEMMA BackoffOK ==
    ASSUME Setting, NEW n \in Node, NEW s, NEW u, Works(n, s, u), NEW b \in Backoff,
           u.retries >= 0, u.currentPacket # NoFrame => u.retries > 0,
           u.NB <= par.macMaxCSMABackoffs, u.CW > 0
    PROVE  Works(n, s, performCSMACA(u, b))
<1> DEFINE t == Set(u, "PERFORM_CCA", b)
<1>1. u \in NodeState /\ b \in Int /\ "PERFORM_CCA" \in Timer /\ b \in 0..par.maxBackoff
  BY DEF Works, Fit, Timer, Backoff, Setting
<1>2. /\ t \in NodeState /\ SameOwn(u, t) /\ SameRadio(u, t) /\ SamePackets(u, t)
      /\ \A x \in Timer : t.timers[x] = IF x = "PERFORM_CCA" THEN b ELSE u.timers[x]
  BY <1>1, SetOK
<1> HIDE DEF t
<1>3. Fit(n, u) /\ Served(u) /\ Kept(s, u)
  BY DEF Works
<1>4. Carries(n, t)
  BY <1>2, <1>3 DEF Fit, Carries, SameRadio, SamePackets
<1>5. Counted(t)
  BY <1>2, <1>3 DEF Fit, Counted, Attempts, Sensed, SameOwn, SamePackets
<1>6. Ranged(t) /\ ~t.disabled
  BY <1>1, <1>2, <1>3 DEF Fit, Ranged, SameOwn, Off, Setting, Timer, Transmissions
<1>7. Kept(u, t)
  BY <1>2 DEF Kept, SameRadio, Transmissions
<1>8. Served(t)
  BY <1>2, <1>3 DEF Served, SameOwn, SamePackets
<1>9. Works(n, u, t) /\ (u.currentPacket.type = "ASSOCIATE" => s.currentPacket.type = "ASSOCIATE")
  BY <1>2, <1>4, <1>5, <1>6, <1>7, <1>8 DEF Works, Fit, SamePackets
<1> QED
  BY <1>3, <1>9, WorksTwice DEF performCSMACA, t

\* The channel is assessed and clear.
LEMMA ClearChannelOK ==
    ASSUME Setting, NodesOK, par' = par, NEW n \in Node, CcaClear(n)
    PROVE  NodesOK'
<1> DEFINE s == mac[n]
           t == Stop(s, "PERFORM_CCA")
           k == s.CW - 1
           u == WithBackoffs(WithAttempts(t, s.retries, s.tried), s.NB, k)
<1>1. /\ ~s.disabled /\ Fit(n, s) /\ Served(s) /\ s.to = {}
      /\ s.timers["PERFORM_CCA"] = 0 /\ s.macState \notin {"GTS", "SLEEP"}
  BY DueOK DEF CcaClear, Fires, Timer, Assesses, Transmitting, Due
<1>2. /\ s.NB \in 0..par.macMaxCSMABackoffs /\ k \in 0..1 /\ s.CW \in Int
      /\ s.retries \in 0..par.macMaxFrameRetries /\ s.tried \in 0..par.macMaxFrameRetries
      /\ s.currentPacket # NoFrame => s.retries > 0
  BY <1>1 DEF Fit, Counted, Attempts, Sensed, Running, Off, NodeState
<1>3. t \in NodeState /\ SamePackets(s, t)
  BY <1>1, StopFit DEF Works, Fit, Transmissions
<1>4. [After(n, "PERFORM_CCA") EXCEPT !.CW = @ - 1] = u
  <2>1. t.retries = s.retries /\ t.tried = s.tried /\ t.NB = s.NB /\ t.CW = s.CW
    BY <1>3 DEF SamePackets
  <2> HIDE DEF t
  <2>2. [t EXCEPT !.CW = s.CW - 1] = u
    BY <1>3, <2>1 DEF WithBackoffs, WithAttempts, NodeState
  <2> QED
    BY <2>1, <2>2 DEF After, t
<1>5. /\ Works(n, s, u) /\ u.currentPacket = s.currentPacket /\ u.TXBuffer = s.TXBuffer
      /\ u.NB = s.NB /\ u.CW = k /\ u.retries = s.retries /\ u.macState = s.macState
      /\ ~Running(u, "PERFORM_CCA")
  <2>1. s.NB \in 0..(par.macMaxCSMABackoffs + 1) /\ k \in 0..2
    BY <1>2 DEF Setting
  <2>2. /\ s.retries \in -1..par.macMaxFrameRetries
        /\ s.currentPacket # NoFrame => s.retries >= 0
    BY <1>2 DEF Setting
  <2> HIDE DEF s, k, t
  <2> QED
    BY <1>1, <1>2, <2>1, <2>2, AssessOK DEF t
<1> HIDE DEF u
<1>6. CASE u.CW > 0
  <2>1. Becomes(n, performCSMACA(u, 0))
    BY <1>4, <1>6 DEF CcaClear
  <2>2. Works(n, s, performCSMACA(u, 0))
    <3>1. 0 \in Backoff
      BY DEF Backoff, Setting
    <3>2. u.retries >= 0 /\ u.NB <= par.macMaxCSMABackoffs
      BY <1>2, <1>5
    <3> QED
      BY <1>2, <1>5, <1>6, <3>1, <3>2, BackoffOK
  <2> QED
    BY <1>1, <2>1, <2>2, StepWorks DEF Undisturbed
<1>7. CASE ~(u.CW > 0)
  <2>1. PICK d \in Exchange : Becomes(n, transmitCurrentPacket(n, u, d))
    BY <1>4, <1>7 DEF CcaClear
  <2> DEFINE v == transmitCurrentPacket(n, u, d)
  <2>2. Ready(u) /\ Fit(n, u) /\ Served(u)
    BY <1>2, <1>5 DEF Ready, Works
  <2>3. Fit(n, v) /\ Kept(u, v) /\ v.currentPacket = u.currentPacket /\ v.TXBuffer = u.TXBuffer
    BY <1>5, <2>2, TransmitOK
  <2> HIDE DEF v
  <2>4. Works(n, u, v)
    BY <2>2, <2>3 DEF Works, Served, Kept, SameOwn
  <2>5. Works(n, s, v)
    BY <1>5, <2>4, WorksTwice DEF Works
  <2> QED
    BY <1>1, <2>1, <2>5, StepWorks DEF Undisturbed, v
<1> QED
  BY <1>6, <1>7

\* The channel is assessed and busy.
LEMMA BusyChannelOK ==
    ASSUME Setting, NodesOK, par' = par, NEW n \in Node, CcaBusy(n)
    PROVE  NodesOK'
<1> DEFINE s == mac[n]
           t == Stop(s, "PERFORM_CCA")
           j == s.NB + 1
           u == WithBackoffs(WithAttempts(t, s.retries, s.tried), j, FirstCW)
           failed == IF s.currentPacket = NoFrame THEN 0 ELSE 1
           w == WithBackoffs(WithAttempts(t, s.retries - 1, s.tried + failed), j, FirstCW)
           v == [After(n, "PERFORM_CCA") EXCEPT !.CW = FirstCW, !.NB = @ + 1]
<1>1. /\ ~s.disabled /\ Fit(n, s) /\ Served(s) /\ s.to = {}
      /\ s.timers["PERFORM_CCA"] = 0 /\ s.macState \notin {"GTS", "SLEEP"}
  BY DueOK DEF CcaBusy, Fires, Timer, Assesses, Transmitting, Due
<1>2. /\ s.NB \in 0..par.macMaxCSMABackoffs /\ FirstCW \in 1..2
      /\ s.retries \in 0..par.macMaxFrameRetries /\ s.tried \in 0..par.macMaxFrameRetries
      /\ s.currentPacket # NoFrame =>
           s.retries > 0 /\ s.tried + s.retries <= par.macMaxFrameRetries
      /\ j \in 0..(par.macMaxCSMABackoffs + 1) /\ FirstCW \in 0..2
  <2>1. /\ s.NB \in 0..par.macMaxCSMABackoffs
        /\ s.retries \in 0..par.macMaxFrameRetries /\ s.tried \in 0..par.macMaxFrameRetries
        /\ s.currentPacket # NoFrame =>
             s.retries > 0 /\ s.tried + s.retries <= par.macMaxFrameRetries
    <3> HIDE DEF s
    <3>1. Running(s, "PERFORM_CCA")
      BY <1>1 DEF Running, Off
    <3> QED
      BY <1>1, <3>1 DEF Fit, Counted, Attempts, Sensed, Setting
  <2>3. FirstCW \in 1..2
    BY DEF FirstCW
  <2>4. par.macMaxCSMABackoffs \in Nat
    BY DEF Setting
  <2> HIDE DEF s
  <2> QED
    BY <2>1, <2>3, <2>4
<1>3. t \in NodeState /\ SamePackets(s, t)
  BY <1>1, StopFit DEF Works, Fit, Transmissions
<1>4. v = u /\ [v EXCEPT !.retries = @ - 1, !.tried = @ + failed] = w /\ v.NB = j
  <2>1. t.retries = s.retries /\ t.tried = s.tried /\ t.NB = s.NB
    BY <1>3 DEF SamePackets
  <2> HIDE DEF t, failed
  <2>2. v = [t EXCEPT !.CW = FirstCW, !.NB = j]
    BY <2>1 DEF After, t
  <2>3. [t EXCEPT !.CW = FirstCW, !.NB = j] = u
    BY <1>3, <2>1 DEF WithBackoffs, WithAttempts, NodeState
  <2>4. u.retries = s.retries /\ u.tried = s.tried /\ u.NB = j
    BY <1>3 DEF WithBackoffs, WithAttempts, NodeState
  <2>5. [u EXCEPT !.retries = s.retries - 1, !.tried = s.tried + failed] = w
    BY <1>3 DEF WithBackoffs, WithAttempts, NodeState
  <2> QED
    BY <2>2, <2>3, <2>4, <2>5
<1>5. PICK b \in Backoff, d \in Exchange :
        Becomes(n, IF v.NB <= par.macMaxCSMABackoffs THEN performCSMACA(v, b)
                   ELSE attemptTransmission(n,
                          [v EXCEPT !.retries = @ - 1, !.tried = @ + failed], b, d))
  <2>1. v.currentPacket = s.currentPacket
    <3>1. t.currentPacket = s.currentPacket
      BY <1>3 DEF SamePackets
    <3> HIDE DEF t
    <3> QED
      BY <1>3, <3>1 DEF After, t, NodeState
  <2> QED
    BY <2>1 DEF CcaBusy
<1>6. CASE j <= par.macMaxCSMABackoffs
  <2>1. Becomes(n, performCSMACA(u, b))
    BY <1>4, <1>5, <1>6
  <2>2. /\ Works(n, s, u) /\ u.NB = j /\ u.CW = FirstCW /\ u.retries = s.retries
        /\ u.macState = s.macState
    <3>1. s.retries \in -1..par.macMaxFrameRetries
      BY <1>2
    <3> HIDE DEF s, t, j
    <3> QED
      BY <1>1, <1>2, <3>1, AssessOK DEF t
  <2>4. u.currentPacket = s.currentPacket
    <3>1. s.retries \in -1..par.macMaxFrameRetries
      BY <1>2
    <3> HIDE DEF s, t, j
    <3> QED
      BY <1>1, <1>2, <3>1, AssessOK DEF t
  <2> HIDE DEF u
  <2>3. Works(n, s, performCSMACA(u, b))
    <3>1. u.retries >= 0 /\ u.NB <= par.macMaxCSMABackoffs /\ u.CW > 0
      BY <1>2, <1>6, <2>2
    <3> HIDE DEF s
    <3> QED
      BY <1>2, <2>2, <2>4, <3>1, BackoffOK
  <2> QED
    BY <1>1, <2>1, <2>3, StepWorks DEF Undisturbed
<1>7. CASE ~(j <= par.macMaxCSMABackoffs)
  <2> DEFINE x == attemptTransmission(n, w, b, d)
  <2>1. Becomes(n, x)
    BY <1>4, <1>5, <1>7
  <2>2. /\ Works(n, s, w) /\ w.currentPacket = s.currentPacket
    <3>1. /\ s.retries - 1 \in -1..par.macMaxFrameRetries
          /\ s.tried + failed \in 0..par.macMaxFrameRetries
          /\ s.currentPacket # NoFrame =>
               s.retries - 1 >= 0 /\ (s.retries - 1) + (s.tried + failed) = s.retries + s.tried
      <4>1. CASE s.currentPacket = NoFrame
        <5>1. failed = 0
          BY <4>1
        <5> HIDE DEF failed, s
        <5> QED
          BY <1>2, <4>1, <5>1 DEF Setting
      <4>2. CASE s.currentPacket # NoFrame
        <5>1. failed = 1
          BY <4>2
        <5> HIDE DEF failed, s
        <5> QED
          BY <1>2, <4>2, <5>1 DEF Setting
      <4> QED
        BY <4>1, <4>2
    <3>2. PICK r \in -1..par.macMaxFrameRetries, k \in 0..par.macMaxFrameRetries :
            r = s.retries - 1 /\ k = s.tried + failed
      BY <3>1
    <3> HIDE DEF s, t, j, failed
    <3>3. w = WithBackoffs(WithAttempts(t, r, k), j, FirstCW)
      BY <3>2
    <3>4. s.currentPacket # NoFrame => r >= 0 /\ r + k = s.retries + s.tried
      BY <3>1, <3>2
    <3> HIDE DEF w
    <3> QED
      BY <1>1, <1>2, <3>3, <3>4, AssessOK DEF t
  <2> HIDE DEF w
  <2>3. Fit(n, w) /\ Served(w) /\ Kept(s, w)
    BY <2>2 DEF Works
  <2>4. Works(n, s, x)
    BY <2>2, <2>3, AgainOK, WorksTwice
  <2> QED
    BY <1>1, <2>1, <2>4, StepWorks DEF Undisturbed
<1> QED
  BY <1>6, <1>7

\* No answer has come.
LEMMA AckTimeoutOK ==
    ASSUME Setting, NodesOK, par' = par, NEW n \in Node, AckTimeout(n)
    PROVE  NodesOK'
<1> DEFINE s == mac[n]
           t == Stop(s, "ACK_TIMEOUT")
<1>1. ~s.disabled /\ Fit(n, s) /\ Served(s) /\ s.to = {}
  BY DueOK DEF AckTimeout, Fires, Timer, Transmitting
<1>2. PICK b \in Backoff, d \in Exchange : Becomes(n, attemptTransmission(n, t, b, d))
  BY DEF AckTimeout, After
<1> DEFINE u == attemptTransmission(n, t, b, d)
<1>3. Works(n, s, t) /\ t.currentPacket = s.currentPacket
  BY <1>1, StopFit DEF Transmissions
<1>4. Works(n, t, u)
  <2>1. Fit(n, t) /\ Served(t)
    BY <1>3 DEF Works
  <2> HIDE DEF t
  <2> QED
    BY <2>1, AgainOK
<1> HIDE DEF t, u
<1>5. Works(n, s, u)
  BY <1>3, <1>4, WorksTwice DEF Works
<1> QED
  BY <1>1, <1>2, <1>5, StepWorks DEF Undisturbed, u

\* It is time for another attempt.
LEMMA AttemptTxOK ==
    ASSUME Setting, NodesOK, par' = par, NEW n \in Node, AttemptTx(n)
    PROVE  NodesOK'
<1> DEFINE s == mac[n]
           t == Stop(s, "ATTEMPT_TX")
<1>1. ~s.disabled /\ Fit(n, s) /\ Served(s) /\ s.to = {}
  BY DueOK DEF AttemptTx, Fires, Timer, Transmitting
<1>2. Works(n, s, t) /\ t.currentPacket = s.currentPacket
  BY <1>1, StopFit DEF Transmissions
<1>3. CASE Running(t, "ACK_TIMEOUT")
  <2>1. Becomes(n, t)
    BY <1>3 DEF AttemptTx, After
  <2> HIDE DEF t
  <2> QED
    BY <1>1, <1>2, <2>1, StepWorks DEF Undisturbed
<1>4. CASE ~Running(t, "ACK_TIMEOUT")
  <2>1. PICK b \in Backoff, d \in Exchange : Becomes(n, attemptTransmission(n, t, b, d))
    BY <1>4 DEF AttemptTx, After
  <2> DEFINE u == attemptTransmission(n, t, b, d)
  <2>2. Works(n, t, u)
    <3>1. Fit(n, t) /\ Served(t)
      BY <1>2 DEF Works
    <3> HIDE DEF t
    <3> QED
      BY <3>1, AgainOK
  <2> HIDE DEF t, u
  <2>3. Works(n, s, u)
    BY <1>2, <2>2, WorksTwice DEF Works
  <2> QED
    BY <1>1, <2>1, <2>3, StepWorks DEF Undisturbed, u
<1> QED
  BY <1>3, <1>4

\* Where a node is in the superframe, and whether its radio is awake.
WithPlace(s, x, a) == [s EXCEPT !.macState = x, !.awake = a]

\* A node that moves in the superframe keeps all the rest, but for its timers.
Moved(s, t) ==
    /\ SamePackets(s, t) /\ t.frame = s.frame /\ t.to = s.to
    /\ t.associated = s.associated /\ t.assignedGTS = s.assignedGTS
    /\ t.lostBeacons = s.lostBeacons /\ t.capLeft = s.capLeft /\ t.gtsLeft = s.gtsLeft
    /\ t.adjacent = s.adjacent /\ t.disabled = s.disabled /\ t.guest = s.guest
    /\ t.carried = s.carried

\* Changing its place and its radio.
LEMMA PlaceOK ==
    ASSUME NEW s \in NodeState, NEW x \in MacState, NEW a \in BOOLEAN
    PROVE  LET t == WithPlace(s, x, a)
           IN  /\ t \in NodeState /\ Moved(s, t) /\ t.timers = s.timers
               /\ t.macState = x /\ t.awake = a
<1> DEFINE u == [s EXCEPT !.macState = x]
           t == [u EXCEPT !.awake = a]
<1>1. u \in NodeState /\ Moved(s, u) /\ u.timers = s.timers /\ u.macState = x
  BY DEF NodeState, Moved, SamePackets
<1>2. t = WithPlace(s, x, a)
  BY DEF WithPlace, NodeState
<1> HIDE DEF u
<1>3. t \in NodeState /\ Moved(u, t) /\ t.timers = u.timers /\ t.macState = u.macState /\ t.awake = a
  BY <1>1 DEF NodeState, Moved, SamePackets
<1> HIDE DEF t
<1> QED
  BY <1>1, <1>2, <1>3 DEF Moved, SamePackets

\* A timer alone.
LEMMA TimerOK ==
    ASSUME NEW s \in NodeState, NEW x \in Timer, NEW k \in Int
    PROVE  LET t == Set(s, x, k)
           IN  /\ t \in NodeState /\ Moved(s, t) /\ t.macState = s.macState /\ t.awake = s.awake
               /\ \A y \in Timer : t.timers[y] = IF y = x THEN k ELSE s.timers[y]
BY SetOK DEF Moved, SameOwn, SameRadio

\* A timer of the superframe is within its range.
LEMMA OwnTimer ==
    ASSUME Setting, NEW s \in NodeState, Ranged(s), NEW x \in Timer \ Transmissions
    PROVE  s.timers[x] \in Off..Interval
BY DEF Ranged, NodeState, Setting, Off

\* Timers that have run on, or been set within their ranges.
Schedules(s, t) ==
    \A x \in Timer :
        \/ t.timers[x] \in Off..s.timers[x]
        \/ x \notin Transmissions /\ t.timers[x] \in Off..Interval
        \/ x = "ATTEMPT_TX" /\ t.timers[x] \in Off..1

\* They are within their ranges.
LEMMA SchedulesOK ==
    ASSUME Setting, NEW s \in NodeState, NEW t \in NodeState, Ranged(s), Schedules(s, t),
           t.capLeft \in 0..Interval, t.gtsLeft \in 0..Interval, ~t.disabled,
           t.lostBeacons \in 0..par.maxLostBeacons, t.assignedGTS \in {0, par.requestGTS}
    PROVE  Ranged(t)
<1>1. /\ s.timers \in [Timer -> Int] /\ t.timers \in [Timer -> Int]
      /\ Interval \in Int /\ par.maxBackoff \in Nat /\ par.maxExchange \in Nat /\ Off = -1
  <2>1. s.timers \in [Timer -> Int] /\ t.timers \in [Timer -> Int]
    BY DEF NodeState
  <2>2. Interval \in Int /\ par.maxBackoff \in Nat /\ par.maxExchange \in Nat
    BY DEF Setting
  <2> QED
    BY <2>1, <2>2 DEF Off
<1>2. "PERFORM_CCA" \in Timer /\ "ACK_TIMEOUT" \in Timer /\ "ATTEMPT_TX" \in Timer
  BY DEF Timer
<1>3. ASSUME NEW x \in Timer PROVE t.timers[x] >= Off
  BY <1>1 DEF Schedules
<1>4. ASSUME NEW x \in Timer \ Transmissions PROVE t.timers[x] <= Interval
  <2>1. s.timers[x] \in Int /\ s.timers[x] <= Interval /\ t.timers[x] \in Int
    BY <1>1 DEF Ranged
  <2>2. x # "ATTEMPT_TX"
    BY DEF Transmissions
  <2>3. t.timers[x] \in Off..s.timers[x] \/ t.timers[x] \in Off..Interval
    BY <2>2 DEF Schedules
  <2> QED
    BY <1>1, <2>1, <2>3
<1>5. t.timers["PERFORM_CCA"] <= par.maxBackoff
  <2>1. s.timers["PERFORM_CCA"] <= par.maxBackoff
    BY DEF Ranged
  <2>2. t.timers["PERFORM_CCA"] \in Off..s.timers["PERFORM_CCA"]
    BY <1>2 DEF Schedules, Transmissions
  <2> QED
    BY <1>1, <1>2, <2>1, <2>2
<1>6. t.timers["ACK_TIMEOUT"] <= par.maxExchange
  <2>1. s.timers["ACK_TIMEOUT"] <= par.maxExchange
    BY DEF Ranged
  <2>2. t.timers["ACK_TIMEOUT"] \in Off..s.timers["ACK_TIMEOUT"]
    BY <1>2 DEF Schedules, Transmissions
  <2> QED
    BY <1>1, <1>2, <2>1, <2>2
<1>7. t.timers["ATTEMPT_TX"] <= par.maxExchange + 1
  <2>1. s.timers["ATTEMPT_TX"] <= par.maxExchange + 1
    BY DEF Ranged
  <2>2. \/ t.timers["ATTEMPT_TX"] \in Off..s.timers["ATTEMPT_TX"]
        \/ t.timers["ATTEMPT_TX"] \in Off..1
    BY <1>2 DEF Schedules, Transmissions
  <2> QED
    BY <1>1, <1>2, <2>1, <2>2
<1> QED
  BY <1>3, <1>4, <1>5, <1>6, <1>7 DEF Ranged

\* A device that has moved is in order when its timers and attempts are.
LEMMA MovedOK ==
    ASSUME Setting, NEW n \in Node, n # Hub, NEW s, NodeOK(n, s), ~s.disabled,
           NEW t \in NodeState, Moved(s, t), Timed(t), Member(t),
           Schedules(s, t),
           Running(t, "PERFORM_CCA") =>
             /\ Running(s, "PERFORM_CCA")
             /\ s.macState \in {"GTS", "SLEEP"} => t.macState \in {"GTS", "SLEEP"}
    PROVE  NodeOK(n, t)
<1>1. Carries(n, t)
  BY DEF NodeOK, Carries, Moved, SamePackets
<1>2. Counted(t)
  BY DEF NodeOK, Counted, Attempts, Sensed, Moved, SamePackets
<1>3. Served(t)
  BY DEF NodeOK, Served, Moved, SamePackets
<1>4. Ranged(t)
  <2>1. /\ t.capLeft \in 0..Interval /\ t.gtsLeft \in 0..Interval /\ ~t.disabled
        /\ t.lostBeacons \in 0..par.maxLostBeacons /\ t.assignedGTS \in {0, par.requestGTS}
        /\ Ranged(s) /\ s \in NodeState
    BY DEF NodeOK, Ranged, Moved
  <2> QED
    BY <2>1, SchedulesOK
<1> QED
  BY <1>1, <1>2, <1>3, <1>4 DEF NodeOK

\* A device, by the coordinator's clock.
LEMMA DeviceOK ==
    ASSUME Setting, NodesOK, NEW n \in Node, NEW x \in Timer, Due(n, x),
           x \in {"BEACON_TIMEOUT", "GTS_START", "SLEEP_START", "BACK_TO_SETUP"} \/ n # Hub
    PROVE  /\ n # Hub /\ ~mac[n].disabled /\ mac[n] \in NodeState /\ NodeOK(n, mac[n])
           /\ Timed(mac[n]) /\ Member(mac[n]) /\ Ranged(mac[n]) /\ Counted(mac[n])
           /\ Paced(mac[Hub], n, mac[n])
<1>1. NodeOK(n, mac[n]) /\ mac[n].timers[x] = 0
  BY DEF NodesOK, Due
<1>2. n # Hub
  BY <1>1 DEF NodeOK, Leads, Running, Off
<1> QED
  BY <1>1, <1>2, DueOK DEF NodeOK, NodesOK, Setting

\* The channel is not to be assessed.
LEMMA InVainOK ==
    ASSUME Setting, NodesOK, par' = par, NEW n \in Node, CcaInVain(n)
    PROVE  NodesOK'
<1> DEFINE s == mac[n]
           t == Stop(s, "PERFORM_CCA")
<1>1. ~s.disabled /\ Fit(n, s) /\ Served(s)
  BY DueOK DEF CcaInVain, Timer
<1>2. Works(n, s, t) /\ SameRadio(s, t)
  BY <1>1, StopFit DEF Transmissions
<1>3. t.timers["ATTEMPT_TX"] = s.timers["ATTEMPT_TX"]
  BY <1>1, StopOK DEF Fit, Timer
<1>4. Becomes(n, t)
  BY DEF CcaInVain, After
<1> HIDE DEF t
<1> QED
  BY <1>1, <1>2, <1>3, <1>4, StepWorks DEF Undisturbed, SameRadio

\* The radio has something else to do, or must wake up first.
LEMMA NotValidOK ==
    ASSUME Setting, NodesOK, par' = par, NEW n \in Node, CcaNotValid(n)
    PROVE  NodesOK'
<1> DEFINE s == mac[n]
           t == Stop(s, "PERFORM_CCA")
           u == WithPlace(t, t.macState, TRUE)
<1>1. ~s.disabled /\ Fit(n, s) /\ Served(s)
  BY DueOK DEF CcaNotValid, Timer
<1>2. Works(n, s, t) /\ SameRadio(s, t) /\ t \in NodeState
  BY <1>1, StopFit DEF Transmissions, Works, Fit
<1>3. t.timers["ATTEMPT_TX"] = s.timers["ATTEMPT_TX"]
  BY <1>1, StopOK DEF Fit, Timer
<1>4. Becomes(n, u)
  BY <1>2 DEF CcaNotValid, After, WithPlace, NodeState
<1>5. /\ u \in NodeState /\ Moved(t, u) /\ u.timers = t.timers
      /\ u.macState = t.macState /\ u.awake
  <2>1. t.macState \in MacState
    BY <1>2 DEF NodeState
  <2> HIDE DEF t
  <2> QED
    BY <1>2, <2>1, PlaceOK
<1> HIDE DEF t, u
<1>6. Carries(n, u)
  BY <1>2, <1>5 DEF Works, Fit, Carries, Moved, SamePackets
<1>7. Counted(u)
  BY <1>2, <1>5 DEF Works, Fit, Counted, Attempts, Sensed, Moved, SamePackets, Running
<1>8. Ranged(u) /\ Served(u) /\ ~u.disabled
  BY <1>2, <1>5 DEF Works, Fit, Ranged, Served, Moved, SamePackets
<1>9. Kept(t, u)
  BY <1>5 DEF Kept, Moved, SameOwn
<1>10. Works(n, t, u)
  BY <1>5, <1>6, <1>7, <1>8, <1>9 DEF Works, Fit, Moved, SamePackets
<1>11. Works(n, s, u)
  BY <1>2, <1>10, WorksTwice DEF Works
<1> QED
  BY <1>1, <1>2, <1>3, <1>4, <1>5, <1>11, StepWorks DEF Undisturbed, SameRadio, Moved

-----------------------------------------------------------------------------
(* The timers of the superframe. *)

\* A device begins to wait for the beacon.
LEMMA FrameStartOK ==
    ASSUME Setting, NodesOK, par' = par, NEW n \in Node, FrameStart(n)
    PROVE  NodesOK'
<1> DEFINE s == mac[n]
           t == Stop(s, "FRAME_START")
           u == WithPlace(t, t.macState, TRUE)
           v == Set(u, "BEACON_TIMEOUT", 2)
<1>1. /\ n # Hub /\ ~s.disabled /\ s \in NodeState /\ NodeOK(n, s)
      /\ Timed(s) /\ Member(s) /\ Ranged(s) /\ Counted(s) /\ Paced(mac[Hub], n, s)
      /\ s.timers["FRAME_START"] = 0
  BY DeviceOK DEF FrameStart, Timer, Due
<1>2. /\ t \in NodeState /\ Moved(s, t) /\ t.macState = s.macState
      /\ \A x \in Timer : t.timers[x] = IF x = "FRAME_START" THEN Off ELSE s.timers[x]
  <2>1. "FRAME_START" \in Timer
    BY DEF Timer
  <2> HIDE DEF s
  <2> QED
    BY <1>1, <2>1, StopOK DEF Moved, SameOwn, SameRadio
<1>3. t.macState \in MacState
  BY <1>2 DEF NodeState
<1>4. Becomes(n, v)
  <2>1. u = [t EXCEPT !.awake = TRUE]
    BY <1>2 DEF WithPlace, NodeState
  <2> QED
    BY <2>1 DEF FrameStart, After
<1> HIDE DEF t
<1>5. /\ u \in NodeState /\ Moved(t, u) /\ u.timers = t.timers
      /\ u.macState = t.macState /\ u.awake
  BY <1>2, <1>3, PlaceOK
<1> HIDE DEF u
<1>6. /\ v \in NodeState /\ Moved(u, v) /\ v.macState = u.macState /\ v.awake = u.awake
      /\ \A x \in Timer : v.timers[x] = IF x = "BEACON_TIMEOUT" THEN 2 ELSE u.timers[x]
  <2>1. "BEACON_TIMEOUT" \in Timer /\ 2 \in Int /\ u \in NodeState
    BY <1>5 DEF Timer
  <2> QED
    BY <2>1, TimerOK
<1> HIDE DEF v
<1>7. /\ Moved(s, v) /\ v.macState = s.macState /\ v.awake
      /\ v.timers["FRAME_START"] = Off /\ v.timers["BEACON_TIMEOUT"] = 2
      /\ \A x \in Timer \ {"FRAME_START", "BEACON_TIMEOUT"} : v.timers[x] = s.timers[x]
  <2>1. Moved(s, v)
    BY <1>2, <1>5, <1>6 DEF Moved, SamePackets
  <2> QED
    BY <1>2, <1>5, <1>6, <2>1 DEF Timer
<1> HIDE DEF s
<1>8. s.gtsLeft \in Int /\ s.timers \in [Timer -> Int]
  BY <1>1 DEF NodeState
<1>9. Timed(v)
  BY <1>1, <1>7, <1>8 DEF Timed, Running, Expects, Moved, Off, Timer, SamePackets
<1>10. Member(v)
  BY <1>1, <1>7 DEF Member, Running, Expects, Moved, Off, SamePackets, Timer
<1>11. Schedules(s, v)
  BY <1>1, <1>7, <1>8 DEF Schedules, Ranged, Off, Setting, Transmissions
<1>12. v.timers["PERFORM_CCA"] = s.timers["PERFORM_CCA"]
  BY <1>7 DEF Timer
<1>13. NodeOK(n, v)
  BY <1>1, <1>6, <1>7, <1>9, <1>10, <1>11, <1>12, MovedOK DEF Running
<1>14. Paced(mac[Hub], n, v)
  BY <1>1, <1>7 DEF Paced, Running, Off, Moved
<1> QED
  BY <1>1, <1>4, <1>13, <1>14, StepNode

\* Its slot begins.
LEMMA GtsStartOK ==
    ASSUME Setting, NodesOK, par' = par, NEW n \in Node, GtsStart(n)
    PROVE  NodesOK'
<1> DEFINE s == mac[n]
           t == Stop(s, "GTS_START")
           u == WithPlace(t, "GTS", TRUE)
           w == Set(u, "ATTEMPT_TX", 1)
           v == Set(w, "SLEEP_START", u.gtsLeft)
<1>1. /\ n # Hub /\ ~s.disabled /\ s \in NodeState /\ NodeOK(n, s)
      /\ Timed(s) /\ Member(s) /\ Ranged(s) /\ Counted(s) /\ Paced(mac[Hub], n, s)
      /\ s.timers["GTS_START"] = 0
  BY DeviceOK DEF GtsStart, Timer, Due
<1>2. /\ t \in NodeState /\ Moved(s, t)
      /\ \A x \in Timer : t.timers[x] = IF x = "GTS_START" THEN Off ELSE s.timers[x]
  <2>1. "GTS_START" \in Timer
    BY DEF Timer
  <2> HIDE DEF s
  <2> QED
    BY <1>1, <2>1, StopOK DEF Moved, SameOwn, SameRadio
<1>4. Becomes(n, v)
  BY DEF GtsStart, After, WithPlace
<1> HIDE DEF t
<1>5. /\ u \in NodeState /\ Moved(t, u) /\ u.timers = t.timers
      /\ u.macState = "GTS" /\ u.awake
  BY <1>2, PlaceOK DEF MacState
<1> HIDE DEF u
<1>6. /\ w \in NodeState /\ Moved(u, w) /\ w.macState = u.macState /\ w.awake = u.awake
      /\ \A x \in Timer : w.timers[x] = IF x = "ATTEMPT_TX" THEN 1 ELSE u.timers[x]
  <2>1. "ATTEMPT_TX" \in Timer /\ 1 \in Int /\ u \in NodeState
    BY <1>5 DEF Timer
  <2> QED
    BY <2>1, TimerOK
<1> HIDE DEF w
<1>7. /\ v \in NodeState /\ Moved(w, v) /\ v.macState = w.macState /\ v.awake = w.awake
      /\ \A x \in Timer : v.timers[x] = IF x = "SLEEP_START" THEN u.gtsLeft ELSE w.timers[x]
  <2>1. "SLEEP_START" \in Timer /\ u.gtsLeft \in Int
    BY <1>5 DEF Timer, NodeState
  <2> QED
    BY <1>6, <2>1, TimerOK
<1> HIDE DEF v
<1>8. /\ Moved(s, v) /\ v.macState = "GTS" /\ v.awake
      /\ v.timers["GTS_START"] = Off /\ v.timers["ATTEMPT_TX"] = 1
      /\ v.timers["SLEEP_START"] = s.gtsLeft
      /\ \A x \in Timer \ {"GTS_START", "ATTEMPT_TX", "SLEEP_START"} : v.timers[x] = s.timers[x]
  <2>1. Moved(s, v)
    BY <1>2, <1>5, <1>6, <1>7 DEF Moved, SamePackets
  <2>2. u.gtsLeft = s.gtsLeft
    BY <1>2, <1>5 DEF Moved
  <2> QED
    BY <1>2, <1>5, <1>6, <1>7, <2>1, <2>2 DEF Timer
<1> HIDE DEF s
<1>9. s.gtsLeft \in Int /\ s.timers \in [Timer -> Int] /\ par.requestGTS \in Nat
  BY <1>1 DEF NodeState, Setting
<1>10. /\ s.associated /\ s.gtsLeft >= 3 /\ Running(s, "FRAME_START")
       /\ s.gtsLeft <= s.timers["FRAME_START"] + 1 /\ ~Running(s, "BEACON_TIMEOUT")
  <2>1. s.associated /\ par.requestGTS > 0 /\ 0 = s.gtsLeft - 2 * par.requestGTS - 1
    BY <1>1 DEF Timed, Running, Off
  <2>2. s.gtsLeft >= 3
    BY <1>9, <2>1
  <2>3. Expects(s)
    BY <1>1, <1>9, <2>2 DEF Timed
  <2>4. ~Running(s, "BEACON_TIMEOUT")
    BY <1>1, <1>9, <2>2 DEF Timed, Timer
  <2> QED
    BY <1>1, <2>1, <2>2, <2>3, <2>4 DEF Timed, Expects
<1>11. Timed(v)
  BY <1>1, <1>8, <1>9, <1>10 DEF Timed, Running, Expects, Moved, Off, Timer, SamePackets
<1>12. Member(v)
  BY <1>1, <1>8, <1>10 DEF Member, Running, Expects, Moved, Off, SamePackets, Timer
<1>13. Schedules(s, v)
  <2>1. s.gtsLeft \in Off..Interval
    BY <1>1 DEF Ranged, Off, Setting
  <2> QED
    BY <1>1, <1>8, <1>9, <2>1 DEF Schedules, Ranged, Off, Setting, Transmissions
<1>15. v.timers["PERFORM_CCA"] = s.timers["PERFORM_CCA"]
  BY <1>8 DEF Timer
<1>16. NodeOK(n, v)
  <2>1. Running(v, "PERFORM_CCA") =>
          /\ Running(s, "PERFORM_CCA")
          /\ s.macState \in {"GTS", "SLEEP"} => v.macState \in {"GTS", "SLEEP"}
    BY <1>8, <1>15 DEF Running
  <2>2. v \in NodeState /\ Moved(s, v) /\ n # Hub /\ NodeOK(n, s) /\ ~s.disabled
    BY <1>1, <1>7, <1>8
  <2> QED
    BY <1>11, <1>12, <1>13, <2>1, <2>2, MovedOK
<1>17. SamePace(s, v)
  BY <1>8 DEF SamePace, Moved, Timer
<1>18. Paced(mac[Hub], n, v)
  BY <1>1, <1>17, PacedSame
<1> QED
  BY <1>1, <1>4, <1>16, <1>18, StepNode

\* It sleeps, unless it waits for a beacon.
LEMMA SleepStartOK ==
    ASSUME Setting, NodesOK, par' = par, NEW n \in Node, SleepStart(n)
    PROVE  NodesOK'
<1> DEFINE s == mac[n]
           t == Stop(s, "SLEEP_START")
<1>1. /\ n # Hub /\ ~s.disabled /\ s \in NodeState /\ NodeOK(n, s)
      /\ Timed(s) /\ Member(s) /\ Ranged(s) /\ Counted(s) /\ Paced(mac[Hub], n, s)
      /\ s.timers["SLEEP_START"] = 0
  BY DeviceOK DEF SleepStart, Timer, Due
<1>2. /\ t \in NodeState /\ Moved(s, t) /\ t.macState = s.macState /\ t.awake = s.awake
      /\ \A x \in Timer : t.timers[x] = IF x = "SLEEP_START" THEN Off ELSE s.timers[x]
  <2>1. "SLEEP_START" \in Timer
    BY DEF Timer
  <2> HIDE DEF s
  <2> QED
    BY <1>1, <2>1, StopOK DEF Moved, SameOwn, SameRadio
<1>3. s.timers \in [Timer -> Int] /\ s.gtsLeft \in Int
  BY <1>1 DEF NodeState
<1>4. CASE Running(t, "BEACON_TIMEOUT")
  <2>1. Becomes(n, t)
    BY <1>4 DEF SleepStart, After
  <2> HIDE DEF s, t
  <2>2. Timed(t)
    BY <1>1, <1>2, <1>3 DEF Timed, Running, Expects, Moved, Off, Timer
  <2>3. Member(t)
    BY <1>1, <1>2 DEF Member, Running, Expects, Moved, Off, SamePackets, Timer
  <2>4. Schedules(s, t)
    BY <1>1, <1>2, <1>3 DEF Schedules, Ranged, Off, Setting, Transmissions
  <2>5. t.timers["PERFORM_CCA"] = s.timers["PERFORM_CCA"]
    BY <1>2 DEF Timer
  <2>6. NodeOK(n, t)
    BY <1>1, <1>2, <2>2, <2>3, <2>4, <2>5, MovedOK DEF Running
  <2>7. Paced(mac[Hub], n, t)
    BY <1>1, <1>2, PacedSame DEF SamePace, Moved, Timer
  <2> QED
    BY <1>1, <2>1, <2>6, <2>7, StepNode DEF s
<1>5. CASE ~Running(t, "BEACON_TIMEOUT")
  <2> DEFINE u == WithPlace(t, "SLEEP", FALSE)
             v == Stop(u, "PERFORM_CCA")
  <2>1. Becomes(n, v)
    BY <1>5 DEF SleepStart, After, WithPlace
  <2> HIDE DEF t
  <2>2. /\ u \in NodeState /\ Moved(t, u) /\ u.timers = t.timers
        /\ u.macState = "SLEEP" /\ ~u.awake
    BY <1>2, PlaceOK DEF MacState
  <2> HIDE DEF u
  <2>3. /\ v \in NodeState /\ Moved(u, v) /\ v.macState = u.macState /\ v.awake = u.awake
        /\ \A x \in Timer : v.timers[x] = IF x = "PERFORM_CCA" THEN Off ELSE u.timers[x]
    <3>1. "PERFORM_CCA" \in Timer
      BY DEF Timer
    <3> QED
      BY <2>2, <3>1, StopOK DEF Moved, SameOwn, SameRadio
  <2> HIDE DEF v
  <2>4. /\ Moved(s, v) /\ v.macState = "SLEEP" /\ ~v.awake
        /\ v.timers["PERFORM_CCA"] = Off /\ v.timers["SLEEP_START"] = Off
        /\ \A x \in Timer \ {"PERFORM_CCA", "SLEEP_START"} : v.timers[x] = s.timers[x]
    <3>1. Moved(s, v)
      BY <1>2, <2>2, <2>3 DEF Moved, SamePackets
    <3> QED
      BY <1>2, <2>2, <2>3, <3>1 DEF Timer
  <2>5. ~Running(s, "BEACON_TIMEOUT")
    BY <1>2, <1>5 DEF Running, Timer
  <2> HIDE DEF s
  <2>6. s.associated /\ Running(s, "FRAME_START")
    BY <1>1, <2>5 DEF Timed, Running, Off, Expects
  <2>7. Timed(v)
    BY <1>1, <1>3, <2>4, <2>5, <2>6 DEF Timed, Running, Expects, Moved, Off, Timer
  <2>8. Member(v)
    BY <1>1, <2>4, <2>6 DEF Member, Running, Expects, Moved, Off, SamePackets, Timer
  <2>9. Schedules(s, v)
    BY <1>1, <1>3, <2>4 DEF Schedules, Ranged, Off, Setting, Transmissions
  <2>11. NodeOK(n, v)
    BY <1>1, <2>3, <2>4, <2>7, <2>8, <2>9, MovedOK DEF Running
  <2>12. Paced(mac[Hub], n, v)
    BY <1>1, <2>4, PacedSame DEF SamePace, Moved, Timer
  <2> QED
    BY <1>1, <2>1, <2>11, <2>12, StepNode
<1> QED
  BY <1>4, <1>5

\* A node that was not taken into the PAN starts over.
LEMMA BackToSetupOK ==
    ASSUME Setting, NodesOK, par' = par, NEW n \in Node, BackToSetup(n)
    PROVE  NodesOK'
<1> DEFINE s == mac[n]
           t == Stop(s, "BACK_TO_SETUP")
           u == WithPlace(t, "SETUP", t.awake)
           v == IF t.associated THEN t ELSE u
<1>1. /\ n # Hub /\ ~s.disabled /\ s \in NodeState /\ NodeOK(n, s)
      /\ Timed(s) /\ Member(s) /\ Ranged(s) /\ Counted(s) /\ Paced(mac[Hub], n, s)
  BY DeviceOK DEF BackToSetup, Timer
<1>2. /\ t \in NodeState /\ Moved(s, t) /\ t.macState = s.macState /\ t.awake = s.awake
      /\ \A x \in Timer : t.timers[x] = IF x = "BACK_TO_SETUP" THEN Off ELSE s.timers[x]
  <2>1. "BACK_TO_SETUP" \in Timer
    BY DEF Timer
  <2> HIDE DEF s
  <2> QED
    BY <1>1, <2>1, StopOK DEF Moved, SameOwn, SameRadio
<1>3. Becomes(n, v)
  <2>1. u = [t EXCEPT !.macState = "SETUP"]
    BY <1>2 DEF WithPlace, NodeState
  <2> QED
    BY <2>1 DEF BackToSetup, After
<1>4. t.awake \in BOOLEAN
  BY <1>2 DEF NodeState
<1> HIDE DEF t
<1>5. /\ u \in NodeState /\ Moved(t, u) /\ u.timers = t.timers
      /\ u.macState = "SETUP" /\ u.awake = t.awake
  <2>1. PICK a \in BOOLEAN : a = t.awake
    BY <1>4
  <2>2. "SETUP" \in MacState
    BY DEF MacState
  <2>3. u = WithPlace(t, "SETUP", a)
    BY <2>1
  <2> QED
    BY <1>2, <2>1, <2>2, <2>3, PlaceOK
<1> HIDE DEF u
<1>6. /\ v \in NodeState /\ Moved(s, v) /\ v.awake = s.awake
      /\ v.macState = s.macState \/ (v.macState = "SETUP" /\ ~s.associated)
      /\ v.timers["BACK_TO_SETUP"] = Off
      /\ \A x \in Timer \ {"BACK_TO_SETUP"} : v.timers[x] = s.timers[x]
  <2>1. "BACK_TO_SETUP" \in Timer
    BY DEF Timer
  <2>2. CASE t.associated
    BY <1>2, <2>1, <2>2
  <2>3. CASE ~t.associated
    <3>1. Moved(s, u)
      BY <1>2, <1>5 DEF Moved, SamePackets
    <3>2. ~s.associated
      BY <1>2, <2>3 DEF Moved
    <3> QED
      BY <1>2, <1>5, <2>1, <2>3, <3>1, <3>2
  <2> QED
    BY <2>2, <2>3
<1> HIDE DEF s, v
<1>7. Timed(v)
  BY <1>1, <1>6 DEF Timed, Running, Expects, Moved, Timer
<1>8. Member(v)
  <2>1. v.awake = s.awake /\ v.associated = s.associated /\ v.guest = s.guest
        /\ v.disabled = s.disabled /\ v.currentPacket = s.currentPacket
        /\ v.timers["FRAME_START"] = s.timers["FRAME_START"]
        /\ v.timers["BEACON_TIMEOUT"] = s.timers["BEACON_TIMEOUT"]
        /\ v.timers["GTS_START"] = s.timers["GTS_START"] /\ v.adjacent = s.adjacent
    BY <1>6 DEF Moved, SamePackets, Timer
  <2>2. v.macState = "SETUP" \/ v.macState = s.macState
    BY <1>6
  <2> QED
    BY <1>1, <2>1, <2>2 DEF Member, Running, Expects
<1>9. Schedules(s, v)
  <2>1. s.timers \in [Timer -> Int]
    BY <1>1 DEF NodeState
  <2> QED
    BY <1>1, <1>6, <2>1 DEF Schedules, Ranged, Off, Setting, Transmissions
<1>11. s.macState \in {"GTS", "SLEEP"} => v.macState = s.macState
  BY <1>1, <1>6 DEF Member
<1>12. v.timers["PERFORM_CCA"] = s.timers["PERFORM_CCA"]
  BY <1>6 DEF Timer
<1>13. NodeOK(n, v)
  BY <1>1, <1>6, <1>7, <1>8, <1>9, <1>11, <1>12, MovedOK DEF Running
<1>14. Paced(mac[Hub], n, v)
  BY <1>1, <1>6, PacedSame DEF SamePace, Moved, Timer
<1> QED
  BY <1>1, <1>3, <1>13, <1>14, StepNode

\* The beacons missed.
WithLost(s, k) == [s EXCEPT !.lostBeacons = k]

\* All that membership decides.
WithoutPAN(s) ==
    [s EXCEPT !.macState = "SETUP", !.associated = FALSE, !.assignedGTS = 0,
              !.currentPacket = NoFrame]

\* One beacon more is missed, at the end of the wait for it.
LEMMA MissedOK ==
    ASSUME Setting, NEW n \in Node, n # Hub, NEW s, NodeOK(n, s), ~s.disabled,
           s.timers["BEACON_TIMEOUT"] = 0, NEW h, Paced(h, n, s),
           ~h.disabled => h.timers["FRAME_START"] \in 0..Interval
    PROVE  LET t == WithLost(Stop(s, "BEACON_TIMEOUT"), s.lostBeacons + 1)
           IN  /\ t \in NodeState /\ Carries(n, t) /\ Counted(t) /\ Served(t)
               /\ Ranged(t) /\ Timed(t) /\ Paced(h, n, t)
               /\ t.lostBeacons = s.lostBeacons + 1
               /\ t.awake /\ t.gtsLeft = 0 /\ ~t.disabled
               /\ ~Running(t, "BEACON_TIMEOUT") /\ ~Running(t, "FRAME_START")
               /\ ~Running(t, "SLEEP_START") /\ ~Running(t, "GTS_START")
               /\ t.macState \in {"GTS", "SLEEP"} => t.associated
               /\ t.currentPacket.type = "ASSOCIATE" => ~t.associated /\ t.guest
               /\ t.macState = "CAP" /\ t.adjacent => t.guest
               /\ n \in h.to => h.frame.type # "BEACON"
               /\ ~h.disabled => h.timers["FRAME_START"] + 1 = Interval
<1> DEFINE u == Stop(s, "BEACON_TIMEOUT")
           k == s.lostBeacons + 1
           t == WithLost(u, k)
<1>1. /\ s \in NodeState /\ Timed(s) /\ Member(s) /\ Ranged(s) /\ Counted(s)
      /\ Carries(n, s) /\ Served(s)
      /\ s.timers \in [Timer -> Int] /\ s.gtsLeft \in Int /\ s.lostBeacons \in Int
  BY DEF NodeOK, NodeState
<1>2. /\ u \in NodeState /\ Moved(s, u) /\ u.macState = s.macState /\ u.awake = s.awake
      /\ \A x \in Timer : u.timers[x] = IF x = "BEACON_TIMEOUT" THEN Off ELSE s.timers[x]
  <2>1. "BEACON_TIMEOUT" \in Timer
    BY DEF Timer
  <2> QED
    BY <1>1, <2>1, StopOK DEF Moved, SameOwn, SameRadio
<1> HIDE DEF u
<1>3. k \in Int
  BY <1>1
<1> HIDE DEF k
<1>4. /\ t \in NodeState /\ SamePackets(u, t) /\ SameRadio(u, t) /\ t.timers = u.timers
      /\ t.macState = u.macState /\ t.associated = u.associated
      /\ t.assignedGTS = u.assignedGTS /\ t.capLeft = u.capLeft /\ t.gtsLeft = u.gtsLeft
      /\ t.adjacent = u.adjacent /\ t.disabled = u.disabled /\ t.guest = u.guest
      /\ t.carried = u.carried /\ t.lostBeacons = k
  BY <1>2, <1>3 DEF WithLost, NodeState, SamePackets, SameRadio
<1> HIDE DEF t
<1>5. /\ SamePackets(s, t) /\ SameRadio(s, t)
      /\ t.macState = s.macState /\ t.associated = s.associated
      /\ t.assignedGTS = s.assignedGTS /\ t.capLeft = s.capLeft /\ t.gtsLeft = s.gtsLeft
      /\ t.adjacent = s.adjacent /\ t.disabled = s.disabled /\ t.guest = s.guest
      /\ t.carried = s.carried /\ t.timers["BEACON_TIMEOUT"] = Off
      /\ \A x \in Timer \ {"BEACON_TIMEOUT"} : t.timers[x] = s.timers[x]
  <2>1. "BEACON_TIMEOUT" \in Timer
    BY DEF Timer
  <2> QED
    BY <1>2, <1>4, <2>1 DEF Moved, SamePackets, SameRadio
<1>6. /\ ~Running(s, "FRAME_START") /\ s.gtsLeft = 0 /\ s.lostBeacons < par.maxLostBeacons
      /\ ~Running(s, "SLEEP_START") /\ ~Running(s, "GTS_START") /\ s.awake
  <2>1. Running(s, "BEACON_TIMEOUT")
    BY DEF Running, Off
  <2>2. ~Running(s, "FRAME_START") /\ s.lostBeacons < par.maxLostBeacons
    BY <1>1, <2>1 DEF Timed, Expects
  <2>3. s.gtsLeft = 0
    BY <1>1, <2>1 DEF Timed, Ranged
  <2>4. ~Running(s, "SLEEP_START")
    BY <1>1, <2>1 DEF Timed, Ranged, Running, Off, Timer
  <2>5. ~Running(s, "GTS_START")
    <3>1. SUFFICES ASSUME Running(s, "GTS_START")
                   PROVE  FALSE
      OBVIOUS
    <3>2. s.timers["GTS_START"] = s.gtsLeft - 2 * par.requestGTS - 1 /\ par.requestGTS > 0
      BY <1>1, <3>1 DEF Timed
    <3>3. s.timers["GTS_START"] >= -1 /\ par.requestGTS \in Nat
      BY <1>1 DEF Ranged, Timer, Off, Setting
    <3> QED
      BY <1>1, <2>3, <3>2, <3>3
  <2>6. s.awake
    BY <1>1, <2>2 DEF Member
  <2> QED
    BY <2>2, <2>3, <2>4, <2>5, <2>6
<1>7. /\ ~Running(t, "FRAME_START") /\ ~Running(t, "BEACON_TIMEOUT")
      /\ ~Running(t, "SLEEP_START") /\ ~Running(t, "GTS_START")
  BY <1>5, <1>6 DEF Running, Timer
<1>8. Carries(n, t)
  BY <1>1, <1>5 DEF Carries, SamePackets, SameRadio
<1>9. Counted(t) /\ Served(t)
  BY <1>1, <1>5 DEF Counted, Attempts, Sensed, Served, SamePackets, Running, Timer
<1>10. Ranged(t)
  <2>1. k \in 0..par.maxLostBeacons
    BY <1>1, <1>6 DEF Ranged, k, Setting
  <2>2. Schedules(s, t)
    BY <1>1, <1>5 DEF Schedules, Ranged, Setting, Off, Transmissions
  <2>3. /\ t.capLeft \in 0..Interval /\ t.gtsLeft \in 0..Interval /\ ~t.disabled
        /\ t.assignedGTS \in {0, par.requestGTS} /\ t.lostBeacons \in 0..par.maxLostBeacons
    BY <1>1, <1>4, <1>5, <2>1 DEF Ranged
  <2> QED
    BY <1>1, <1>4, <2>2, <2>3, SchedulesOK
<1>11. Timed(t)
  BY <1>1, <1>5, <1>6, <1>7 DEF Timed, Expects, Off
<1>13. n \in h.to => h.frame.type # "BEACON"
  BY DEF Paced, Off
<1>14. ~h.disabled => h.timers["FRAME_START"] + 1 = Interval
  <2> DEFINE left == h.timers["FRAME_START"]
  <2>1. SUFFICES ASSUME ~h.disabled
                 PROVE  left + 1 = Interval
    OBVIOUS
  <2>2. 0 = left + 1 \/ 0 = left + 1 - Interval
    BY <2>1 DEF Paced, Running, Off
  <2>3. left \in 0..Interval /\ Interval \in Nat
    BY <2>1 DEF Setting
  <2> HIDE DEF left
  <2> QED
    BY <2>2, <2>3
<1>15. Paced(h, n, t)
  BY <1>5, <1>7, <1>13 DEF Paced
<1>16. /\ t.macState \in {"GTS", "SLEEP"} => t.associated
       /\ t.currentPacket.type = "ASSOCIATE" => ~t.associated /\ t.guest
       /\ t.macState = "CAP" /\ t.adjacent => t.guest
  BY <1>1, <1>5, <1>6 DEF Member, SamePackets
<1> QED
  BY <1>4, <1>5, <1>6, <1>7, <1>8, <1>9, <1>10, <1>11, <1>13, <1>14, <1>15, <1>16
     DEF SameRadio, t, k, u

\* After too many, the PAN is lost, and with it the packet in service.
LEMMA LosePAN ==
    ASSUME NEW s \in NodeState, NoFrame \in AnyFrame
    PROVE  LET t == WithoutPAN(s)
           IN  /\ t \in NodeState /\ SameRadio(s, t) /\ t.timers = s.timers
               /\ t.macState = "SETUP" /\ ~t.associated /\ t.assignedGTS = 0
               /\ t.currentPacket = NoFrame /\ t.TXBuffer = s.TXBuffer
               /\ t.retries = s.retries /\ t.tried = s.tried /\ t.NB = s.NB /\ t.CW = s.CW
               /\ t.lostBeacons = s.lostBeacons /\ t.capLeft = s.capLeft
               /\ t.gtsLeft = s.gtsLeft /\ t.disabled = s.disabled
               /\ t.adjacent = s.adjacent /\ t.guest = s.guest /\ t.carried = s.carried
<1> DEFINE u == WithPacket(s, NoFrame)
           v == [u EXCEPT !.macState = "SETUP"]
           w == [v EXCEPT !.associated = FALSE]
           t == [w EXCEPT !.assignedGTS = 0]
           Rest(x, y) == /\ y.TXBuffer = x.TXBuffer /\ y.retries = x.retries /\ y.tried = x.tried
                         /\ y.NB = x.NB /\ y.CW = x.CW /\ y.timers = x.timers
                         /\ y.lostBeacons = x.lostBeacons /\ y.capLeft = x.capLeft
                         /\ y.gtsLeft = x.gtsLeft /\ y.disabled = x.disabled /\ SameRadio(x, y)
                         /\ y.adjacent = x.adjacent /\ y.guest = x.guest
                         /\ y.carried = x.carried
<1>1. u \in NodeState /\ Rest(s, u) /\ u.currentPacket = NoFrame
  BY PacketOK DEF SameOwn
<1>2. t = WithoutPAN(s)
  BY DEF WithoutPAN, WithPacket, NodeState
<1> HIDE DEF u
<1>3. v \in NodeState /\ Rest(u, v) /\ v.currentPacket = u.currentPacket /\ v.macState = "SETUP"
  BY <1>1 DEF NodeState, SameRadio, MacState
<1> HIDE DEF v
<1>4. /\ w \in NodeState /\ Rest(v, w) /\ w.currentPacket = v.currentPacket
      /\ w.macState = v.macState /\ ~w.associated
  BY <1>3 DEF NodeState, SameRadio
<1> HIDE DEF w
<1>5. /\ t \in NodeState /\ Rest(w, t) /\ t.currentPacket = w.currentPacket
      /\ t.macState = w.macState /\ t.associated = w.associated /\ t.assignedGTS = 0
  BY <1>4 DEF NodeState, SameRadio
<1> HIDE DEF t
<1>6. Rest(s, t)
  BY <1>1, <1>3, <1>4, <1>5 DEF SameRadio
<1> QED
  BY <1>1, <1>2, <1>3, <1>4, <1>5, <1>6

\* The coordinator's clock runs.
LEMMA HubClock ==
    ASSUME Setting, NodesOK, ~mac[Hub].disabled
    PROVE  mac[Hub].timers["FRAME_START"] \in 0..Interval
<1> DEFINE h == mac[Hub]
<1>1. h \in NodeState /\ Ranged(h) /\ Leads(h)
  BY DEF NodesOK, NodeOK, Setting
<1> HIDE DEF h
<1>2. h.timers["FRAME_START"] \in Off..Interval
  BY <1>1, OwnTimer DEF Timer, Transmissions
<1>3. h.timers["FRAME_START"] # Off
  BY <1>1 DEF Leads, Running, h
<1>4. h.timers["FRAME_START"] \in 0..Interval
  BY <1>2, <1>3 DEF Off, Setting
<1> QED
  BY <1>4 DEF h

\* The beacon has not come.
LEMMA BeaconTimeoutOK ==
    ASSUME Setting, NodesOK, par' = par, NEW n \in Node, BeaconTimeout(n)
    PROVE  NodesOK'
<1> DEFINE s == mac[n]
           t == WithLost(Stop(s, "BEACON_TIMEOUT"), s.lostBeacons + 1)
           h == mac[Hub]
<1>1. /\ n # Hub /\ ~s.disabled /\ s \in NodeState /\ NodeOK(n, s)
      /\ Paced(h, n, s) /\ s.timers["BEACON_TIMEOUT"] = 0
  BY DeviceOK DEF BeaconTimeout, Timer, Due
<1>2. ~h.disabled => h.timers["FRAME_START"] \in 0..Interval
  BY HubClock
<1>3. /\ t \in NodeState /\ Carries(n, t) /\ Counted(t) /\ Served(t)
      /\ Ranged(t) /\ Timed(t) /\ Paced(h, n, t)
      /\ t.lostBeacons = s.lostBeacons + 1
      /\ t.awake /\ t.gtsLeft = 0 /\ ~t.disabled
      /\ ~Running(t, "BEACON_TIMEOUT") /\ ~Running(t, "FRAME_START")
      /\ ~Running(t, "SLEEP_START") /\ ~Running(t, "GTS_START")
      /\ t.macState \in {"GTS", "SLEEP"} => t.associated
      /\ t.currentPacket.type = "ASSOCIATE" => ~t.associated /\ t.guest
      /\ t.macState = "CAP" /\ t.adjacent => t.guest
      /\ n \in h.to => h.frame.type # "BEACON"
      /\ ~h.disabled => h.timers["FRAME_START"] + 1 = Interval
  <2> HIDE DEF s, h
  <2> QED
    BY <1>1, <1>2, MissedOK
<1>4. [After(n, "BEACON_TIMEOUT") EXCEPT !.lostBeacons = @ + 1] = t
  <2>1. Stop(s, "BEACON_TIMEOUT").lostBeacons = s.lostBeacons
    BY <1>1, StopOK DEF Timer, SameOwn
  <2> QED
    BY <2>1 DEF After, WithLost
<1>5. \/ t.lostBeacons >= par.maxLostBeacons /\ Becomes(n, WithoutPAN(t))
      \/ /\ t.lostBeacons < par.maxLostBeacons /\ t.associated
         /\ Becomes(n, Set(WithPlace(t, "SLEEP", FALSE), "FRAME_START", Interval - 2))
      \/ t.lostBeacons < par.maxLostBeacons /\ ~t.associated /\ Becomes(n, t)
  <2>1. t.lostBeacons \in Int /\ par.maxLostBeacons \in Nat
    BY <1>3 DEF NodeState, Setting
  <2>2. Becomes(n,
             IF t.lostBeacons >= par.maxLostBeacons
             THEN [t EXCEPT !.macState = "SETUP", !.associated = FALSE,
                            !.assignedGTS = 0, !.currentPacket = NoFrame]
             ELSE IF t.associated
             THEN Set([t EXCEPT !.macState = "SLEEP", !.awake = FALSE],
                      "FRAME_START", Interval - 2)
             ELSE t)
    BY <1>4 DEF BeaconTimeout
  <2> HIDE DEF t
  <2> QED
    BY <2>1, <2>2 DEF WithoutPAN, WithPlace
<1> HIDE DEF t
<1>6. CASE t.lostBeacons >= par.maxLostBeacons /\ Becomes(n, WithoutPAN(t))
  <2> DEFINE u == WithoutPAN(t)
  <2>1. NoFrame.type = "none" /\ Sound(NoFrame) /\ NoFrame \in AnyFrame
    BY NoFrameOK DEF Sound
  <2>2. /\ u \in NodeState /\ SameRadio(t, u) /\ u.timers = t.timers
        /\ u.macState = "SETUP" /\ ~u.associated /\ u.assignedGTS = 0
        /\ u.currentPacket = NoFrame /\ u.TXBuffer = t.TXBuffer
        /\ u.retries = t.retries /\ u.tried = t.tried /\ u.NB = t.NB /\ u.CW = t.CW
        /\ u.lostBeacons = t.lostBeacons /\ u.capLeft = t.capLeft
        /\ u.gtsLeft = t.gtsLeft /\ u.disabled = t.disabled
    BY <1>3, <2>1, LosePAN
  <2> HIDE DEF u
  <2>3. Carries(n, u)
    BY <1>3, <2>1, <2>2 DEF Carries, SameRadio
  <2>4. Counted(u)
    BY <1>3, <2>2 DEF Counted, Attempts, Sensed, Running
  <2>5. Served(u) /\ Ranged(u)
    BY <1>3, <2>2 DEF Served, Ranged
  <2>6. Timed(u)
    BY <1>3, <2>2 DEF Timed, Expects, Running
  <2>7. Member(u)
    BY <1>3, <2>1, <2>2 DEF Member, SameRadio
  <2>8. NodeOK(n, u)
    BY <1>1, <2>2, <2>3, <2>4, <2>5, <2>6, <2>7 DEF NodeOK
  <2>9. Paced(h, n, u)
    BY <1>3, <2>2, PacedSame DEF SamePace
  <2> QED
    BY <1>1, <1>6, <2>8, <2>9, StepNode DEF u
<1>7. CASE /\ t.lostBeacons < par.maxLostBeacons /\ t.associated
           /\ Becomes(n, Set(WithPlace(t, "SLEEP", FALSE), "FRAME_START", Interval - 2))
  <2> DEFINE u == WithPlace(t, "SLEEP", FALSE)
             v == Set(u, "FRAME_START", Interval - 2)
  <2>1. /\ u \in NodeState /\ Moved(t, u) /\ u.timers = t.timers
        /\ u.macState = "SLEEP" /\ ~u.awake
    BY <1>3, PlaceOK DEF MacState
  <2> HIDE DEF u
  <2>2. PICK k \in 0..Interval : k = Interval - 2
    BY DEF Setting
  <2>3. /\ v \in NodeState /\ Moved(u, v) /\ v.macState = u.macState /\ v.awake = u.awake
        /\ \A x \in Timer : v.timers[x] = IF x = "FRAME_START" THEN k ELSE u.timers[x]
    <3>1. "FRAME_START" \in Timer /\ k \in Int
      BY <2>2 DEF Timer
    <3>2. v = Set(u, "FRAME_START", k)
      BY <2>2
    <3> HIDE DEF v
    <3> QED
      BY <2>1, <3>1, <3>2, TimerOK
  <2> HIDE DEF v
  <2>4. /\ Moved(t, v) /\ v.macState = "SLEEP" /\ ~v.awake /\ v.timers["FRAME_START"] = k
        /\ \A x \in Timer \ {"FRAME_START"} : v.timers[x] = t.timers[x]
    <3>1. Moved(t, v)
      BY <2>1, <2>3 DEF Moved, SamePackets
    <3> QED
      BY <2>1, <2>3, <3>1 DEF Timer
  <2>5. Carries(n, v) /\ Served(v)
    BY <1>3, <2>4 DEF Carries, Served, Moved, SamePackets
  <2>6. Counted(v)
    BY <1>3, <2>4 DEF Counted, Attempts, Sensed, Moved, SamePackets, Running, Timer
  <2>7. Ranged(v)
    BY <1>3, <2>2, <2>4 DEF Ranged, Moved, Off, Timer
  <2>8. Timed(v)
    BY <1>3, <1>7, <2>2, <2>4 DEF Timed, Moved, Running, Expects, Off, Timer, Setting
  <2>9. Member(v)
    <3>1. Running(v, "FRAME_START") /\ v.associated
      BY <1>7, <2>2, <2>4 DEF Running, Off, Moved
    <3>2. t.currentPacket.type # "ASSOCIATE"
      BY <1>3, <1>7
    <3> QED
      BY <2>4, <3>1, <3>2 DEF Member, Expects, Moved, SamePackets
  <2>10. NodeOK(n, v)
    BY <1>1, <2>3, <2>5, <2>6, <2>7, <2>8, <2>9 DEF NodeOK
  <2>11. Paced(h, n, v)
    <3> HIDE DEF h
    <3>1. /\ v.gtsLeft = t.gtsLeft /\ v.capLeft = t.capLeft /\ ~Running(v, "BEACON_TIMEOUT")
          /\ v.timers["FRAME_START"] = Interval - 2
      BY <1>3, <2>2, <2>4 DEF Moved, Running, Timer
    <3>2. ~h.disabled => Interval - 2 = h.timers["FRAME_START"] - 1
      BY <1>2, <1>3 DEF Setting
    <3> QED
      BY <1>3, <3>1, <3>2 DEF Paced
  <2> QED
    BY <1>1, <1>7, <2>10, <2>11, StepNode DEF u, v
<1>8. CASE t.lostBeacons < par.maxLostBeacons /\ ~t.associated /\ Becomes(n, t)
  <2>1. Member(t)
    BY <1>3, <1>8 DEF Member
  <2>2. NodeOK(n, t)
    BY <1>1, <1>3, <2>1 DEF NodeOK
  <2> QED
    BY <1>1, <1>3, <1>8, <2>2, StepNode
<1> QED
  BY <1>5, <1>6, <1>7, <1>8

-----------------------------------------------------------------------------
(* Frames and packets. *)

\* What is left of the CAP and where a slot ends, for k slots of the same length.
LEMMA SlotsFit ==
    ASSUME Setting, NEW k \in Nat
    PROVE  /\ CAPend(k) \in Int /\ CAPend(k) <= 2 * numSuperframeSlots
           /\ \A j \in 0..k : CAPend(k) <= CAPend(j)
           /\ \A j \in 1..k : /\ gtsEnd(j) \in Int /\ gtsEnd(j) <= 2 * numSuperframeSlots
                              /\ gtsEnd(j) - 2 * par.requestGTS = CAPend(j)
<1>1. /\ par.requestGTS \in Nat /\ numSuperframeSlots \in Nat
  BY DEF Setting
<1>2. \A i, j \in Nat : i * par.requestGTS \in Nat
                         /\ (i + j) * par.requestGTS = i * par.requestGTS + j * par.requestGTS
  BY <1>1
<1>3. ASSUME NEW j \in 0..k
      PROVE  j * par.requestGTS \in Nat /\ j * par.requestGTS <= k * par.requestGTS
  <2>1. j \in Nat /\ \E i \in Nat : k = j + i
    <3>1. k - j \in Nat /\ k = j + (k - j)
      OBVIOUS
    <3> QED
      BY <3>1
  <2>2. PICK i \in Nat : k = j + i
    BY <2>1
  <2>3. k * par.requestGTS = j * par.requestGTS + i * par.requestGTS
    BY <1>2, <2>1, <2>2
  <2>4. j * par.requestGTS \in Nat /\ i * par.requestGTS \in Nat
    BY <1>2, <2>1
  <2>5. PICK p \in Nat, q \in Nat : p = j * par.requestGTS /\ q = i * par.requestGTS
    BY <2>4
  <2>6. k * par.requestGTS = p + q
    BY <2>3, <2>5
  <2> QED
    BY <2>5, <2>6
<1>4. ASSUME NEW j \in 0..k PROVE CAPend(k) <= CAPend(j)
  <2>1. PICK p \in Nat, q \in Nat :
          p = j * par.requestGTS /\ q = k * par.requestGTS /\ p <= q
    BY <1>2, <1>3
  <2>2. CAPend(j) = 2 * (numSuperframeSlots - p) /\ CAPend(k) = 2 * (numSuperframeSlots - q)
    BY <2>1 DEF CAPend, gtsStart
  <2> QED
    BY <1>1, <2>1, <2>2
<1>5. CAPend(k) \in Int /\ CAPend(k) <= 2 * numSuperframeSlots
  <2>1. PICK q \in Nat : q = k * par.requestGTS
    BY <1>2
  <2>2. CAPend(k) = 2 * (numSuperframeSlots - q)
    BY <2>1 DEF CAPend, gtsStart
  <2> QED
    BY <1>1, <2>1, <2>2
<1>6. ASSUME NEW j \in 1..k
      PROVE  /\ gtsEnd(j) \in Int /\ gtsEnd(j) <= 2 * numSuperframeSlots
             /\ gtsEnd(j) - 2 * par.requestGTS = CAPend(j)
  <2>1. j - 1 \in Nat /\ 1 \in Nat /\ j = (j - 1) + 1
    OBVIOUS
  <2>2. /\ (j - 1) * par.requestGTS \in Nat
        /\ j * par.requestGTS = (j - 1) * par.requestGTS + 1 * par.requestGTS
    BY <1>2, <2>1
  <2>3. PICK p \in Nat, q \in Nat : p = (j - 1) * par.requestGTS /\ q = j * par.requestGTS
                                    /\ q = p + par.requestGTS
    BY <1>1, <2>2
  <2>4. gtsEnd(j) = 2 * (numSuperframeSlots - q) + 2 * par.requestGTS
    BY <2>3 DEF gtsEnd, gtsStart
  <2>5. CAPend(j) = 2 * (numSuperframeSlots - q)
    BY <2>3 DEF CAPend, gtsStart
  <2> QED
    BY <1>1, <2>3, <2>4, <2>5
<1> QED
  BY <1>4, <1>5, <1>6

\* An ACK is sent at once.
LEMMA ReplyOK ==
    ASSUME Setting, NEW n \in Node, NEW s, Fit(n, s), Served(s),
           NEW f, Sound(f), f.type = "ACK"
    PROVE  Works(n, s, Reply(n, s, f))
<1> DEFINE u == Send(n, s, f)
           t == Set(u, "ATTEMPT_TX", 0)
<1>1. /\ u \in NodeState /\ SameOwn(s, u) /\ SamePackets(s, u) /\ u.timers = s.timers
      /\ u.frame = f /\ u.awake
      /\ u.to \subseteq Node \ {n}
  <2>1. f \in AnyFrame /\ s \in NodeState
    BY DEF Sound, Fit
  <2> QED
    BY <2>1, SendOK
<1> HIDE DEF u
<1>2. Fit(n, u)
  <2>1. f # NoFrame
    BY DEF NoFrame
  <2>2. Carries(n, u)
    BY <1>1, <2>1 DEF Fit, Carries, SamePackets
  <2>3. Counted(u) /\ Ranged(u) /\ ~u.disabled
    BY <1>1 DEF Fit, Counted, Attempts, Sensed, Ranged, SameOwn, SamePackets, Running
  <2> QED
    BY <1>1, <2>2, <2>3 DEF Fit
<1>3. Fit(n, t) /\ Kept(u, t) /\ SamePackets(u, t) /\ SameRadio(u, t)
  BY <1>2, SetFit
<1> HIDE DEF t
<1>4. Kept(s, t)
  BY <1>1, <1>3 DEF Kept, SameOwn, SameRadio
<1>5. Served(t)
  BY <1>1, <1>3 DEF Served, SameOwn, SamePackets, Kept
<1>6. t = Reply(n, s, f)
  BY DEF t, u, Reply
<1> QED
  BY <1>1, <1>3, <1>4, <1>5, <1>6 DEF Works, SamePackets

\* A node that a frame reaches.
LEMMA ArrivesOK ==
    ASSUME Setting, NodesOK, NEW m \in Node, NEW n \in Node, NEW type, Arrives(m, n, type)
    PROVE  /\ m # n /\ n \in mac[m].to /\ mac[m].frame.type = type /\ Sound(mac[m].frame)
           /\ NodeOK(n, mac[n]) /\ Fit(n, mac[n]) /\ Served(mac[n])
           /\ mac[n].awake /\ mac[n].to = {} /\ ~mac[n].disabled
BY DEF Arrives, Transmitting, NodesOK, NodeOK, Fit, Carries

\* A frame for one of the PAN's addresses.
LEMMA AckFrameOK ==
    ASSUME Setting, NEW m \in Node, NEW k \in 0..par.maxPackets, NEW j \in {0, par.requestGTS}
    PROVE  Sound(Frame("ACK", m, k, j)) /\ Frame("ACK", m, k, j).type = "ACK"
BY DEF Setting, Sound, Frame, AnyFrame, FrameOK, FrameType

\* The coordinator takes a node into the PAN.
LEMMA ReceiveAssociateOK ==
    ASSUME Setting, NodesOK, ListOK, par' = par, NEW m \in Node, ReceiveAssociate(m)
    PROVE  NodesOK' /\ ListOK'
<1> DEFINE f == Frame("ACK", m, 0, 0)
           t == Reply(Hub, mac[Hub], f)
<1>1. Hub \in Node /\ 0 \in 0..par.maxPackets /\ 0 \in {0, par.requestGTS}
  BY DEF Setting
<1>2. Sound(f) /\ f.type = "ACK"
  BY <1>1, AckFrameOK
<1> HIDE DEF f
<1>3. /\ Arrives(m, Hub, "ASSOCIATE") /\ Takes(m, Hub, t)
      /\ hub' = [hub EXCEPT !.associatedDevices = @ \cup {m}]
  BY DEF ReceiveAssociate, f
<1>4. /\ Fit(Hub, mac[Hub]) /\ Served(mac[Hub]) /\ mac[Hub].to = {} /\ m # Hub
      /\ Hub \in mac[m].to /\ ~mac[Hub].disabled
  BY <1>1, <1>3, ArrivesOK
<1>5. Works(Hub, mac[Hub], t)
  BY <1>1, <1>2, <1>4, ReplyOK
<1> HIDE DEF t
<1>6. NodesOK'
  BY <1>1, <1>3, <1>4, <1>5, StepWorks DEF Undisturbed
<1>7. m \in Device
  BY <1>4 DEF Setting
<1>8. /\ hub' \in [associatedDevices : SUBSET Device, GTSlist : Seq(Device), announced : Nat]
      /\ hub'.GTSlist = hub.GTSlist /\ hub'.announced = hub.announced
  BY <1>3, <1>7 DEF ListOK
<1>9. ListOK'
  BY <1>8 DEF ListOK, CAPend, gtsStart
<1> QED
  BY <1>6, <1>9

\* It grants a slot, or none.
LEMMA ReceiveGtsRequestOK ==
    ASSUME Setting, NodesOK, ListOK, par' = par, NEW m \in Node, ReceiveGtsRequest(m)
    PROVE  NodesOK' /\ ListOK'
<1> DEFINE j == IF Listed(m) \/ Accommodates(m) THEN par.requestGTS ELSE 0
           f == Frame("ACK", m, 0, j)
           t == Reply(Hub, mac[Hub], f)
<1>1. Hub \in Node /\ 0 \in 0..par.maxPackets /\ j \in {0, par.requestGTS}
  BY DEF Setting
<1>2. /\ Arrives(m, Hub, "GTS_REQUEST") /\ Takes(m, Hub, t)
      /\ hub' = IF ~Listed(m) /\ Accommodates(m) THEN [hub EXCEPT !.GTSlist = Append(@, m)]
                ELSE hub
  BY DEF ReceiveGtsRequest
<1> HIDE DEF j
<1>3. Sound(f) /\ f.type = "ACK"
  BY <1>1, AckFrameOK
<1> HIDE DEF f
<1>4. /\ Fit(Hub, mac[Hub]) /\ Served(mac[Hub]) /\ mac[Hub].to = {} /\ m # Hub
      /\ Hub \in mac[m].to /\ ~mac[Hub].disabled
      /\ Sound(mac[m].frame) /\ mac[m].frame.type = "GTS_REQUEST"
  BY <1>1, <1>2, ArrivesOK
<1>5. Works(Hub, mac[Hub], t)
  BY <1>1, <1>3, <1>4, ReplyOK
<1> HIDE DEF t
<1>6. NodesOK'
  BY <1>1, <1>2, <1>4, <1>5, StepWorks DEF Undisturbed
<1>7. m \in Device /\ par.requestGTS > 0
  BY <1>4 DEF Setting, Sound
<1>8. CASE ~(~Listed(m) /\ Accommodates(m))
  <2>1. hub' = hub
    BY <1>2, <1>8
  <2>2. ListOK'
    BY <2>1 DEF ListOK, CAPend, gtsStart
  <2> QED
    BY <1>6, <2>2
<1>9. CASE ~Listed(m) /\ Accommodates(m)
  <2> DEFINE q == hub.GTSlist
             r == Append(q, m)
  <2>1. q \in Seq(Device) /\ hub.announced \in Nat /\ hub.announced <= Len(q)
    BY DEF ListOK
  <2>2. /\ hub' \in [associatedDevices : SUBSET Device, GTSlist : Seq(Device), announced : Nat]
        /\ hub'.GTSlist = r /\ hub'.announced = hub.announced
    <3>1. r \in Seq(Device)
      BY <1>7, <2>1
    <3>2. hub' = [hub EXCEPT !.GTSlist = r]
      BY <1>2, <1>9
    <3> HIDE DEF r
    <3> QED
      BY <3>1, <3>2 DEF ListOK
  <2>3. /\ Len(r) = Len(q) + 1 /\ r[Len(q) + 1] = m /\ \A i \in 1..Len(q) : r[i] = q[i]
        /\ DOMAIN r = 1..(Len(q) + 1) /\ DOMAIN q = 1..Len(q) /\ Len(q) \in Nat
    BY <1>7, <2>1
  <2>4. \A i \in DOMAIN q : q[i] # m
    BY <1>9 DEF Listed
  <2>5. \A i, k \in DOMAIN q : q[i] = q[k] => i = k
    BY DEF ListOK
  <2> HIDE DEF r, q
  <2>6. \A i, k \in DOMAIN r : r[i] = r[k] => i = k
    BY <2>3, <2>4, <2>5
  <2>7. Len(q) < MaxGTS /\ CAPend(Len(q) + 1) >= 2 * minCAPLength
    BY <1>9 DEF Accommodates, q
  <2>8. /\ Len(r) <= MaxGTS /\ CAPend(Len(r)) >= 2 * minCAPLength /\ hub.announced <= Len(r)
    BY <2>1, <2>3, <2>7 DEF MaxGTS, q
  <2>9. ListOK'
    BY <1>7, <2>2, <2>6, <2>8 DEF ListOK, CAPend, gtsStart
  <2> QED
    BY <1>6, <2>9
<1> QED
  BY <1>8, <1>9

\* Data arrives, and is acknowledged unless it was for all.
LEMMA ReceiveDataOK ==
    ASSUME Setting, NodesOK, par' = par, NEW m \in Node, NEW n \in Node, ReceiveData(m, n)
    PROVE  NodesOK'
<1> DEFINE s == mac[n]
           g == mac[m].frame
           f == Frame("ACK", m, g.sn - 1, 0)
<1>1. Arrives(m, n, "DATA") /\ Takes(m, n, IF g.dst = BROADCAST THEN s ELSE Reply(n, s, f))
  BY DEF ReceiveData
<1>2. /\ Fit(n, s) /\ Served(s) /\ s.to = {} /\ ~s.disabled /\ n \in mac[m].to
      /\ Sound(g) /\ g.type = "DATA"
  BY <1>1, ArrivesOK
<1>3. CASE g.dst = BROADCAST
  <2>1. Works(n, s, s)
    BY <1>2, KeptSelf DEF Works
  <2> QED
    BY <1>1, <1>2, <1>3, <2>1, StepWorks DEF Undisturbed
<1>4. CASE g.dst # BROADCAST
  <2>1. g.sn - 1 \in 0..par.maxPackets /\ 0 \in {0, par.requestGTS}
    BY <1>2 DEF Sound, FrameOK, Setting
  <2>2. Sound(f) /\ f.type = "ACK"
    <3> HIDE DEF g
    <3> QED
      BY <2>1, AckFrameOK
  <2> HIDE DEF f, g
  <2>3. Works(n, s, Reply(n, s, f))
    BY <1>2, <2>2, ReplyOK
  <2>4. Takes(m, n, Reply(n, s, f))
    BY <1>1, <1>4
  <2> QED
    BY <1>2, <2>3, <2>4, StepWorks DEF Undisturbed
<1> QED
  BY <1>3, <1>4

\* An ACK arrives, for what is in service or too late.
LEMMA ReceiveAckOK ==
    ASSUME Setting, NodesOK, par' = par, NEW m \in Node, NEW n \in Node, ReceiveAck(m, n)
    PROVE  NodesOK'
<1> DEFINE s == mac[n]
           f == mac[m].frame
           p == s.currentPacket
<1>1. /\ Arrives(m, n, "ACK")
      /\ IF p = NoFrame THEN Takes(m, n, s)
         ELSE \E b \in Backoff, d \in Exchange : Takes(m, n, handleAckPacket(n, s, f, b, d))
  BY DEF ReceiveAck
<1>2. /\ NodeOK(n, s) /\ Fit(n, s) /\ Served(s) /\ s.awake /\ s.to = {} /\ ~s.disabled
      /\ n \in mac[m].to /\ Sound(f) /\ f.type = "ACK" /\ m # n
  BY <1>1, ArrivesOK
<1>3. CASE p = NoFrame
  <2>1. Works(n, s, s)
    BY <1>2, KeptSelf DEF Works
  <2> QED
    BY <1>1, <1>2, <1>3, <2>1, StepWorks DEF Undisturbed
<1>4. CASE p # NoFrame
  <2>1. PICK b \in Backoff, d \in Exchange : Takes(m, n, handleAckPacket(n, s, f, b, d))
    BY <1>1, <1>4
  <2> DEFINE t == handleAckPacket(n, s, f, b, d)
  <2>2. p.type = "ASSOCIATE" => s.macState \notin {"GTS", "SLEEP"} /\ ~s.associated
    BY <1>2 DEF NodeOK, Member, Leads
  <2>3. Fit(n, t) /\ Served(t) /\ Joins(s, t)
    <3> HIDE DEF s, f
    <3> QED
      BY <1>2, <1>4, <2>2, AckOK
  <2>4. Takes(m, n, t)
    BY <2>1
  <2> HIDE DEF t, s, f
  <2>5. \A x \in {"BEACON_TIMEOUT", "GTS_START", "SLEEP_START", "FRAME_START", "BACK_TO_SETUP"} :
          t.timers[x] = s.timers[x]
    BY <2>3 DEF Joins, Transmissions, Timer
  <2>6. NodeOK(n, t)
    <3>1. t \in NodeState /\ Carries(n, t) /\ Counted(t) /\ Served(t) /\ Ranged(t) /\ ~t.disabled
      BY <2>3 DEF Fit
    <3>2. n = Hub => Leads(t)
      BY <1>2, <2>3, <2>5 DEF NodeOK, Leads, Joins, Running, Own
    <3>3. n # Hub => Timed(t)
      BY <1>2, <2>3, <2>5 DEF NodeOK, Timed, Joins, Running, Expects
    <3>4. n # Hub => Member(t)
      BY <1>2, <2>2, <2>3, <2>5 DEF NodeOK, Member, Joins, Running, Expects
    <3> QED
      BY <3>1, <3>2, <3>3, <3>4 DEF NodeOK
  <2>7. SamePace(s, t) /\ Leading(s, t)
    BY <2>3, <2>5 DEF SamePace, Leading, Joins, Own
  <2>8. n = Hub => \A k \in Device : Paced(t, k, mac[k])
    BY <2>7, PacedLead DEF NodesOK, s
  <2>9. n # Hub => Paced(IF m = Hub THEN Taken(mac[Hub], n) ELSE mac[Hub], n, t)
    <3>1. n # Hub => Paced(mac[Hub], n, t)
      BY <2>7, PacedSame DEF NodesOK, Setting, s
    <3>2. m = Hub => Leading(mac[Hub], Taken(mac[Hub], n))
      BY <1>2, TakenOK DEF NodesOK
    <3> QED
      BY <3>1, <3>2, PacedLead
  <2> QED
    BY <1>2, <2>4, <2>6, <2>8, <2>9, StepTakes
<1> QED
  BY <1>3, <1>4

\* A frame is lost.
LEMMA LoseOK ==
    ASSUME Setting, NodesOK, par' = par, NEW m \in Node, NEW n \in Node, Lose(m, n)
    PROVE  NodesOK'
<1> DEFINE t == Taken(mac[m], n)
<1>1. n \in mac[m].to /\ Becomes(m, t)
  BY DEF Lose
<1>2. NodeOK(m, t) /\ SamePace(mac[m], t) /\ Leading(mac[m], t)
  BY <1>1, TakenOK DEF NodesOK
<1> HIDE DEF t
<1>3. m = Hub => \A k \in Device : Paced(t, k, mac[k])
  BY <1>2, PacedLead DEF NodesOK
<1>4. m # Hub => Paced(mac[Hub], m, t)
  BY <1>2, PacedSame DEF NodesOK, Setting
<1> QED
  BY <1>1, <1>2, <1>3, <1>4, StepNode

\* A packet is handed down.
LEMMA FromNetworkLayerOK ==
    ASSUME Setting, NodesOK, sent \in [Node -> Seq(Address)], par' = par,
           NEW n \in Node, NEW dst \in Address, FromNetworkLayer(n, dst)
    PROVE  NodesOK'
<1> DEFINE s == mac[n]
           p == Frame("DATA", dst, Len(sent[n]) + 1, 0)
<1>1. PICK b \in Backoff, d \in Exchange : Becomes(n, acceptNewPacket(n, s, p, b, d))
  BY DEF FromNetworkLayer
<1>2. Fit(n, s) /\ Served(s) /\ ~s.disabled /\ NodeOK(n, s)
  BY DEF FromNetworkLayer, NodesOK, NodeOK, Fit
<1>3. Servable(p) /\ p.type = "DATA"
  <2>1. PICK k \in 1..par.maxPackets : k = Len(sent[n]) + 1
    <3>1. Len(sent[n]) \in Nat /\ Len(sent[n]) < par.maxPackets
      BY DEF FromNetworkLayer
    <3> QED
      BY <3>1 DEF Setting
  <2> QED
    BY <2>1 DEF Servable, Sound, Frame, AnyFrame, FrameOK, FrameType, Own, Setting
<1> DEFINE t == acceptNewPacket(n, s, p, b, d)
<1>4. Works(n, s, t) /\ (Running(s, "ATTEMPT_TX") => SameRadio(s, t) /\ t.timers = s.timers)
  <2> HIDE DEF s, p
  <2> QED
    BY <1>2, <1>3, AcceptOK
<1>5. Becomes(n, t)
  BY <1>1
<1> HIDE DEF t
<1>6. n = Hub /\ s.frame.type = "BEACON" /\ s.to # {} => Running(s, "ATTEMPT_TX")
  BY <1>2 DEF NodeOK, Leads, Running, Off
<1>7. n = Hub => Undisturbed(s, t)
  BY <1>4, <1>6 DEF Undisturbed, SameRadio
<1> QED
  BY <1>2, <1>4, <1>5, <1>7, StepWorks

\* A node dies, and takes no further step.
LEMMA DisableOK ==
    ASSUME Setting, NodesOK, par' = par, NEW n \in Node, Disable(n)
    PROVE  NodesOK'
<1> DEFINE s == mac[n]
           u == [s EXCEPT !.disabled = TRUE]
           off == [x \in Timer |-> Off]
           t == [u EXCEPT !.timers = off]
<1>1. NodeOK(n, s) /\ s \in NodeState
  BY DEF NodesOK, NodeOK
<1>2. Becomes(n, t)
  BY <1>1 DEF Disable, NodeState
<1>3. /\ u \in NodeState /\ u.disabled /\ SamePackets(s, u) /\ SameRadio(s, u)
      /\ u.macState = s.macState /\ u.associated = s.associated /\ u.guest = s.guest
      /\ u.carried = s.carried
      /\ u.assignedGTS = s.assignedGTS /\ u.lostBeacons = s.lostBeacons
      /\ u.capLeft = s.capLeft /\ u.gtsLeft = s.gtsLeft /\ u.adjacent = s.adjacent
  BY <1>1 DEF NodeState, SamePackets, SameRadio
<1> HIDE DEF u
<1>4. /\ t \in NodeState /\ t.disabled /\ SamePackets(u, t) /\ SameRadio(u, t) /\ SameOwn(u, t)
      /\ \A x \in Timer : t.timers[x] = Off
  <2>1. off \in [Timer -> Int] /\ \A x \in Timer : off[x] = Off
    BY DEF Off
  <2> HIDE DEF off
  <2>2. /\ t \in NodeState /\ SamePackets(u, t) /\ SameRadio(u, t) /\ SameOwn(u, t)
        /\ t.timers = off
    BY <1>3, <2>1 DEF NodeState, SamePackets, SameRadio, SameOwn
  <2> QED
    BY <1>3, <2>1, <2>2 DEF SameOwn
<1> HIDE DEF t
<1>5. SamePackets(s, t) /\ SameRadio(s, t) /\ ~Running(t, "PERFORM_CCA")
  BY <1>3, <1>4 DEF SamePackets, SameRadio, Running, Timer
<1>6. Carries(n, t)
  BY <1>1, <1>5 DEF NodeOK, Carries, SamePackets, SameRadio
<1>7. Counted(t)
  BY <1>1, <1>5 DEF NodeOK, Counted, Attempts, Sensed, SamePackets
<1>8. Served(t)
  BY <1>1, <1>3, <1>4, <1>5 DEF NodeOK, Served, SamePackets, SameOwn
<1>9. Ranged(t)
  BY <1>1, <1>3, <1>4 DEF NodeOK, Ranged, SameOwn, Off, Setting, Timer
<1>10. \A x \in Timer : ~Running(t, x)
  BY <1>4 DEF Running
<1>11. n = Hub => Leads(t)
  BY <1>1, <1>3, <1>4, <1>5, <1>10 DEF NodeOK, Leads, SameOwn, SamePackets, Timer
<1>12. n # Hub => Timed(t)
  BY <1>4, <1>10 DEF Timed, Expects, Off, Timer
<1>13. n # Hub => Member(t)
  BY <1>1, <1>3, <1>4, <1>5 DEF NodeOK, Member, SameOwn, SamePackets
<1>14. NodeOK(n, t)
  BY <1>4, <1>6, <1>7, <1>8, <1>9, <1>11, <1>12, <1>13 DEF NodeOK
<1>15. n = Hub => \A k \in Device : Paced(t, k, mac[k])
  BY <1>4, <1>5 DEF Paced, SameRadio, NodesOK
<1>16. n # Hub => Paced(mac[Hub], n, t)
  <2>1. n # Hub => Paced(mac[Hub], n, s)
    BY DEF NodesOK, Setting
  <2>2. t.gtsLeft = s.gtsLeft /\ t.capLeft = s.capLeft
    BY <1>3, <1>4 DEF SameOwn
  <2>3. /\ ~Running(t, "FRAME_START") /\ ~Running(t, "BEACON_TIMEOUT")
        /\ t.timers["BEACON_TIMEOUT"] = Off
    BY <1>4, <1>10 DEF Timer
  <2> QED
    BY <2>1, <2>2, <2>3 DEF Paced
<1> QED
  BY <1>2, <1>14, <1>15, <1>16, StepNode

\* The coordinator begins a superframe: every device expects its beacon.
LEMMA HubFrameStartOK ==
    ASSUME Setting, NodesOK, ListOK, par' = par, HubFrameStart
    PROVE  NodesOK' /\ ListOK'
<1> DEFINE s == mac[Hub]
           k == Len(hub.GTSlist)
           c == CAPend(k)
           f == Frame("BEACON", BROADCAST, 0, 0)
           a == [s EXCEPT !.macState = "CAP"]
           e == [a EXCEPT !.capLeft = c]
           u == Send(Hub, e, f)
           v == Set(u, "ATTEMPT_TX", 0)
           t == Set(v, "FRAME_START", Interval)
<1>1. /\ Hub \in Node /\ NodeOK(Hub, s) /\ s \in NodeState /\ Leads(s) /\ s.to = {}
      /\ s.timers["FRAME_START"] = 0 /\ ~s.disabled
      /\ Carries(Hub, s) /\ Counted(s) /\ Served(s) /\ Ranged(s)
  BY DueOK DEF HubFrameStart, Fires, Transmitting, NodesOK, NodeOK, Setting, Due, Timer
<1>2. k \in Nat /\ c \in 0..Interval /\ c > 0
  <2>1. k \in Nat /\ c >= 2 * minCAPLength
    BY DEF ListOK
  <2> HIDE DEF k
  <2>2. c \in Int /\ c <= 2 * numSuperframeSlots
    BY <2>1, SlotsFit
  <2> HIDE DEF c
  <2> QED
    BY <2>1, <2>2 DEF Setting
<1>3. prepareBeacon_hub = k
  BY <1>2 DEF prepareBeacon_hub
<1>4. /\ Becomes(Hub, t)
      /\ hub' = [hub EXCEPT !.announced = k, !.GTSlist = IF k = 0 THEN <<>> ELSE @]
  <2>1. [s EXCEPT !.macState = "CAP", !.capLeft = CAPend(k)] = e
    BY <1>1 DEF NodeState
  <2> HIDE DEF e, k
  <2> QED
    BY <1>3, <2>1 DEF HubFrameStart, Reply
<1>5. ListOK'
  <2>1. k = 0 => hub.GTSlist = <<>>
    BY DEF ListOK
  <2>2. hub' = [hub EXCEPT !.announced = k]
    BY <1>4, <2>1 DEF ListOK
  <2>3. /\ hub' \in [associatedDevices : SUBSET Device, GTSlist : Seq(Device), announced : Nat]
        /\ hub'.GTSlist = hub.GTSlist /\ hub'.announced = Len(hub.GTSlist)
    BY <1>2, <2>2 DEF ListOK
  <2> QED
    BY <1>2, <2>3 DEF ListOK, CAPend, gtsStart
<1> HIDE DEF c, k
<1>6. /\ a \in NodeState /\ SamePackets(s, a) /\ a.timers = s.timers /\ a.macState = "CAP"
      /\ a.associated = s.associated /\ a.assignedGTS = s.assignedGTS
      /\ a.lostBeacons = s.lostBeacons /\ a.gtsLeft = s.gtsLeft /\ a.adjacent = s.adjacent
      /\ a.disabled = s.disabled
  BY <1>1 DEF NodeState, SamePackets, MacState
<1> HIDE DEF a
<1>7. /\ e \in NodeState /\ SamePackets(a, e) /\ e.timers = a.timers /\ e.macState = a.macState
      /\ e.associated = a.associated /\ e.assignedGTS = a.assignedGTS
      /\ e.lostBeacons = a.lostBeacons /\ e.gtsLeft = a.gtsLeft /\ e.adjacent = a.adjacent
      /\ e.disabled = a.disabled /\ e.capLeft = c
  <2>1. c \in Int
    BY <1>2 DEF Setting
  <2> QED
    BY <1>6, <2>1 DEF NodeState, SamePackets
<1> HIDE DEF e
<1>8. Sound(f) /\ f \in AnyFrame /\ f.type = "BEACON" /\ f.dst = BROADCAST
  BY DEF Setting, Sound, Frame, AnyFrame, FrameOK, FrameType
<1> HIDE DEF f
<1>9. /\ u \in NodeState /\ SameOwn(e, u) /\ SamePackets(e, u) /\ u.timers = e.timers
      /\ u.frame = f /\ u.awake /\ u.to = Node \ {Hub}
  BY <1>1, <1>7, <1>8, SendOK
<1> HIDE DEF u
<1>10. /\ v \in NodeState /\ Moved(u, v) /\ v.macState = u.macState /\ v.awake = u.awake
       /\ \A x \in Timer : v.timers[x] = IF x = "ATTEMPT_TX" THEN 0 ELSE u.timers[x]
  <2>1. "ATTEMPT_TX" \in Timer /\ 0 \in Int /\ u \in NodeState
    BY <1>9 DEF Timer
  <2> QED
    BY <2>1, TimerOK
<1> HIDE DEF v
<1>11. /\ t \in NodeState /\ Moved(v, t) /\ t.macState = v.macState /\ t.awake = v.awake
       /\ \A x \in Timer : t.timers[x] = IF x = "FRAME_START" THEN Interval ELSE v.timers[x]
  <2>1. "FRAME_START" \in Timer /\ Interval \in Int
    BY DEF Timer, Setting
  <2> QED
    BY <1>10, <2>1, TimerOK
<1> HIDE DEF t
<1>12. /\ SamePackets(s, t) /\ t.macState = "CAP" /\ t.frame = f /\ t.to = Node \ {Hub}
       /\ t.associated = s.associated /\ t.assignedGTS = s.assignedGTS
       /\ t.lostBeacons = s.lostBeacons /\ t.gtsLeft = s.gtsLeft /\ t.adjacent = s.adjacent
       /\ t.disabled = s.disabled /\ t.capLeft = c
  BY <1>6, <1>7, <1>9, <1>10, <1>11 DEF SamePackets, SameOwn, Moved
<1>13. /\ t.timers["FRAME_START"] = Interval /\ t.timers["ATTEMPT_TX"] = 0
       /\ \A x \in Timer \ {"FRAME_START", "ATTEMPT_TX"} : t.timers[x] = s.timers[x]
  BY <1>6, <1>7, <1>9, <1>10, <1>11 DEF Timer
<1> HIDE DEF s
<1>14. Carries(Hub, t)
  <2>1. f # NoFrame
    BY <1>8 DEF NoFrame
  <2> QED
    BY <1>1, <1>8, <1>12, <2>1 DEF Carries, SamePackets
<1>15. Counted(t) /\ Served(t)
  <2>1. /\ t.timers["PERFORM_CCA"] = s.timers["PERFORM_CCA"]
        /\ s.macState \notin {"GTS", "SLEEP"}
    BY <1>1, <1>13 DEF Timer, Leads
  <2> QED
    BY <1>1, <1>12, <2>1 DEF Counted, Attempts, Sensed, Served, SamePackets, Running
<1>16. Ranged(t)
  <2>1. s.timers \in [Timer -> Int] /\ Interval \in Nat
    BY <1>1 DEF NodeState, Setting
  <2>2. Schedules(s, t)
    BY <1>1, <1>13, <2>1 DEF Schedules, Ranged, Off, Transmissions
  <2>3. /\ t.capLeft \in 0..Interval /\ t.gtsLeft \in 0..Interval /\ ~t.disabled
        /\ t.assignedGTS \in {0, par.requestGTS} /\ t.lostBeacons \in 0..par.maxLostBeacons
    BY <1>1, <1>2, <1>12 DEF Ranged
  <2> QED
    BY <1>1, <1>11, <2>2, <2>3, SchedulesOK
<1>17. Leads(t)
  <2>1. \A x \in {"BEACON_TIMEOUT", "GTS_START", "SLEEP_START", "BACK_TO_SETUP"} : ~Running(t, x)
    BY <1>1, <1>13 DEF Leads, Running, Timer
  <2>2. Running(t, "FRAME_START")
    BY <1>13 DEF Running, Off, Setting
  <2> QED
    BY <1>1, <1>12, <1>13, <2>1, <2>2 DEF Leads, SamePackets
<1>18. NodeOK(Hub, t)
  BY <1>11, <1>14, <1>15, <1>16, <1>17 DEF NodeOK
<1>19. ASSUME NEW m \in Device PROVE Paced(t, m, mac[m])
  <2> DEFINE r == mac[m]
  <2>1. /\ Paced(s, m, r) /\ Ranged(r) /\ r \in NodeState
    BY DEF NodesOK, NodeOK, Setting, s
  <2> HIDE DEF r
  <2>2. r.gtsLeft = 0 /\ r.capLeft = 0
    BY <1>1, <2>1 DEF Paced, Ranged
  <2>3. ~Running(r, "FRAME_START")
    BY <1>1, <2>1 DEF Paced, Running, Off
  <2>4. r.timers["BEACON_TIMEOUT"] \in {Off, 1}
    <3>1. r.timers["BEACON_TIMEOUT"] \in Off..Interval
      BY <2>1, OwnTimer DEF Timer, Transmissions
    <3>2. Running(r, "BEACON_TIMEOUT") =>
            r.timers["BEACON_TIMEOUT"] = 0 + 1 \/ r.timers["BEACON_TIMEOUT"] = 0 + 1 - Interval
      BY <1>1, <2>1 DEF Paced
    <3> QED
      BY <3>1, <3>2 DEF Running, Off, Setting
  <2>5. Paced(t, m, r)
    BY <1>13, <2>2, <2>3, <2>4 DEF Paced, Running, Off, Setting
  <2> QED
    BY <2>5 DEF r
<1> QED
  BY <1>1, <1>4, <1>5, <1>18, <1>19, StepNode

\* What the beacon changes of a member's, or a guest's, place.
WithBeacon(s, c, g, adjacent) ==
    [s EXCEPT !.lostBeacons = 0, !.macState = "CAP", !.capLeft = c, !.gtsLeft = g,
              !.adjacent = adjacent, !.guest = ~s.associated,
              !.carried = Running(s, "ACK_TIMEOUT")]

\* Changing it.
LEMMA BeaconOK ==
    ASSUME NEW s \in NodeState, NEW c \in Int, NEW g \in Int, NEW adjacent \in BOOLEAN
    PROVE  LET t == WithBeacon(s, c, g, adjacent)
           IN  /\ t \in NodeState /\ SamePackets(s, t) /\ SameRadio(s, t) /\ t.timers = s.timers
               /\ t.associated = s.associated /\ t.assignedGTS = s.assignedGTS
               /\ t.disabled = s.disabled /\ t.lostBeacons = 0 /\ t.macState = "CAP"
               /\ t.capLeft = c /\ t.gtsLeft = g /\ t.adjacent = adjacent
               /\ t.guest = ~s.associated /\ t.carried = Running(s, "ACK_TIMEOUT")
<1> DEFINE u == [s EXCEPT !.lostBeacons = 0]
           v == [u EXCEPT !.macState = "CAP"]
           w == [v EXCEPT !.capLeft = c]
           x == [w EXCEPT !.gtsLeft = g]
           y == [x EXCEPT !.adjacent = adjacent]
           guest == ~s.associated
           z == [y EXCEPT !.guest = guest]
           carried == Running(s, "ACK_TIMEOUT")
           t == [z EXCEPT !.carried = carried]
           Rest(p, q) == /\ SamePackets(p, q) /\ SameRadio(p, q) /\ q.timers = p.timers
                         /\ q.associated = p.associated /\ q.assignedGTS = p.assignedGTS
                         /\ q.disabled = p.disabled
<1>1. u \in NodeState /\ Rest(s, u) /\ u.lostBeacons = 0
  <2>1. u \in NodeState /\ u.lostBeacons = 0
    <3>1. PICK no \in Int : no = 0
      OBVIOUS
    <3>2. u = [s EXCEPT !.lostBeacons = no]
      BY <3>1
    <3> HIDE DEF u
    <3>3. u \in NodeState /\ u.lostBeacons = no
      BY <3>2 DEF NodeState
    <3> QED
      BY <3>1, <3>3
  <2>2. SamePackets(s, u) /\ SameRadio(s, u)
    BY DEF NodeState, SamePackets, SameRadio
  <2>3. /\ u.timers = s.timers /\ u.associated = s.associated
        /\ u.assignedGTS = s.assignedGTS /\ u.disabled = s.disabled
    BY DEF NodeState
  <2> HIDE DEF u
  <2> QED
    BY <2>1, <2>2, <2>3
<1>2. t = WithBeacon(s, c, g, adjacent)
  BY DEF WithBeacon, NodeState
<1> HIDE DEF u
<1>3. v \in NodeState /\ Rest(u, v) /\ v.lostBeacons = u.lostBeacons /\ v.macState = "CAP"
  BY <1>1 DEF NodeState, SamePackets, SameRadio, MacState
<1> HIDE DEF v
<1>4. /\ w \in NodeState /\ Rest(v, w) /\ w.lostBeacons = v.lostBeacons
      /\ w.macState = v.macState /\ w.capLeft = c
  BY <1>3 DEF NodeState, SamePackets, SameRadio
<1> HIDE DEF w
<1>5. /\ x \in NodeState /\ Rest(w, x) /\ x.lostBeacons = w.lostBeacons
      /\ x.macState = w.macState /\ x.capLeft = w.capLeft /\ x.gtsLeft = g
  BY <1>4 DEF NodeState, SamePackets, SameRadio
<1> HIDE DEF x
<1>6. /\ y \in NodeState /\ Rest(x, y) /\ y.lostBeacons = x.lostBeacons
      /\ y.macState = x.macState /\ y.capLeft = x.capLeft /\ y.gtsLeft = x.gtsLeft
      /\ y.adjacent = adjacent
  BY <1>5 DEF NodeState, SamePackets, SameRadio
<1>7. guest \in BOOLEAN /\ carried \in BOOLEAN
  BY DEF Running
<1> HIDE DEF y, guest, carried
<1>8. /\ z \in NodeState /\ Rest(y, z) /\ z.lostBeacons = y.lostBeacons
      /\ z.macState = y.macState /\ z.capLeft = y.capLeft /\ z.gtsLeft = y.gtsLeft
      /\ z.adjacent = y.adjacent /\ z.guest = guest
  BY <1>6, <1>7 DEF NodeState, SamePackets, SameRadio
<1> HIDE DEF z
<1>9. /\ t \in NodeState /\ Rest(z, t) /\ t.lostBeacons = z.lostBeacons
      /\ t.macState = z.macState /\ t.capLeft = z.capLeft /\ t.gtsLeft = z.gtsLeft
      /\ t.adjacent = z.adjacent /\ t.guest = z.guest /\ t.carried = carried
  BY <1>7, <1>8 DEF NodeState, SamePackets, SameRadio
<1> HIDE DEF t
<1>10. Rest(s, t)
  BY <1>1, <1>3, <1>4, <1>5, <1>6, <1>8, <1>9 DEF SamePackets, SameRadio
<1> QED
  BY <1>1, <1>2, <1>3, <1>4, <1>5, <1>6, <1>8, <1>9, <1>10 DEF guest, carried

\* The superframe, as a node reads it off the beacon.
LEMMA SuperframeOK ==
    ASSUME Setting, ListOK, NEW n \in Node, NEW s \in NodeState
    PROVE  \E c \in 0..Interval, g \in 0..Interval, adjacent \in BOOLEAN :
             /\ Superframe(n, s) = WithBeacon(s, c, g, adjacent)
             /\ g > 0 => par.requestGTS > 0 /\ g - 2 * par.requestGTS - 1 >= 0
             /\ adjacent => g > 0
<1> DEFINE k == hub.announced
           mine == {i \in 1..k : hub.GTSlist[i] = n}
           c == CAPend(k)
<1>1. /\ k \in Nat /\ Len(hub.GTSlist) \in Nat /\ k <= Len(hub.GTSlist)
      /\ CAPend(Len(hub.GTSlist)) >= 2 * minCAPLength /\ minCAPLength \in Nat \ {0}
      /\ hub.GTSlist # <<>> => par.requestGTS > 0
      /\ par.requestGTS \in Nat /\ Interval \in Nat /\ numSuperframeSlots \in Nat
      /\ 2 * numSuperframeSlots <= Interval
  BY DEF ListOK, Setting
<1>2. c >= CAPend(Len(hub.GTSlist)) /\ c \in Int /\ c <= 2 * numSuperframeSlots
      /\ CAPend(Len(hub.GTSlist)) \in Int
  <2>1. PICK K \in Nat : K = Len(hub.GTSlist)
    BY <1>1
  <2>2. CAPend(K) \in Int /\ \A j \in 0..K : CAPend(K) <= CAPend(j)
    BY SlotsFit
  <2>3. c \in Int /\ c <= 2 * numSuperframeSlots
    BY <1>1, SlotsFit
  <2>4. k \in 0..K
    BY <1>1, <2>1
  <2> HIDE DEF k
  <2> QED
    BY <2>1, <2>2, <2>3, <2>4
<1>3. c \in 2..Interval
  <2> HIDE DEF c
  <2> QED
    BY <1>1, <1>2
<1>4. CASE mine = {}
  <2> DEFINE g == 0
             adjacent == FALSE
  <2>1. Superframe(n, s) = WithBeacon(s, c, g, adjacent)
    BY <1>4 DEF Superframe, WithBeacon
  <2>2. c \in 0..Interval /\ g \in 0..Interval /\ ~(g > 0) /\ adjacent \in BOOLEAN /\ ~adjacent
    BY <1>1, <1>3
  <2> HIDE DEF c, g, adjacent
  <2> QED
    BY <2>1, <2>2
<1>5. CASE mine # {}
  <2> DEFINE i == CHOOSE j \in mine : TRUE
             g == gtsEnd(i)
             u == [s EXCEPT !.lostBeacons = 0, !.macState = "CAP", !.capLeft = c,
                            !.gtsLeft = 0, !.adjacent = FALSE, !.guest = ~s.associated,
                            !.carried = Running(s, "ACK_TIMEOUT")]
  <2>1. i \in 1..k
    BY <1>5
  <2>2. Superframe(n, s) = [u EXCEPT !.gtsLeft = g, !.adjacent = (i = k)]
    BY <1>5 DEF Superframe
  <2> HIDE DEF i
  <2>3. g \in Int /\ g <= 2 * numSuperframeSlots /\ g - 2 * par.requestGTS = CAPend(i)
    BY <1>1, <2>1, SlotsFit
  <2>4. CAPend(i) >= c /\ CAPend(i) \in Int
    <3>1. i \in 0..k /\ i \in Nat
      BY <1>1, <2>1
    <3> QED
      BY <1>1, <3>1, SlotsFit
  <2> DEFINE adjacent == (i = k)
  <2>5. adjacent \in BOOLEAN
    OBVIOUS
  <2>6. Superframe(n, s) = WithBeacon(s, c, g, adjacent)
    BY <2>2 DEF WithBeacon, NodeState
  <2> HIDE DEF c, g, adjacent
  <2>7. PICK e \in Int : e = CAPend(i)
    BY <2>4
  <2>8. g - 2 * par.requestGTS - 1 >= 0 /\ g \in 0..Interval /\ c \in 0..Interval /\ g > 0
    BY <1>1, <1>3, <2>3, <2>4, <2>7
  <2>9. par.requestGTS > 0
    <3>1. Len(hub.GTSlist) > 0
      BY <1>1, <2>1
    <3> QED
      BY <1>1, <3>1
  <2> QED
    BY <2>5, <2>6, <2>8, <2>9
<1> QED
  BY <1>4, <1>5

\* Its timers for the superframe.
LEMMA ScheduledOK ==
    ASSUME Setting, NEW n \in Node, NEW s \in NodeState
    PROVE  LET t == Scheduled(n, s)
           IN  /\ t \in NodeState /\ Moved(s, t) /\ t.macState = s.macState /\ t.awake = s.awake
               /\ \A x \in Timer \ {"SLEEP_START", "BACK_TO_SETUP", "GTS_START"} :
                    t.timers[x] = s.timers[x]
               /\ t.timers["BACK_TO_SETUP"] \in {s.timers["BACK_TO_SETUP"], s.capLeft}
               /\ \/ t.timers["SLEEP_START"] = s.timers["SLEEP_START"]
                  \/ s.associated /\ t.timers["SLEEP_START"] = s.capLeft
               /\ t.timers["GTS_START"] = IF s.associated /\ s.gtsLeft # 0
                                          THEN s.gtsLeft - 2 * par.requestGTS - 1
                                          ELSE s.timers["GTS_START"]
<1> DEFINE u == IF s.adjacent THEN s ELSE Set(s, "SLEEP_START", s.capLeft)
           k == s.gtsLeft - 2 * par.requestGTS - 1
           v == Set(u, "GTS_START", k)
           w == Set(s, "BACK_TO_SETUP", s.capLeft)
<1>1. /\ s.capLeft \in Int /\ k \in Int
      /\ "SLEEP_START" \in Timer /\ "GTS_START" \in Timer /\ "BACK_TO_SETUP" \in Timer
  <2>1. s.capLeft \in Int /\ s.gtsLeft \in Int
    BY DEF NodeState
  <2>2. par.requestGTS \in Nat
    BY DEF Setting
  <2>3. k \in Int
    BY <2>1, <2>2
  <2> QED
    BY <2>1, <2>3 DEF Timer
<1>2. Scheduled(n, s) = IF ~s.associated THEN w ELSE IF s.gtsLeft = 0 THEN u ELSE v
  BY DEF Scheduled
<1> HIDE DEF k
<1>3. /\ u \in NodeState /\ Moved(s, u) /\ u.macState = s.macState /\ u.awake = s.awake
      /\ \A x \in Timer \ {"SLEEP_START"} : u.timers[x] = s.timers[x]
      /\ u.timers["SLEEP_START"] = s.timers["SLEEP_START"] \/ u.timers["SLEEP_START"] = s.capLeft
  <2>1. CASE s.adjacent
    BY <2>1 DEF Moved, SamePackets
  <2>2. CASE ~s.adjacent
    <3> DEFINE r == Set(s, "SLEEP_START", s.capLeft)
    <3>1. /\ r \in NodeState /\ Moved(s, r) /\ r.macState = s.macState /\ r.awake = s.awake
          /\ \A y \in Timer : r.timers[y] = IF y = "SLEEP_START" THEN s.capLeft ELSE s.timers[y]
      BY <1>1, TimerOK
    <3>2. u = r
      BY <2>2
    <3> HIDE DEF u, r
    <3> QED
      BY <1>1, <3>1, <3>2
  <2> QED
    BY <2>1, <2>2
<1> HIDE DEF u
<1>4. /\ v \in NodeState /\ Moved(u, v) /\ v.macState = u.macState /\ v.awake = u.awake
      /\ \A y \in Timer : v.timers[y] = IF y = "GTS_START" THEN k ELSE u.timers[y]
  BY <1>1, <1>3, TimerOK
<1>5. /\ w \in NodeState /\ Moved(s, w) /\ w.macState = s.macState /\ w.awake = s.awake
      /\ \A y \in Timer : w.timers[y] = IF y = "BACK_TO_SETUP" THEN s.capLeft ELSE s.timers[y]
  BY <1>1, TimerOK
<1> HIDE DEF v, w
<1>6. Moved(s, v)
  BY <1>3, <1>4 DEF Moved, SamePackets
<1>7. CASE ~s.associated
  BY <1>1, <1>2, <1>5, <1>7
<1>8. CASE s.associated /\ s.gtsLeft = 0
  BY <1>1, <1>2, <1>3, <1>8
<1>9. CASE s.associated /\ s.gtsLeft # 0
  <2> DEFINE t == Scheduled(n, s)
  <2>1. t = v
    BY <1>2, <1>9
  <2>2. /\ t.timers["GTS_START"] = k
        /\ \A x \in Timer \ {"GTS_START"} : t.timers[x] = u.timers[x]
    BY <1>1, <1>4, <2>1
  <2>3. t \in NodeState /\ Moved(s, t) /\ t.macState = s.macState /\ t.awake = s.awake
    BY <1>3, <1>4, <1>6, <2>1
  <2> HIDE DEF t
  <2>4. /\ t.timers["SLEEP_START"] = u.timers["SLEEP_START"]
        /\ t.timers["BACK_TO_SETUP"] = s.timers["BACK_TO_SETUP"]
    BY <1>1, <1>3, <2>2
  <2>5. \A x \in Timer \ {"SLEEP_START", "BACK_TO_SETUP", "GTS_START"} :
          t.timers[x] = s.timers[x]
    BY <1>3, <2>2
  <2> QED
    BY <1>3, <1>9, <2>2, <2>3, <2>4, <2>5 DEF k, t
<1> QED
  BY <1>7, <1>8, <1>9

\* A device hears the beacon, and its superframe begins.
LEMMA BeginsOK ==
    ASSUME Setting, ListOK, NEW n \in Node, n # Hub, NEW s, NodeOK(n, s), ~s.disabled,
           s.awake, s.timers["SLEEP_START"] # 0,
           s.gtsLeft = 0, ~Running(s, "FRAME_START"), s.timers["BEACON_TIMEOUT"] \in {Off, 1}
    PROVE  LET t == Scheduled(n, Superframe(n, Stop(s, "BEACON_TIMEOUT")))
           IN  /\ Nearly(n, t) /\ Served(t) /\ t.awake /\ t.macState = "CAP"
               /\ t.lostBeacons = 0 /\ t.guest = ~t.associated
               /\ t.currentPacket.type = "ASSOCIATE" => ~t.associated
               /\ t.timers["BEACON_TIMEOUT"] = Off
               /\ Running(t, "SLEEP_START") => t.associated
               /\ Running(t, "GTS_START") =>
                    /\ t.associated /\ par.requestGTS > 0
                    /\ t.timers["GTS_START"] = t.gtsLeft - 2 * par.requestGTS - 1
               /\ t.associated /\ t.adjacent => Running(t, "GTS_START")
<1> DEFINE u == Stop(s, "BEACON_TIMEOUT")
           v == Superframe(n, u)
           t == Scheduled(n, v)
<1>1. /\ s \in NodeState /\ Carries(n, s) /\ Counted(s) /\ Served(s) /\ Ranged(s)
      /\ Timed(s) /\ Member(s) /\ par.requestGTS \in Nat /\ Interval \in Nat
  BY DEF NodeOK, Setting
<1>2. ~Running(s, "SLEEP_START") /\ ~Running(s, "GTS_START")
  <2>1. ~Running(s, "SLEEP_START")
    <3>1. s.timers["SLEEP_START"] \in Off..Interval /\ s.timers["SLEEP_START"] # 0
      <4>1. "SLEEP_START" \in Timer \ Transmissions
        BY DEF Timer, Transmissions
      <4> QED
        BY <1>1, <4>1, OwnTimer
    <3>2. SUFFICES ASSUME Running(s, "SLEEP_START")
                   PROVE  FALSE
      OBVIOUS
    <3>3. Running(s, "BEACON_TIMEOUT") /\ s.timers["SLEEP_START"] < 1
      BY <1>1, <3>2 DEF Timed, Expects, Running
    <3> QED
      BY <1>1, <3>1, <3>2, <3>3 DEF Off, Running
  <2>2. ~Running(s, "GTS_START")
    <3>1. s.timers["GTS_START"] \in Off..Interval
      <4>1. "GTS_START" \in Timer \ Transmissions
        BY DEF Timer, Transmissions
      <4> QED
        BY <1>1, <4>1, OwnTimer
    <3>2. SUFFICES ASSUME Running(s, "GTS_START")
                   PROVE  FALSE
      OBVIOUS
    <3>3. par.requestGTS > 0 /\ s.timers["GTS_START"] = 0 - 2 * par.requestGTS - 1
      BY <1>1, <3>2 DEF Timed
    <3> QED
      BY <1>1, <3>1, <3>3 DEF Off
  <2> QED
    BY <2>1, <2>2
<1>4. /\ u \in NodeState /\ Moved(s, u) /\ u.macState = s.macState /\ u.awake = s.awake
      /\ \A x \in Timer : u.timers[x] = IF x = "BEACON_TIMEOUT" THEN Off ELSE s.timers[x]
  <2>1. "BEACON_TIMEOUT" \in Timer /\ s \in NodeState
    BY <1>1 DEF Timer
  <2>2. /\ u \in NodeState /\ SameOwn(s, u) /\ SameRadio(s, u) /\ SamePackets(s, u)
        /\ \A x \in Timer : u.timers[x] = IF x = "BEACON_TIMEOUT" THEN Off ELSE s.timers[x]
    BY <2>1, StopOK
  <2> HIDE DEF u
  <2> QED
    BY <2>2 DEF Moved, SameOwn, SameRadio
<1> HIDE DEF u
<1>5. PICK c \in 0..Interval, g \in 0..Interval, adjacent \in BOOLEAN :
        /\ v = WithBeacon(u, c, g, adjacent)
        /\ g > 0 => par.requestGTS > 0 /\ g - 2 * par.requestGTS - 1 >= 0
        /\ adjacent => g > 0
  BY <1>4, SuperframeOK
<1>6. /\ v \in NodeState /\ SamePackets(u, v) /\ SameRadio(u, v) /\ v.timers = u.timers
      /\ v.associated = u.associated /\ v.assignedGTS = u.assignedGTS
      /\ v.disabled = u.disabled /\ v.lostBeacons = 0 /\ v.macState = "CAP"
      /\ v.capLeft = c /\ v.gtsLeft = g /\ v.adjacent = adjacent /\ v.guest = ~u.associated
  <2>1. c \in Int /\ g \in Int
    BY <1>1, <1>5
  <2> HIDE DEF v
  <2> QED
    BY <1>4, <1>5, <2>1, BeaconOK
<1> HIDE DEF v
<1>7. /\ t \in NodeState /\ Moved(v, t) /\ t.macState = v.macState /\ t.awake = v.awake
      /\ \A x \in Timer \ {"SLEEP_START", "BACK_TO_SETUP", "GTS_START"} :
           t.timers[x] = v.timers[x]
      /\ t.timers["BACK_TO_SETUP"] \in {v.timers["BACK_TO_SETUP"], v.capLeft}
      /\ \/ t.timers["SLEEP_START"] = v.timers["SLEEP_START"]
         \/ v.associated /\ t.timers["SLEEP_START"] = v.capLeft
      /\ t.timers["GTS_START"] = IF v.associated /\ v.gtsLeft # 0
                                 THEN v.gtsLeft - 2 * par.requestGTS - 1
                                 ELSE v.timers["GTS_START"]
  BY <1>6, ScheduledOK
<1> HIDE DEF t
<1>8. /\ SamePackets(s, t) /\ t.frame = s.frame /\ t.to = s.to /\ t.awake = s.awake
      /\ t.associated = s.associated /\ t.assignedGTS = s.assignedGTS
      /\ t.disabled = s.disabled /\ t.lostBeacons = 0 /\ t.macState = "CAP"
      /\ t.capLeft = c /\ t.gtsLeft = g /\ t.adjacent = adjacent /\ t.guest = ~s.associated
  BY <1>4, <1>6, <1>7 DEF Moved, SamePackets, SameRadio
<1>9. /\ t.timers["BEACON_TIMEOUT"] = Off
      /\ \A x \in Timer \ {"SLEEP_START", "BACK_TO_SETUP", "GTS_START", "BEACON_TIMEOUT"} :
           t.timers[x] = s.timers[x]
      /\ t.timers["BACK_TO_SETUP"] \in {s.timers["BACK_TO_SETUP"], c}
      /\ t.timers["SLEEP_START"] = Off \/ (s.associated /\ t.timers["SLEEP_START"] = c)
      /\ t.timers["GTS_START"] = IF s.associated /\ g # 0 THEN g - 2 * par.requestGTS - 1
                                 ELSE Off
  <2>1. v.associated = s.associated
    BY <1>4, <1>6 DEF Moved
  <2>2. /\ v.timers["BEACON_TIMEOUT"] = Off
        /\ \A x \in Timer \ {"BEACON_TIMEOUT"} : v.timers[x] = s.timers[x]
    BY <1>4, <1>6 DEF Timer
  <2>3. /\ v.timers["SLEEP_START"] = Off /\ v.timers["GTS_START"] = Off
        /\ v.timers["BACK_TO_SETUP"] = s.timers["BACK_TO_SETUP"]
    BY <1>2, <2>2 DEF Timer, Running
  <2>4. t.timers["BEACON_TIMEOUT"] = v.timers["BEACON_TIMEOUT"]
    BY <1>7 DEF Timer
  <2> QED
    BY <1>6, <1>7, <2>1, <2>2, <2>3, <2>4
<1>10. Carries(n, t) /\ Served(t)
  BY <1>1, <1>8 DEF Carries, Served, SamePackets
<1>11. Attempts(t)
  <2>1. t.timers["PERFORM_CCA"] = s.timers["PERFORM_CCA"]
    BY <1>9 DEF Timer
  <2> QED
    BY <1>1, <1>8, <2>1 DEF Counted, Attempts, SamePackets, Running
<1>12. Ranged(t)
  <2>1. g # 0 => g - 2 * par.requestGTS - 1 \in Off..Interval
    BY <1>1, <1>5 DEF Off
  <2>2. c \in Off..Interval /\ Off \in Off..Interval
    BY <1>1, <1>5 DEF Off
  <2>3. s.timers \in [Timer -> Int] /\ t \in NodeState
    BY <1>1, <1>7 DEF NodeState
  <2>4. Schedules(s, t)
    <3>1. /\ t.timers["BACK_TO_SETUP"] \in Off..s.timers["BACK_TO_SETUP"]
             \/ t.timers["BACK_TO_SETUP"] \in Off..Interval
          /\ t.timers["SLEEP_START"] \in Off..Interval
          /\ t.timers["GTS_START"] \in Off..Interval
          /\ t.timers["BEACON_TIMEOUT"] \in Off..Interval
      <4>1. s.timers["BACK_TO_SETUP"] \in Int /\ s.timers["BACK_TO_SETUP"] >= Off
        BY <1>1, <2>3 DEF Ranged, Timer
      <4> QED
        BY <1>9, <2>1, <2>2, <4>1 DEF Off
    <3>2. ASSUME NEW x \in Timer \ {"SLEEP_START", "BACK_TO_SETUP", "GTS_START", "BEACON_TIMEOUT"}
          PROVE  t.timers[x] \in Off..s.timers[x]
      <4>1. s.timers[x] \in Int /\ s.timers[x] >= Off
        BY <1>1, <2>3 DEF Ranged
      <4> QED
        BY <1>9, <4>1 DEF Off
    <3> QED
      BY <3>1, <3>2 DEF Schedules, Transmissions
  <2>5. /\ t.lostBeacons \in 0..par.maxLostBeacons /\ t.assignedGTS \in {0, par.requestGTS}
        /\ t.capLeft \in 0..Interval /\ t.gtsLeft \in 0..Interval /\ ~t.disabled
    BY <1>1, <1>5, <1>8 DEF Setting, Ranged
  <2> QED
    BY <1>1, <2>3, <2>4, <2>5, SchedulesOK
<1>13. t.currentPacket.type = "ASSOCIATE" => ~t.associated
  BY <1>1, <1>8 DEF Member, SamePackets
<1>14. Running(t, "SLEEP_START") => t.associated
  BY <1>8, <1>9 DEF Running
<1>15. Running(t, "GTS_START") =>
          /\ t.associated /\ par.requestGTS > 0
          /\ t.timers["GTS_START"] = t.gtsLeft - 2 * par.requestGTS - 1
  BY <1>1, <1>5, <1>8, <1>9 DEF Running
<1>16. t.guest = ~t.associated
  BY <1>8
<1>17. t.associated /\ t.adjacent => Running(t, "GTS_START")
  BY <1>1, <1>5, <1>8, <1>9 DEF Running, Off
<1> QED
  BY <1>7, <1>8, <1>9, <1>10, <1>11, <1>12, <1>13, <1>14, <1>15, <1>16, <1>17 DEF Nearly, t, v, u

\* It may ask to join, and goes on with what it has in service.
LEMMA GoesOnOK ==
    ASSUME Setting, NEW n \in Node, NEW s, Nearly(n, s), Served(s), s.macState = "CAP",
           NEW b \in Backoff, NEW d \in Exchange,
           s.currentPacket.type = "ASSOCIATE" => ~s.associated
    PROVE  LET t == attemptTransmission(n, receiveBeacon_node(n, s, b, d), b, d)
           IN  /\ Fit(n, t) /\ Served(t) /\ Kept(s, t)
               /\ t.currentPacket.type = "ASSOCIATE" => ~t.associated
<1> DEFINE u == receiveBeacon_node(n, s, b, d)
           t == attemptTransmission(n, u, b, d)
<1>1. /\ Nearly(n, u) /\ Served(u) /\ Kept(s, u)
      /\ u.currentPacket.type = "ASSOCIATE" => ~s.associated
  <2>1. CASE s.associated
    BY <2>1, KeptSelf DEF receiveBeacon_node
  <2>2. CASE ~s.associated
    <3> DEFINE p == Frame("ASSOCIATE", Hub, 0, 0)
    <3>1. Servable(p)
      BY AssociateOK
    <3>2. u = transmitPacket(n, s, p, b, d)
      BY <2>2 DEF receiveBeacon_node
    <3> HIDE DEF u, p
    <3>3. Fit(n, u) /\ Kept(s, u)
      BY <3>1, <3>2, NewPacketOK
    <3>4. Served(u)
      BY <2>2, <3>3 DEF Served, Kept, SameOwn
    <3> QED
      BY <2>2, <3>3, <3>4 DEF Fit, Nearly, Counted
  <2> QED
    BY <2>1, <2>2
<1> HIDE DEF u
<1>2. Works(n, u, t)
  <2>1. u.macState = "CAP"
    BY <1>1 DEF Kept, SameOwn
  <2> QED
    BY <1>1, <2>1, ResumeOK
<1> HIDE DEF t
<1>3. Kept(s, t)
  BY <1>1, <1>2, KeptTwice DEF Works
<1> QED
  BY <1>1, <1>2, <1>3 DEF Works, Kept, SameOwn, t, u

\* The beacon is heard.
LEMMA ReceiveBeaconOK ==
    ASSUME Setting, NodesOK, ListOK, par' = par, NEW n \in Node, ReceiveBeacon(n)
    PROVE  NodesOK'
<1> DEFINE s == mac[n]
           h == mac[Hub]
           u == Scheduled(n, Superframe(n, Stop(s, "BEACON_TIMEOUT")))
<1>1. Arrives(Hub, n, "BEACON") /\ s.timers["SLEEP_START"] # 0 /\ Hub \in Node
  BY DEF ReceiveBeacon, Due, Setting
<1>2. /\ Hub # n /\ n \in h.to /\ h.frame.type = "BEACON" /\ NodeOK(n, s)
      /\ s.awake /\ ~s.disabled
  BY <1>1, ArrivesOK
<1>3. /\ s.gtsLeft = 0 /\ ~Running(s, "FRAME_START") /\ s.timers["BEACON_TIMEOUT"] \in {Off, 1}
  BY <1>2 DEF NodesOK, Paced, Setting
<1>4. ~h.disabled => h.timers["FRAME_START"] = Interval
  BY <1>2 DEF NodesOK, NodeOK, Leads, Setting
<1>5. PICK b \in Backoff, d \in Exchange :
        Takes(Hub, n, Set(attemptTransmission(n, receiveBeacon_node(n, u, b, d), b, d),
                          "FRAME_START", Interval - 1))
  BY DEF ReceiveBeacon
<1>6. /\ Nearly(n, u) /\ Served(u) /\ u.awake /\ u.macState = "CAP"
      /\ u.lostBeacons = 0 /\ u.guest = ~u.associated
      /\ u.currentPacket.type = "ASSOCIATE" => ~u.associated
      /\ u.timers["BEACON_TIMEOUT"] = Off
      /\ Running(u, "SLEEP_START") => u.associated
      /\ Running(u, "GTS_START") =>
           /\ u.associated /\ par.requestGTS > 0
           /\ u.timers["GTS_START"] = u.gtsLeft - 2 * par.requestGTS - 1
      /\ u.associated /\ u.adjacent => Running(u, "GTS_START")
  <2> HIDE DEF s
  <2> QED
    BY <1>1, <1>2, <1>3, BeginsOK
<1> HIDE DEF u
<1> DEFINE v == attemptTransmission(n, receiveBeacon_node(n, u, b, d), b, d)
<1>7. /\ Fit(n, v) /\ Served(v) /\ Kept(u, v)
      /\ v.currentPacket.type = "ASSOCIATE" => ~v.associated
  <2>1. /\ Nearly(n, u) /\ Served(u) /\ u.macState = "CAP"
        /\ u.currentPacket.type = "ASSOCIATE" => ~u.associated
    BY <1>6
  <2> QED
    BY <2>1, GoesOnOK
<1> DEFINE t == Set(v, "FRAME_START", Interval - 1)
<1>8. Takes(Hub, n, t)
  BY <1>5
<1> HIDE DEF v
<1>9. PICK k \in 0..Interval : k = Interval - 1
  BY DEF Setting
<1>10. /\ t \in NodeState /\ SameOwn(v, t) /\ SameRadio(v, t) /\ SamePackets(v, t)
       /\ \A x \in Timer : t.timers[x] = IF x = "FRAME_START" THEN k ELSE v.timers[x]
  <2>1. t = Set(v, "FRAME_START", k)
    BY <1>9
  <2>2. "FRAME_START" \in Timer /\ k \in Int /\ v \in NodeState
    BY <1>7, <1>9 DEF Timer, Fit, Setting
  <2> HIDE DEF t
  <2> QED
    BY <2>1, <2>2, SetOK
<1> HIDE DEF t
<1>11. /\ SameOwn(u, t) /\ t.awake
       /\ t.timers["FRAME_START"] = k
       /\ \A x \in {"BEACON_TIMEOUT", "SLEEP_START", "GTS_START", "BACK_TO_SETUP"} :
            t.timers[x] = u.timers[x]
  BY <1>6, <1>7, <1>10 DEF Kept, SameOwn, SameRadio, Transmissions, Timer
<1>12. Carries(n, t) /\ Served(t) /\ ~t.disabled
  BY <1>7, <1>10 DEF Fit, Carries, Served, SamePackets, SameRadio, SameOwn
<1>13. Counted(t)
  BY <1>7, <1>10 DEF Fit, Counted, Attempts, Sensed, SamePackets, SameOwn, Running, Timer
<1>14. Ranged(t)
  BY <1>7, <1>9, <1>10 DEF Fit, Ranged, SameOwn, Off, Timer
<1>15. t.gtsLeft \in 0..Interval /\ t.capLeft \in 0..Interval
  BY <1>14 DEF Ranged
<1>16. Running(t, "FRAME_START") /\ Expects(t) /\ ~Running(t, "BEACON_TIMEOUT")
       /\ t.timers["BEACON_TIMEOUT"] = Off
  BY <1>6, <1>9, <1>11 DEF Running, Expects, Off, Setting
<1>17. Timed(t)
  <2>1. t.lostBeacons = 0 /\ 0 < par.maxLostBeacons
    BY <1>6, <1>11 DEF SameOwn, Setting
  <2>2. t.gtsLeft <= t.timers["FRAME_START"] + 1
        /\ t.timers["SLEEP_START"] <= t.timers["FRAME_START"] + 1
    <3>1. "SLEEP_START" \in Timer \ Transmissions
      BY DEF Timer, Transmissions
    <3>2. t.timers["SLEEP_START"] \in Off..Interval
      BY <1>10, <1>14, <3>1, OwnTimer
    <3> QED
      BY <1>9, <1>11, <1>15, <3>2 DEF Off, Setting
  <2>3. Running(t, "SLEEP_START") => t.associated
    BY <1>6, <1>11 DEF Running, SameOwn
  <2>4. Running(t, "GTS_START") =>
          /\ t.associated /\ par.requestGTS > 0
          /\ t.timers["GTS_START"] = t.gtsLeft - 2 * par.requestGTS - 1
    BY <1>6, <1>11 DEF Running, SameOwn
  <2>5. t.timers["BEACON_TIMEOUT"] <= 2
    BY <1>16 DEF Off
  <2> QED
    BY <1>6, <1>11, <1>16, <2>1, <2>2, <2>3, <2>4, <2>5 DEF Timed, SameOwn
<1>18. Member(t)
  <2>1. t.macState = "CAP" /\ t.guest = ~t.associated
    BY <1>6, <1>11 DEF SameOwn
  <2>2. t.currentPacket.type = "ASSOCIATE" => ~t.associated
    BY <1>7, <1>10 DEF SameOwn, SamePackets
  <2>3. t.associated /\ t.adjacent => Running(t, "GTS_START")
    BY <1>6, <1>11 DEF SameOwn, Running
  <2> QED
    BY <1>11, <1>16, <2>1, <2>2, <2>3 DEF Member
<1>19. NodeOK(n, t)
  BY <1>2, <1>10, <1>12, <1>13, <1>14, <1>17, <1>18 DEF NodeOK
<1>20. Paced(Taken(h, n), n, t)
  <2>1. NodeOK(Hub, h)
    BY <1>1 DEF NodesOK
  <2> DEFINE g == Taken(h, n)
  <2>2. n \notin g.to /\ g.timers = h.timers /\ g.disabled = h.disabled
    BY <1>1, <1>2, <2>1, TakenOK DEF SameOwn
  <2> HIDE DEF g, h
  <2>3. ~g.disabled => g.timers["FRAME_START"] = Interval
    BY <1>4, <2>2
  <2>4. t.timers["FRAME_START"] = Interval - 1
    BY <1>9, <1>11
  <2> QED
    BY <1>15, <1>16, <2>2, <2>3, <2>4 DEF Paced, g
<1> QED
  BY <1>1, <1>2, <1>8, <1>19, <1>20, StepTakes

-----------------------------------------------------------------------------
(* Time. *)

Ticked(s) ==
    [s EXCEPT !.timers = [t \in Timer |-> Less(s.timers[t])],
              !.capLeft = Less(@), !.gtsLeft = Less(@)]

\* A tick of one node.
LEMMA TickedFields ==
    ASSUME NEW s \in NodeState
    PROVE  LET t == Ticked(s)
           IN  /\ t \in NodeState /\ SamePackets(s, t) /\ SameRadio(s, t)
               /\ t.macState = s.macState /\ t.associated = s.associated
               /\ t.assignedGTS = s.assignedGTS /\ t.lostBeacons = s.lostBeacons
               /\ t.adjacent = s.adjacent /\ t.disabled = s.disabled /\ t.guest = s.guest
               /\ t.carried = s.carried
               /\ t.capLeft = Less(s.capLeft) /\ t.gtsLeft = Less(s.gtsLeft)
               /\ \A x \in Timer : t.timers[x] = Less(s.timers[x])
<1> DEFINE all == [x \in Timer |-> Less(s.timers[x])]
           c == Less(s.capLeft)
           g == Less(s.gtsLeft)
           Rest(p, q) == /\ SamePackets(p, q) /\ SameRadio(p, q)
                         /\ q.macState = p.macState /\ q.associated = p.associated
                         /\ q.assignedGTS = p.assignedGTS /\ q.lostBeacons = p.lostBeacons
                         /\ q.adjacent = p.adjacent /\ q.disabled = p.disabled
                         /\ q.guest = p.guest /\ q.carried = p.carried
           u == [s EXCEPT !.timers = all]
           v == [u EXCEPT !.capLeft = c]
           t == [v EXCEPT !.gtsLeft = g]
<1>1. /\ all \in [Timer -> Int] /\ \A x \in Timer : all[x] = Less(s.timers[x])
      /\ c \in Int /\ g \in Int
  BY DEF NodeState, Less
<1>2. t = Ticked(s)
  BY DEF Ticked, NodeState
<1> HIDE DEF all, c, g
<1>3. u \in NodeState /\ Rest(s, u) /\ u.timers = all
  BY <1>1 DEF NodeState, SamePackets, SameRadio
<1> HIDE DEF u
<1>4. v \in NodeState /\ Rest(u, v) /\ v.timers = u.timers /\ v.capLeft = c
  BY <1>1, <1>3 DEF NodeState, SamePackets, SameRadio
<1> HIDE DEF v
<1>5. /\ t \in NodeState /\ Rest(v, t) /\ t.timers = v.timers /\ t.capLeft = v.capLeft
      /\ t.gtsLeft = g
  BY <1>1, <1>4 DEF NodeState, SamePackets, SameRadio
<1> HIDE DEF t
<1>6. Rest(s, t)
  BY <1>3, <1>4, <1>5 DEF SamePackets, SameRadio
<1> QED
  BY <1>1, <1>2, <1>3, <1>4, <1>5, <1>6 DEF c, g

\* All its timers go on; a beacon does not last into another tick.
LEMMA TickedOK ==
    ASSUME Setting, NEW n \in Node, NEW s, NodeOK(n, s),
           \A x \in Timer : s.timers[x] # 0, s.to # {} => Lasts(s)
    PROVE  /\ NodeOK(n, Ticked(s))
           /\ n = Hub /\ s.frame.type = "BEACON" => s.to = {}
<1> DEFINE t == Ticked(s)
<1>1. /\ s \in NodeState /\ Carries(n, s) /\ Counted(s) /\ Served(s) /\ Ranged(s)
      /\ Interval \in Nat /\ par.requestGTS \in Nat /\ par.maxLostBeacons \in Nat
  BY DEF NodeOK, Setting
<1>2. /\ t \in NodeState /\ SamePackets(s, t) /\ SameRadio(s, t)
      /\ t.macState = s.macState /\ t.associated = s.associated
      /\ t.assignedGTS = s.assignedGTS /\ t.lostBeacons = s.lostBeacons
      /\ t.adjacent = s.adjacent /\ t.disabled = s.disabled /\ t.guest = s.guest
      /\ t.carried = s.carried
      /\ t.capLeft = Less(s.capLeft) /\ t.gtsLeft = Less(s.gtsLeft)
      /\ \A x \in Timer : t.timers[x] = Less(s.timers[x])
  BY <1>1, TickedFields
<1> HIDE DEF t
<1>3. \A x \in Timer :
        \/ s.timers[x] = Off /\ t.timers[x] = Off
        \/ s.timers[x] \in Nat \ {0} /\ t.timers[x] = s.timers[x] - 1
  <2>1. s.timers \in [Timer -> Int] /\ \A x \in Timer : s.timers[x] >= Off
    BY <1>1 DEF NodeState, Ranged
  <2> QED
    BY <1>2, <2>1 DEF Less, Off
<1>4. \A x \in Timer : Running(t, x) <=> Running(s, x)
  BY <1>1, <1>3 DEF Running, Off
<1>5. /\ s.gtsLeft \in 0..Interval /\ s.capLeft \in 0..Interval
      /\ (s.gtsLeft = 0 /\ t.gtsLeft = 0) \/ (s.gtsLeft > 0 /\ t.gtsLeft = s.gtsLeft - 1)
      /\ (s.capLeft = 0 /\ t.capLeft = 0) \/ (s.capLeft > 0 /\ t.capLeft = s.capLeft - 1)
  BY <1>1, <1>2 DEF Ranged, Less
<1>6. Carries(n, t)
  BY <1>1, <1>2 DEF Carries, SamePackets, SameRadio
<1>7. Served(t)
  BY <1>1, <1>2 DEF Served, SamePackets
<1>8. Counted(t)
  <2>1. Running(t, "PERFORM_CCA") <=> Running(s, "PERFORM_CCA")
    BY <1>4 DEF Timer
  <2> QED
    BY <1>1, <1>2, <2>1 DEF Counted, Attempts, Sensed, SamePackets
<1>9. Ranged(t)
  <2>1. Schedules(s, t)
    <3>1. \A x \in Timer : t.timers[x] \in Off..s.timers[x]
      BY <1>3 DEF Off
    <3> QED
      BY <3>1 DEF Schedules
  <2>2. CASE ~t.disabled
    <3>1. /\ t.capLeft \in 0..Interval /\ t.gtsLeft \in 0..Interval
          /\ t.lostBeacons \in 0..par.maxLostBeacons /\ t.assignedGTS \in {0, par.requestGTS}
      BY <1>1, <1>2, <1>5 DEF Ranged
    <3> QED
      BY <1>1, <1>2, <2>1, <2>2, <3>1, SchedulesOK
  <2>3. CASE t.disabled
    <3>1. \A x \in Timer : s.timers[x] = Off /\ t.timers[x] = Off
      BY <1>1, <1>2, <1>3, <2>3 DEF Ranged, Off
    <3>2. /\ t.capLeft \in 0..Interval /\ t.gtsLeft \in 0..Interval
          /\ t.lostBeacons \in 0..par.maxLostBeacons /\ t.assignedGTS \in {0, par.requestGTS}
      BY <1>1, <1>2, <1>5 DEF Ranged
    <3>3. /\ par.maxBackoff \in Nat /\ par.maxExchange \in Nat /\ Interval \in Nat /\ Off = -1
      BY DEF Setting, Off
    <3>4. \A x \in Timer : t.timers[x] = -1
      BY <3>1, <3>3
    <3>5. "PERFORM_CCA" \in Timer /\ "ACK_TIMEOUT" \in Timer /\ "ATTEMPT_TX" \in Timer
      BY DEF Timer
    <3> QED
      BY <2>3, <3>2, <3>3, <3>4, <3>5 DEF Ranged
  <2> QED
    BY <2>2, <2>3
<1>10. n = Hub /\ s.frame.type = "BEACON" => s.to = {}
  <2>1. SUFFICES ASSUME n = Hub, s.frame.type = "BEACON", s.to # {}
                 PROVE  FALSE
    OBVIOUS
  <2>2. ~s.disabled
    BY <1>1, <2>1 DEF Lasts, Ranged, Off, Timer
  <2>3. s.timers["ATTEMPT_TX"] = 0
    BY <2>1, <2>2 DEF NodeOK, Leads
  <2> QED
    BY <2>3 DEF Timer
<1>11. n = Hub => Leads(t)
  <2>1. SUFFICES ASSUME n = Hub
                 PROVE  Leads(t)
    OBVIOUS
  <2>2. Leads(s)
    BY <2>1 DEF NodeOK
  <2>3. \A x \in {"BEACON_TIMEOUT", "GTS_START", "SLEEP_START", "BACK_TO_SETUP"} : ~Running(t, x)
    BY <1>4, <2>2 DEF Leads, Timer
  <2>4. ~t.disabled => Running(t, "FRAME_START")
    BY <1>2, <1>4, <2>2 DEF Leads, Timer
  <2>5. t.frame.type = "BEACON" => t.to = {}
    BY <1>2, <1>10, <2>1 DEF SameRadio
  <2>6. t.gtsLeft = 0
    BY <1>5, <2>2 DEF Leads
  <2> QED
    BY <1>2, <2>2, <2>3, <2>4, <2>5, <2>6 DEF Leads, SamePackets
<1>12. n # Hub => Timed(t)
  <2>1. SUFFICES ASSUME n # Hub
                 PROVE  Timed(t)
    OBVIOUS
  <2>2. Timed(s)
    BY <2>1 DEF NodeOK
  <2>3. \A x \in {"FRAME_START", "BEACON_TIMEOUT", "SLEEP_START", "GTS_START"} :
          /\ Running(t, x) <=> Running(s, x)
          /\ Running(s, x) => s.timers[x] \in Nat \ {0} /\ t.timers[x] = s.timers[x] - 1
          /\ ~Running(s, x) => t.timers[x] = Off
    BY <1>3, <1>4 DEF Running, Timer
  <2>4. Expects(t) <=> Expects(s)
    BY <2>3 DEF Expects
  <2>5. t.timers["BEACON_TIMEOUT"] <= 2
    BY <1>1, <2>2, <2>3 DEF Timed, Off
  <2>6. t.gtsLeft > 0 /\ ~t.disabled => Expects(t)
    BY <1>2, <1>5, <2>2, <2>4 DEF Timed
  <2>7. Running(t, "FRAME_START") => t.gtsLeft <= t.timers["FRAME_START"] + 1
    BY <1>1, <1>5, <2>2, <2>3 DEF Timed
  <2>8. Running(t, "BEACON_TIMEOUT") => t.gtsLeft = 0 \/ t.gtsLeft < t.timers["BEACON_TIMEOUT"]
    BY <1>1, <1>5, <2>2, <2>3 DEF Timed
  <2>9. Running(t, "SLEEP_START") =>
          /\ t.associated /\ Expects(t)
          /\ Running(t, "FRAME_START") => t.timers["SLEEP_START"] <= t.timers["FRAME_START"] + 1
          /\ Running(t, "BEACON_TIMEOUT") => t.timers["SLEEP_START"] < t.timers["BEACON_TIMEOUT"]
    BY <1>1, <1>2, <2>2, <2>3, <2>4 DEF Timed
  <2>10. Running(t, "GTS_START") =>
           /\ t.associated /\ par.requestGTS > 0
           /\ t.timers["GTS_START"] = t.gtsLeft - 2 * par.requestGTS - 1
    BY <1>1, <1>2, <1>5, <2>2, <2>3 DEF Timed
  <2>11. t.macState = "GTS" /\ ~t.disabled => t.gtsLeft <= 2 * par.requestGTS + 1
    BY <1>1, <1>2, <1>5, <2>2 DEF Timed
  <2> QED
    BY <1>2, <2>2, <2>3, <2>4, <2>5, <2>6, <2>7, <2>8, <2>9, <2>10, <2>11 DEF Timed
<1>13. n # Hub => Member(t)
  <2>1. /\ Running(t, "FRAME_START") <=> Running(s, "FRAME_START")
        /\ Running(t, "BEACON_TIMEOUT") <=> Running(s, "BEACON_TIMEOUT")
        /\ Running(t, "GTS_START") <=> Running(s, "GTS_START")
    BY <1>4 DEF Timer
  <2>2. n # Hub => Member(s)
    BY DEF NodeOK
  <2>3. t.currentPacket = s.currentPacket /\ t.awake = s.awake
    BY <1>2 DEF SamePackets, SameRadio
  <2> QED
    BY <1>2, <2>1, <2>2, <2>3 DEF Member, Expects
<1> QED
  BY <1>2, <1>6, <1>7, <1>8, <1>9, <1>10, <1>11, <1>12, <1>13 DEF NodeOK, t

\* A tick of all.
LEMMA TickOK ==
    ASSUME Setting, NodesOK, par' = par, Tick
    PROVE  NodesOK'
<1>1. mac' = [n \in Node |-> Ticked(mac[n])]
  BY DEF Tick, Ticked
<1>2. \A n \in Node : /\ NodeOK(n, mac[n]) /\ mac[n] \in NodeState
                      /\ \A x \in Timer : mac[n].timers[x] # 0
                      /\ mac[n].to # {} => Lasts(mac[n])
  BY DEF NodesOK, NodeOK, Tick, Due, Transmitting
<1>3. \A n \in Node : NodeOK(n, mac'[n]) /\ mac'[n] \in NodeState
  BY <1>1, <1>2, TickedOK DEF NodeOK
<1>4. mac[Hub].frame.type = "BEACON" => mac[Hub].to = {}
  BY <1>2, TickedOK DEF Setting
<1>5. ASSUME NEW n \in Device PROVE Paced(mac'[Hub], n, mac'[n])
  <2> DEFINE h == mac[Hub]
             s == mac[n]
             k == Ticked(h)
             t == Ticked(s)
  <2>1. /\ Hub \in Node /\ n \in Node /\ Paced(h, n, s) /\ Ranged(s) /\ Ranged(h)
        /\ \A x \in Timer : h.timers[x] # 0 /\ s.timers[x] # 0
        /\ h \in NodeState /\ s \in NodeState
        /\ ~h.disabled => Running(h, "FRAME_START")
        /\ h.frame.type = "BEACON" => h.to = {}
        /\ Interval \in Nat
    BY <1>2, <1>4 DEF NodesOK, NodeOK, Leads, Setting
  <2>2. mac'[Hub] = k /\ mac'[n] = t
    BY <1>1, <2>1
  <2> HIDE DEF h, s
  <2>3. /\ SameRadio(h, k) /\ k.disabled = h.disabled
        /\ k.timers["FRAME_START"] = Less(h.timers["FRAME_START"])
    BY <2>1, TickedFields DEF Timer
  <2>4. /\ t.gtsLeft = Less(s.gtsLeft) /\ t.capLeft = Less(s.capLeft)
        /\ t.timers["FRAME_START"] = Less(s.timers["FRAME_START"])
        /\ t.timers["BEACON_TIMEOUT"] = Less(s.timers["BEACON_TIMEOUT"])
    BY <2>1, TickedFields DEF Timer
  <2> HIDE DEF k, t
  <2>5. /\ s.gtsLeft \in 0..Interval /\ s.capLeft \in 0..Interval
        /\ s.timers["FRAME_START"] \in Off..Interval /\ s.timers["FRAME_START"] # 0
        /\ s.timers["BEACON_TIMEOUT"] \in Off..Interval /\ s.timers["BEACON_TIMEOUT"] # 0
        /\ h.timers["FRAME_START"] \in Off..Interval /\ h.timers["FRAME_START"] # 0
    <3>1. \A x \in {"FRAME_START", "BEACON_TIMEOUT"} : x \in Timer \ Transmissions
      BY DEF Timer, Transmissions
    <3>2. \A x \in Timer : s.timers[x] \in Int /\ h.timers[x] \in Int
      BY <2>1 DEF NodeState
    <3> QED
      BY <2>1, <3>1, <3>2 DEF Ranged, Off
  <2>6. ~(k.frame.type = "BEACON" /\ n \in k.to)
    BY <2>1, <2>3 DEF SameRadio
  <2>7. ASSUME ~k.disabled
        PROVE  LET left == k.timers["FRAME_START"]
               IN  /\ t.gtsLeft <= left /\ t.capLeft <= left
                   /\ Running(t, "FRAME_START") => t.timers["FRAME_START"] = left - 1
                   /\ Running(t, "BEACON_TIMEOUT") =>
                        t.timers["BEACON_TIMEOUT"] = left + 1
                          \/ t.timers["BEACON_TIMEOUT"] = left + 1 - Interval
    <3>1. PICK a \in 1..Interval : a = h.timers["FRAME_START"]
      BY <2>1, <2>3, <2>5, <2>7 DEF Running, Off
    <3>2. k.timers["FRAME_START"] = a - 1
      BY <2>3, <3>1 DEF Less
    <3>3. /\ s.gtsLeft <= a /\ s.capLeft <= a
          /\ Running(s, "FRAME_START") => s.timers["FRAME_START"] = a - 1
          /\ Running(s, "BEACON_TIMEOUT") =>
               s.timers["BEACON_TIMEOUT"] = a + 1 \/ s.timers["BEACON_TIMEOUT"] = a + 1 - Interval
      BY <2>1, <2>3, <2>7, <3>1 DEF Paced
    <3>4. t.gtsLeft <= a - 1 /\ t.capLeft <= a - 1
      BY <2>1, <2>4, <2>5, <3>1, <3>3 DEF Less
    <3>5. Running(t, "FRAME_START") => t.timers["FRAME_START"] = (a - 1) - 1
      BY <2>1, <2>4, <2>5, <3>1, <3>3 DEF Less, Running, Off
    <3>6. Running(t, "BEACON_TIMEOUT") =>
            t.timers["BEACON_TIMEOUT"] = (a - 1) + 1
              \/ t.timers["BEACON_TIMEOUT"] = (a - 1) + 1 - Interval
      BY <2>1, <2>4, <2>5, <3>1, <3>3 DEF Less, Running, Off
    <3> QED
      BY <3>2, <3>4, <3>5, <3>6
  <2>8. Paced(k, n, t)
    BY <2>6, <2>7 DEF Paced
  <2> QED
    BY <2>2, <2>8
<1>6. mac' \in [Node -> NodeState]
  BY <1>1, <1>3
<1> QED
  BY <1>3, <1>5, <1>6, Primed

-----------------------------------------------------------------------------
(* The invariant holds. *)

\* A node as it starts.
LEMMA StartupOK ==
    ASSUME Setting, NEW n \in Node
    PROVE  /\ NodeOK(n, Startup(n))
           /\ Startup(n).gtsLeft = 0 /\ Startup(n).capLeft = 0 /\ Startup(n).frame = NoFrame
           /\ \A x \in Timer :
                Startup(n).timers[x] = IF n = Hub /\ x = "FRAME_START" THEN 0 ELSE Off
<1> DEFINE s == Startup(n)
           all == [x \in Timer |-> IF n = Hub /\ x = "FRAME_START" THEN 0 ELSE Off]
           disabled == n \notin par.nodes
           associated == n = Hub
<1>1. /\ all \in [Timer -> Int] /\ disabled \in BOOLEAN /\ associated \in BOOLEAN
      /\ NoFrame \in AnyFrame /\ Sound(NoFrame) /\ NoFrame.type = "none"
      /\ <<>> \in Seq(AnyFrame) /\ {} \in SUBSET Node
  BY NoFrameOK DEF Off, Sound
<1>2. s = [macState |-> "SETUP", associated |-> associated, timers |-> all,
           currentPacket |-> NoFrame, retries |-> 0, NB |-> 0, CW |-> 0,
           TXBuffer |-> <<>>, assignedGTS |-> 0, lostBeacons |-> 0,
           capLeft |-> 0, gtsLeft |-> 0, adjacent |-> FALSE, awake |-> TRUE,
           disabled |-> disabled, frame |-> NoFrame, to |-> {}, tried |-> 0, guest |-> TRUE,
           carried |-> FALSE]
  BY DEF Startup
<1>3. \A x \in Timer : all[x] = IF n = Hub /\ x = "FRAME_START" THEN 0 ELSE Off
  OBVIOUS
<1> HIDE DEF all, disabled, associated, s
<1>4. s \in NodeState
  BY <1>1, <1>2 DEF NodeState, MacState
<1>5. /\ s.macState = "SETUP" /\ s.associated = associated /\ s.timers = all
      /\ s.currentPacket = NoFrame /\ s.retries = 0 /\ s.NB = 0 /\ s.CW = 0
      /\ s.TXBuffer = <<>> /\ s.assignedGTS = 0 /\ s.lostBeacons = 0
      /\ s.capLeft = 0 /\ s.gtsLeft = 0 /\ ~s.adjacent /\ s.awake
      /\ s.disabled = disabled /\ s.frame = NoFrame /\ s.to = {} /\ s.tried = 0 /\ s.guest
  BY <1>2
<1>6. /\ \A x \in Timer : s.timers[x] = IF n = Hub /\ x = "FRAME_START" THEN 0 ELSE Off
      /\ n # Hub => \A x \in Timer : ~Running(s, x)
      /\ ~Running(s, "PERFORM_CCA")
  BY <1>3, <1>5 DEF Running, Timer
<1>7. n = Hub => ~disabled /\ associated
  BY DEF disabled, associated, Setting
<1>8. Carries(n, s)
  BY <1>1, <1>5 DEF Carries, Setting
<1>9. Counted(s) /\ Served(s)
  BY <1>5, <1>6 DEF Counted, Attempts, Sensed, Served, Setting
<1>10. Ranged(s)
  BY <1>5, <1>6, <1>7 DEF Ranged, Off, Setting, Timer, Transmissions
<1>11. n = Hub => Leads(s)
  BY <1>1, <1>5, <1>6, <1>7 DEF Leads, Running, Off, Timer
<1>12. n # Hub => Timed(s)
  BY <1>5, <1>6 DEF Timed, Expects, Off, Timer
<1>13. n # Hub => Member(s)
  BY <1>1, <1>5 DEF Member
<1> QED
  BY <1>4, <1>5, <1>6, <1>8, <1>9, <1>10, <1>11, <1>12, <1>13 DEF NodeOK, s

\* The invariant holds at the start.
LEMMA InitOK ==
    ASSUME Init
    PROVE  IInv
<1>1. Setting /\ par \in Pars
  BY SettingOK DEF Init
<1>2. \A n \in Node : mac[n] = Startup(n) /\ NodeOK(n, mac[n]) /\ mac[n] \in NodeState
  BY <1>1, StartupOK DEF Init, NodeOK
<1>3. mac \in [Node -> NodeState]
  <2>1. mac = [n \in Node |-> Startup(n)]
    BY DEF Init
  <2> QED
    BY <1>2, <2>1
<1>4. ASSUME NEW n \in Device PROVE Paced(mac[Hub], n, mac[n])
  <2>1. n \in Node /\ n # Hub /\ Hub \in Node
    BY <1>1 DEF Setting
  <2>2. /\ mac[Hub].frame = NoFrame /\ mac[Hub].timers["FRAME_START"] = 0
        /\ mac[n].gtsLeft = 0 /\ mac[n].capLeft = 0
        /\ mac[n].timers["FRAME_START"] = Off /\ mac[n].timers["BEACON_TIMEOUT"] = Off
    BY <1>1, <1>2, <2>1, StartupOK DEF Timer
  <2>3. NoFrame.type = "none"
    BY DEF NoFrame
  <2> QED
    BY <2>2, <2>3 DEF Paced, Running
<1>5. NodesOK
  BY <1>2, <1>3, <1>4 DEF NodesOK
<1>6. ListOK
  <2>1. /\ hub = [associatedDevices |-> {}, GTSlist |-> <<>>, announced |-> 0]
        /\ Len(<<>>) = 0 /\ <<>> \in Seq(Device) /\ DOMAIN <<>> = {}
    BY DEF Init
  <2>2. CAPend(0) >= 2 * minCAPLength
    BY <1>1 DEF CAPend, gtsStart, Setting
  <2> QED
    BY <2>1, <2>2 DEF ListOK, MaxGTS
<1>7. /\ sent \in [Node -> Seq(Address)]
      /\ pktHistory \in [Node -> [Node -> Nat]]
      /\ delivered \in [Node -> Seq(Node \X Nat)] /\ acked \in [Node -> SUBSET Nat]
  <2>1. <<>> \in Seq(Address) /\ <<>> \in Seq(Node \X Nat)
    OBVIOUS
  <2> QED
    BY <2>1 DEF Init
<1> QED
  BY <1>1, <1>5, <1>6, <1>7 DEF IInv

\* Most steps change the nodes only.
LEMMA NodesOnly ==
    ASSUME IInv, NodesOK', UNCHANGED <<par, hub, sent, pktHistory, delivered, acked>>
    PROVE  IInv'
BY DEF IInv, ListOK, CAPend, gtsStart

\* What follows a timer.
LEMMA TimersOK ==
    ASSUME IInv, NEW n \in Node, Timers(n)
    PROVE  IInv'
<1>1. Setting /\ NodesOK
  BY SettingOK DEF IInv
<1>2. CASE FrameStart(n)
  BY <1>1, <1>2, FrameStartOK, NodesOnly DEF FrameStart
<1>3. CASE GtsStart(n)
  BY <1>1, <1>3, GtsStartOK, NodesOnly DEF GtsStart
<1>4. CASE BeaconTimeout(n)
  BY <1>1, <1>4, BeaconTimeoutOK, NodesOnly DEF BeaconTimeout
<1>5. CASE AckTimeout(n)
  BY <1>1, <1>5, AckTimeoutOK, NodesOnly DEF AckTimeout
<1>6. CASE AttemptTx(n)
  BY <1>1, <1>6, AttemptTxOK, NodesOnly DEF AttemptTx
<1>7. CASE SleepStart(n)
  BY <1>1, <1>7, SleepStartOK, NodesOnly DEF SleepStart
<1>8. CASE BackToSetup(n)
  BY <1>1, <1>8, BackToSetupOK, NodesOnly DEF BackToSetup
<1>9. CASE CcaInVain(n)
  BY <1>1, <1>9, InVainOK, NodesOnly DEF CcaInVain
<1>10. CASE CcaNotValid(n)
  BY <1>1, <1>10, NotValidOK, NodesOnly DEF CcaNotValid
<1>11. CASE CcaClear(n)
  BY <1>1, <1>11, ClearChannelOK, NodesOnly DEF CcaClear
<1>12. CASE CcaBusy(n)
  BY <1>1, <1>12, BusyChannelOK, NodesOnly DEF CcaBusy
<1> QED
  BY <1>2, <1>3, <1>4, <1>5, <1>6, <1>7, <1>8, <1>9, <1>10, <1>11, <1>12 DEF Timers

\* Every step keeps the invariant.
LEMMA NextOK ==
    ASSUME IInv, Next
    PROVE  IInv'
<1>1. Setting /\ NodesOK /\ ListOK
  BY SettingOK DEF IInv
<1>2. CASE Tick
  BY <1>1, <1>2, TickOK, NodesOnly DEF Tick
<1>3. CASE HubFrameStart
  <2>1. NodesOK' /\ ListOK'
    BY <1>1, <1>3, HubFrameStartOK DEF HubFrameStart
  <2> QED
    BY <1>3, <2>1 DEF HubFrameStart, IInv
<1>4. ASSUME NEW n \in Node, Timers(n) PROVE IInv'
  BY <1>4, TimersOK
<1>5. ASSUME NEW n \in Node, Disable(n) PROVE IInv'
  BY <1>1, <1>5, DisableOK, NodesOnly DEF Disable
<1>6. ASSUME NEW n \in Node, ReceiveBeacon(n) PROVE IInv'
  BY <1>1, <1>6, ReceiveBeaconOK, NodesOnly DEF ReceiveBeacon
<1>7. ASSUME NEW n \in Node, ReceiveAssociate(n) PROVE IInv'
  <2>1. NodesOK' /\ ListOK'
    BY <1>1, <1>7, ReceiveAssociateOK DEF ReceiveAssociate
  <2> QED
    BY <1>7, <2>1 DEF ReceiveAssociate, IInv
<1>8. ASSUME NEW n \in Node, ReceiveGtsRequest(n) PROVE IInv'
  <2>1. NodesOK' /\ ListOK'
    BY <1>1, <1>8, ReceiveGtsRequestOK DEF ReceiveGtsRequest
  <2> QED
    BY <1>8, <2>1 DEF ReceiveGtsRequest, IInv
<1>9. ASSUME NEW n \in Node, NEW m \in Node, ReceiveData(m, n) PROVE IInv'
  <2>1. NodesOK'
    BY <1>1, <1>9, ReceiveDataOK DEF ReceiveData
  <2>2. mac[m].frame.sn \in Nat
    BY <1>1 DEF NodesOK, NodeOK, Carries, Sound, AnyFrame
  <2>3. PICK k \in Nat : k = mac[m].frame.sn
    BY <2>2
  <2>4. pktHistory' \in [Node -> [Node -> Nat]]
    <3>1. \/ pktHistory' = pktHistory
          \/ pktHistory' = [pktHistory EXCEPT ![n] = [pktHistory[n] EXCEPT ![m] = k]]
      BY <1>9, <2>3 DEF ReceiveData
    <3>2. pktHistory \in [Node -> [Node -> Nat]]
      BY DEF IInv
    <3>3. [pktHistory[n] EXCEPT ![m] = k] \in [Node -> Nat]
      BY <2>3, <3>2
    <3> QED
      BY <3>1, <3>2, <3>3
  <2>5. delivered' \in [Node -> Seq(Node \X Nat)]
    <3> DEFINE e == <<m, k>>
               q == Append(delivered[n], e)
    <3>1. delivered' = delivered \/ delivered' = [delivered EXCEPT ![n] = q]
      BY <1>9, <2>3 DEF ReceiveData
    <3>2. e \in Node \X Nat
      BY <2>3
    <3> HIDE DEF e
    <3>3. delivered \in [Node -> Seq(Node \X Nat)]
      BY DEF IInv
    <3>4. q \in Seq(Node \X Nat)
      <4> DEFINE S == Node \X Nat
      <4>1. delivered[n] \in Seq(S) /\ e \in S
        BY <3>2, <3>3
      <4> HIDE DEF S
      <4>2. q \in Seq(S)
        BY <4>1
      <4> QED
        BY <4>2 DEF S
    <3> HIDE DEF q
    <3> QED
      BY <3>1, <3>3, <3>4
  <2>6. ListOK' /\ par' = par /\ sent' = sent /\ acked' = acked
    BY <1>1, <1>9 DEF ReceiveData, ListOK, CAPend, gtsStart
  <2> QED
    BY <2>1, <2>4, <2>5, <2>6 DEF IInv
<1>10. ASSUME NEW n \in Node, NEW m \in Node, ReceiveAck(m, n) PROVE IInv'
  <2>1. NodesOK'
    BY <1>1, <1>10, ReceiveAckOK DEF ReceiveAck
  <2>2. mac[n].currentPacket.sn \in Nat
    BY <1>1 DEF NodesOK, NodeOK, Carries, Sound, AnyFrame
  <2>3. acked' \in [Node -> SUBSET Nat]
    <3>1. PICK k \in Nat : k = mac[n].currentPacket.sn
      BY <2>2
    <3>2. acked' = acked \/ acked' = [acked EXCEPT ![n] = @ \cup {k}]
      BY <1>10, <3>1 DEF ReceiveAck
    <3>3. acked \in [Node -> SUBSET Nat]
      BY DEF IInv
    <3> QED
      BY <3>2, <3>3
  <2>4. /\ ListOK' /\ par' = par /\ sent' = sent
        /\ pktHistory' = pktHistory /\ delivered' = delivered
    BY <1>1, <1>10 DEF ReceiveAck, ListOK, CAPend, gtsStart
  <2> QED
    BY <2>1, <2>3, <2>4 DEF IInv
<1>11. ASSUME NEW n \in Node, NEW m \in Node, Lose(m, n) PROVE IInv'
  BY <1>1, <1>11, LoseOK, NodesOnly DEF Lose
<1>12. ASSUME NEW n \in Node, NEW t \in par.traffic, t[1] = n, FromNetworkLayer(n, t[2])
       PROVE  IInv'
  <2>1. t[2] \in Address
    BY <1>1 DEF Setting
  <2>2. PICK dst \in Address : dst = t[2]
    BY <2>1
  <2>3. FromNetworkLayer(n, dst)
    BY <1>12, <2>2
  <2>4. sent \in [Node -> Seq(Address)]
    BY DEF IInv
  <2>5. NodesOK'
    BY <1>1, <2>3, <2>4, FromNetworkLayerOK DEF FromNetworkLayer
  <2>6. sent' \in [Node -> Seq(Address)]
    <3>1. sent' = [sent EXCEPT ![n] = Append(@, dst)]
      BY <2>3 DEF FromNetworkLayer
    <3> QED
      BY <2>2, <2>4, <3>1
  <2>7. /\ ListOK' /\ par' = par
        /\ pktHistory' = pktHistory /\ delivered' = delivered /\ acked' = acked
    BY <1>1, <2>3 DEF FromNetworkLayer, ListOK, CAPend, gtsStart
  <2> QED
    BY <2>5, <2>6, <2>7 DEF IInv
<1> QED
  BY <1>2, <1>3, <1>4, <1>5, <1>6, <1>7, <1>8, <1>9, <1>10, <1>11, <1>12 DEF Next, Receive

\* The state of every node and the coordinator's list stay in order.
THEOREM Inductive == Spec => []IInv
<1>1. Init => IInv
  BY InitOK
<1>2. IInv /\ [Next]_vars => IInv'
  <2>1. ASSUME IInv, UNCHANGED vars PROVE IInv'
    <3>1. NodesOK' /\ UNCHANGED <<par, hub, sent, pktHistory, delivered, acked>>
      <4>1. par' = par /\ mac' = mac
        BY <2>1 DEF vars
      <4>2. /\ mac' \in [Node -> NodeState] /\ \A n \in Node : NodeOK(n, mac'[n])
            /\ \A n \in Device : Paced(mac'[Hub], n, mac'[n])
        BY <2>1, <4>1 DEF IInv, NodesOK
      <4> QED
        BY <2>1, <4>1, <4>2, Primed DEF vars
    <3> QED
      BY <2>1, <3>1, NodesOnly
  <2> QED
    BY <2>1, NextOK
<1> QED
  BY <1>1, <1>2, PTL DEF Spec

\* The types of all variables.
THEOREM TypeCorrect == Spec => []TypeOK
<1>1. IInv => TypeOK
  <2>1. ASSUME IInv, NEW n \in Node
        PROVE  LET s == mac[n]
               IN  /\ s.macState \in MacState
                   /\ \A t \in Timer : s.timers[t] \in Off..Latest(t)
                   /\ FrameOK(s.currentPacket) /\ FrameOK(s.frame) /\ s.to \subseteq Node \ {n}
                   /\ s.to # {} => s.frame # NoFrame
                   /\ s.retries \in (IF s.currentPacket = NoFrame THEN -1 ELSE 0)..par.macMaxFrameRetries
                   /\ s.tried \in 0..par.macMaxFrameRetries
                   /\ s.NB \in 0..(par.macMaxCSMABackoffs + 1) /\ s.CW \in 0..2
                   /\ s.lostBeacons \in 0..par.maxLostBeacons
                   /\ Len(s.TXBuffer) <= macBufferSize
                   /\ s.assignedGTS \in {0, par.requestGTS}
                   /\ {s.capLeft, s.gtsLeft} \subseteq 0..Interval
    <3> DEFINE s == mac[n]
    <3>1. s \in NodeState /\ Carries(n, s) /\ Counted(s) /\ Ranged(s)
      BY <2>1 DEF IInv, NodesOK, NodeOK
    <3>2. s.macState \in MacState /\ s.retries \in Int /\ s.tried \in Int
      BY <3>1 DEF NodeState
    <3>3. par.macMaxFrameRetries \in Nat
      BY <2>1, SettingOK DEF IInv, Setting
    <3>4. /\ s.retries \in (IF s.currentPacket = NoFrame THEN -1 ELSE 0)..par.macMaxFrameRetries
          /\ s.tried \in 0..par.macMaxFrameRetries
      BY <3>1, <3>2, <3>3 DEF Counted, Attempts
    <3> HIDE DEF s
    <3>6. ASSUME NEW t \in Timer PROVE s.timers[t] \in Off..Latest(t)
      <4>1. s.timers[t] \in Int
        BY <3>1 DEF NodeState
      <4>2. t \in Transmissions \/ s.timers[t] <= Interval
        BY <3>1 DEF Ranged
      <4>3. CASE t \in Transmissions
        BY <3>1, <4>1, <4>3 DEF Ranged, Latest, Transmissions
      <4>4. CASE t \notin Transmissions
        BY <3>1, <4>1, <4>2, <4>4 DEF Ranged, Latest, Transmissions
      <4> QED
        BY <4>3, <4>4
    <3>5. /\ FrameOK(s.currentPacket) /\ FrameOK(s.frame) /\ s.to \subseteq Node \ {n}
          /\ s.to # {} => s.frame # NoFrame
          /\ Len(s.TXBuffer) <= macBufferSize
      BY <3>1 DEF Carries, Sound
    <3> QED
      BY <3>1, <3>2, <3>4, <3>5, <3>6 DEF Counted, Attempts, Ranged, s
  <2>2. ASSUME IInv
        PROVE  hub.associatedDevices \subseteq Device /\ hub.announced \in 0..Len(hub.GTSlist)
    BY <2>2 DEF IInv, ListOK
  <2> QED
    BY <2>1, <2>2 DEF TypeOK
<1> QED
  BY <1>1, Inductive, PTL

\* The coordinator's list has each owner once and leaves the CAP its length.
THEOREM ListKept == Spec => []ListOK
<1>1. IInv => ListOK
  BY DEF IInv
<1> QED
  BY <1>1, Inductive, PTL

\* Every attempt is for the packet in service and counted as one of its own,
\* whatever beacons, answers and new packets come in between.
THEOREM AttemptsCountedAlways == Spec => []AttemptsCounted
<1>1. IInv => AttemptsCounted
  <2>1. SUFFICES ASSUME IInv, NEW n \in Node, mac[n].currentPacket # NoFrame
                 PROVE  /\ mac[n].tried + mac[n].retries =
                             IF mac[n].currentPacket.dst = BROADCAST THEN 1
                             ELSE par.macMaxFrameRetries
                        /\ Running(mac[n], "PERFORM_CCA") /\ Assesses(n) => mac[n].retries > 0
    BY DEF AttemptsCounted
  <2>2. Counted(mac[n])
    BY <2>1 DEF IInv, NodesOK, NodeOK
  <2> QED
    BY <2>1, <2>2 DEF Counted, Attempts, Sensed, Assesses
<1> QED
  BY <1>1, Inductive, PTL

\* No member of the PAN leaves packets in its buffer while it serves none.
THEOREM ServesBufferAlways == Spec => []ServesBuffer
<1>1. IInv => ServesBuffer
  BY DEF IInv, NodesOK, NodeOK, Served, ServesBuffer
<1> QED
  BY <1>1, Inductive, PTL

\* Every member is awake for the beacon and counts on it, and who sleeps has
\* its waking up before it, for any slots and any losses.
THEOREM WakesAlways == Spec => []WakesForBeacon
<1>1. IInv => WakesForBeacon
  <2>1. SUFFICES ASSUME IInv, NEW n \in Device, ~mac[n].disabled
                 PROVE  /\ mac[Hub].frame.type = "BEACON" /\ n \in mac[Hub].to
                             /\ mac[n].associated
                           => mac[n].awake /\ (Running(mac[n], "BEACON_TIMEOUT") \/ mac[n].guest)
                        /\ ~mac[n].awake => mac[n].associated /\ Running(mac[n], "FRAME_START")
    BY DEF WakesForBeacon
  <2>2. Member(mac[n]) /\ Paced(mac[Hub], n, mac[n])
    BY <2>1, SettingOK DEF IInv, NodesOK, NodeOK, Setting
  <2> QED
    BY <2>1, <2>2 DEF Member, Paced, Expects
<1> QED
  BY <1>1, Inductive, PTL

-----------------------------------------------------------------------------
(* When a packet leaves service. *)

\* Why n may give up the packet in service.
Justified(n) ==
    LET p == mac[n].currentPacket
    IN  p.type = "DATA" /\ p.dst # BROADCAST /\ mac'[n].currentPacket # p =>
           \/ mac[n].tried = par.macMaxFrameRetries
           \/ mac[n].tried + 1 = par.macMaxFrameRetries /\ CcaBusy(n)
           \/ p.sn \in acked'[n]
           \/ ~mac'[n].associated

\* The next state of n, and of all others.
LEMMA Became ==
    ASSUME NodesOK, NEW n \in Node, NEW t, Becomes(n, t)
    PROVE  mac'[n] = t /\ \A k \in Node \ {n} : mac'[k] = mac[k]
BY DEF NodesOK, Becomes

\* s is a record with packet p in service, r retries left, of a member of the PAN
\* if z.
Has(s, p, r, z) ==
    /\ {"currentPacket", "retries", "associated"} \subseteq DOMAIN s
    /\ s.currentPacket = p /\ s.retries = r /\ s.associated = z

\* A step that gives other fields new values leaves p in service.
LEMMA HasStill ==
    ASSUME NEW s, NEW p, NEW r, NEW z, Has(s, p, r, z)
    PROVE  /\ \A x, k : Has(Set(s, x, k), p, r, z) /\ Has(Stop(s, x), p, r, z)
           /\ \A f, a, t : Has([s EXCEPT !.frame = f, !.awake = a, !.to = t], p, r, z)
           /\ \A t, f : Has([s EXCEPT !.to = t, !.frame = f], p, r, z)
           /\ \A a : Has([s EXCEPT !.awake = a], p, r, z)
           /\ \A x : Has([s EXCEPT !.macState = x], p, r, z)
           /\ \A x, a : Has([s EXCEPT !.macState = x, !.awake = a], p, r, z)
           /\ \A x, k : Has([s EXCEPT !.macState = x, !.capLeft = k], p, r, z)
           /\ \A a, t : Has([s EXCEPT !.disabled = a, !.timers = t], p, r, z)
           /\ \A t, j, k : Has([s EXCEPT !.timers = t, !.capLeft = j, !.gtsLeft = k], p, r, z)
           /\ \A k : Has([s EXCEPT !.CW = k], p, r, z)
           /\ \A k, j : Has([s EXCEPT !.CW = k, !.NB = j], p, r, z)
           /\ \A j, k : Has([s EXCEPT !.NB = j, !.CW = k], p, r, z)
           /\ \A k : Has([s EXCEPT !.lostBeacons = k], p, r, z)
           /\ \A q : Has([s EXCEPT !.TXBuffer = q], p, r, z)
           /\ \A k, x, j, g, a, o, c : Has([s EXCEPT !.lostBeacons = k, !.macState = x, !.capLeft = j,
                !.gtsLeft = g, !.adjacent = a, !.guest = o, !.carried = c], p, r, z)
           /\ \A g, a : Has([s EXCEPT !.gtsLeft = g, !.adjacent = a], p, r, z)
<1>1. \A x, k : Has(Set(s, x, k), p, r, z)
  BY DEF Has, Set
<1>2. \A x : Has(Stop(s, x), p, r, z)
  BY <1>1 DEF Stop
<1>3. \A f, a, t : Has([s EXCEPT !.frame = f, !.awake = a, !.to = t], p, r, z)
  BY DEF Has
<1>4. \A t, f : Has([s EXCEPT !.to = t, !.frame = f], p, r, z)
  BY DEF Has
<1>5. \A a : Has([s EXCEPT !.awake = a], p, r, z)
  BY DEF Has
<1>6. \A x : Has([s EXCEPT !.macState = x], p, r, z)
  BY DEF Has
<1>7. \A x, a : Has([s EXCEPT !.macState = x, !.awake = a], p, r, z)
  BY DEF Has
<1>8. \A x, k : Has([s EXCEPT !.macState = x, !.capLeft = k], p, r, z)
  BY DEF Has
<1>9. \A a, t : Has([s EXCEPT !.disabled = a, !.timers = t], p, r, z)
  BY DEF Has
<1>10. \A t, j, k : Has([s EXCEPT !.timers = t, !.capLeft = j, !.gtsLeft = k], p, r, z)
  BY DEF Has
<1>11. \A k : Has([s EXCEPT !.CW = k], p, r, z)
  BY DEF Has
<1>12. \A k, j : Has([s EXCEPT !.CW = k, !.NB = j], p, r, z)
  BY DEF Has
<1>13. \A j, k : Has([s EXCEPT !.NB = j, !.CW = k], p, r, z)
  BY DEF Has
<1>14. \A k : Has([s EXCEPT !.lostBeacons = k], p, r, z)
  BY DEF Has
<1>15. \A q : Has([s EXCEPT !.TXBuffer = q], p, r, z)
  BY DEF Has
<1>16. \A k, x, j, g, a, o, c : Has([s EXCEPT !.lostBeacons = k, !.macState = x, !.capLeft = j,
                !.gtsLeft = g, !.adjacent = a, !.guest = o, !.carried = c], p, r, z)
  BY DEF Has
<1>17. \A g, a : Has([s EXCEPT !.gtsLeft = g, !.adjacent = a], p, r, z)
  BY DEF Has
<1> QED
  BY <1>1, <1>2, <1>3, <1>4, <1>5, <1>6, <1>7, <1>8, <1>9, <1>10, <1>11, <1>12, <1>13, <1>14, <1>15, <1>16, <1>17

\* What every node has in service.
LEMMA HasIt ==
    ASSUME NodesOK, NEW n \in Node
    PROVE  /\ Has(mac[n], mac[n].currentPacket, mac[n].retries, mac[n].associated)
           /\ \A x : Has(After(n, x), mac[n].currentPacket, mac[n].retries, mac[n].associated)
<1>1. Has(mac[n], mac[n].currentPacket, mac[n].retries, mac[n].associated)
  BY DEF NodesOK, NodeState, Has
<1> QED
  BY <1>1, HasStill DEF After

\* Timers of the superframe, and death, leave the packet in service.
LEMMA TimersKeep ==
    ASSUME NodesOK, NEW n \in Node,
           \/ FrameStart(n) \/ GtsStart(n) \/ SleepStart(n) \/ BackToSetup(n)
           \/ CcaInVain(n) \/ CcaNotValid(n) \/ Disable(n)
    PROVE  mac'[n].currentPacket = mac[n].currentPacket
<1> DEFINE p == mac[n].currentPacket
           r == mac[n].retries
           z == mac[n].associated
<1>1. Has(mac[n], p, r, z) /\ \A x : Has(After(n, x), p, r, z)
  BY HasIt
<1> HIDE DEF p, r, z
<1>2. CASE FrameStart(n)
  <2> DEFINE a == [After(n, "FRAME_START") EXCEPT !.awake = TRUE]
  <2>1. Becomes(n, Set(a, "BEACON_TIMEOUT", 2))
    BY <1>2 DEF FrameStart
  <2>2. Has(a, p, r, z)
    BY <1>1, HasStill
  <2> HIDE DEF a
  <2>3. Has(Set(a, "BEACON_TIMEOUT", 2), p, r, z)
    BY <2>2, HasStill
  <2> QED
    BY <2>1, <2>3, Became DEF Has, p
<1>3. CASE GtsStart(n)
  <2> DEFINE a == [After(n, "GTS_START") EXCEPT !.macState = "GTS", !.awake = TRUE]
             c == Set(a, "ATTEMPT_TX", 1)
  <2>1. Becomes(n, Set(c, "SLEEP_START", a.gtsLeft))
    BY <1>3 DEF GtsStart
  <2>2. Has(a, p, r, z)
    BY <1>1, HasStill
  <2> HIDE DEF a
  <2>3. Has(c, p, r, z)
    BY <2>2, HasStill
  <2> HIDE DEF c
  <2>4. Has(Set(c, "SLEEP_START", a.gtsLeft), p, r, z)
    BY <2>3, HasStill
  <2> QED
    BY <2>1, <2>4, Became DEF Has, p
<1>4. CASE SleepStart(n)
  <2> DEFINE s == After(n, "SLEEP_START")
             a == [s EXCEPT !.macState = "SLEEP", !.awake = FALSE]
             c == Stop(a, "PERFORM_CCA")
  <2>1. Becomes(n, IF Running(s, "BEACON_TIMEOUT") THEN s ELSE c)
    BY <1>4 DEF SleepStart
  <2>2. Has(a, p, r, z) /\ Has(s, p, r, z)
    BY <1>1, HasStill
  <2> HIDE DEF a, s
  <2>3. Has(c, p, r, z)
    BY <2>2, HasStill
  <2> HIDE DEF c
  <2>4. Has(IF Running(s, "BEACON_TIMEOUT") THEN s ELSE c, p, r, z)
    BY <2>2, <2>3
  <2> QED
    BY <2>1, <2>4, Became DEF Has, p
<1>5. CASE BackToSetup(n)
  <2> DEFINE s == After(n, "BACK_TO_SETUP")
             a == [s EXCEPT !.macState = "SETUP"]
             c == IF s.associated THEN s ELSE a
  <2>1. Becomes(n, c)
    BY <1>5 DEF BackToSetup
  <2>2. Has(a, p, r, z) /\ Has(s, p, r, z)
    BY <1>1, HasStill
  <2> HIDE DEF a, s
  <2>3. Has(c, p, r, z)
    BY <2>2
  <2> HIDE DEF c
  <2> QED
    BY <2>1, <2>3, Became DEF Has, p
<1>6. CASE CcaInVain(n)
  BY <1>1, <1>6, Became DEF CcaInVain, Has, p
<1>7. CASE CcaNotValid(n)
  <2> DEFINE a == [After(n, "PERFORM_CCA") EXCEPT !.awake = TRUE]
  <2>1. Becomes(n, a)
    BY <1>7 DEF CcaNotValid
  <2>2. Has(a, p, r, z)
    BY <1>1, HasStill
  <2> HIDE DEF a
  <2> QED
    BY <2>1, <2>2, Became DEF Has, p
<1>8. CASE Disable(n)
  <2> DEFINE a == [mac[n] EXCEPT !.disabled = TRUE, !.timers = [t \in Timer |-> Off]]
  <2>1. Becomes(n, a)
    BY <1>8 DEF Disable
  <2>2. Has(a, p, r, z)
    BY <1>1, HasStill
  <2> HIDE DEF a
  <2> QED
    BY <2>1, <2>2, Became DEF Has, p
<1> QED
  BY <1>2, <1>3, <1>4, <1>5, <1>6, <1>7, <1>8

-----------------------------------------------------------------------------
(* The helper functions and the packet in service. *)

\* Putting it on the air uses up a retry at most.
LEMMA TransmitKeeps ==
    ASSUME NEW n, NEW s, NEW p, NEW r, NEW z, Has(s, p, r, z), NEW d
    PROVE  \E q : Has(transmitCurrentPacket(n, s, d), p, q, z)
<1> DEFINE a == Send(n, s, s.currentPacket)
           c == [a EXCEPT !.retries = @ - 1, !.tried = @ + 1]
           x == IF s.currentPacket.dst = BROADCAST THEN "ATTEMPT_TX" ELSE "ACK_TIMEOUT"
<1>1. Has(a, p, r, z)
  BY HasStill DEF Send
<1>2. transmitCurrentPacket(n, s, d) = s \/ transmitCurrentPacket(n, s, d) = Set(c, x, d)
  BY DEF transmitCurrentPacket
<1> HIDE DEF a, x
<1>3. Has(c, p, a.retries - 1, z)
  BY <1>1 DEF Has
<1> HIDE DEF c
<1>4. Has(Set(c, x, d), p, a.retries - 1, z)
  BY <1>3, HasStill
<1> QED
  BY <1>2, <1>4

\* So does an attempt.
LEMMA AttemptKeeps ==
    ASSUME NEW n, NEW s, NEW p, NEW r, NEW z, Has(s, p, r, z), NEW b, NEW d
    PROVE  \E q : Has(Attempt(n, s, b, d), p, q, z)
<1> DEFINE a == [s EXCEPT !.NB = 0, !.CW = FirstCW]
<1>1. Has(a, p, r, z)
  BY HasStill
<1>2. \/ Attempt(n, s, b, d) = s
      \/ Attempt(n, s, b, d) = transmitCurrentPacket(n, s, d)
      \/ Attempt(n, s, b, d) = Set(a, "PERFORM_CCA", b)
  BY DEF Attempt, performCSMACA
<1> HIDE DEF a
<1>3. Has(Set(a, "PERFORM_CCA", b), p, r, z)
  BY <1>1, HasStill
<1> QED
  BY <1>2, <1>3, TransmitKeeps

\* Only without a retry left does attemptTransmission give it up.
LEMMA AgainKeeps ==
    ASSUME NEW n, NEW s, NEW p, NEW r, NEW z, Has(s, p, r, z), r # 0 \/ p = NoFrame, NEW b, NEW d
    PROVE  \E q : Has(attemptTransmission(n, s, b, d), p, q, z)
<1> DEFINE t == Stop(s, "ATTEMPT_TX")
<1>1. Has(t, p, r, z)
  BY HasStill
<1>2. attemptTransmission(n, s, b, d) =
        IF Dormant(t) THEN t
        ELSE IF t.currentPacket # NoFrame /\ t.retries = 0 THEN clearCurrentPacket(n, t, b, d)
        ELSE Attempt(n, t, b, d)
  BY DEF attemptTransmission
<1> HIDE DEF t
<1>3. ~(t.currentPacket # NoFrame /\ t.retries = 0)
  BY <1>1 DEF Has
<1>4. \E q : Has(Attempt(n, t, b, d), p, q, z)
  BY <1>1, AttemptKeeps
<1> QED
  BY <1>1, <1>2, <1>3, <1>4

\* A packet for one address without a retry left has had all attempts.
LEMMA AllTried ==
    ASSUME NodesOK, Setting, NEW n \in Node,
           mac[n].currentPacket.type = "DATA", mac[n].currentPacket.dst # BROADCAST
    PROVE  /\ mac[n].tried + mac[n].retries = par.macMaxFrameRetries
           /\ mac[n].tried \in Int /\ mac[n].retries \in Int
<1>1. Counted(mac[n]) /\ mac[n] \in NodeState
  BY DEF NodesOK, NodeOK
<1>2. mac[n].currentPacket # NoFrame
  BY DEF NoFrame
<1> QED
  BY <1>1, <1>2 DEF Counted, Attempts, Sensed, NodeState

\* Another attempt of n, after changes that leave packet and retries alone.
LEMMA AgainJustified ==
    ASSUME NodesOK, Setting, NEW n \in Node, NEW s,
           Has(s, mac[n].currentPacket, mac[n].retries, mac[n].associated), NEW b, NEW d
    PROVE  \/ Justified(n)
           \/ \E q : Has(attemptTransmission(n, s, b, d),
                         mac[n].currentPacket, q, mac[n].associated)
<1>1. CASE mac[n].retries = 0
  BY <1>1, AllTried DEF Justified
<1>2. CASE mac[n].retries # 0
  BY <1>2, AgainKeeps
<1> QED
  BY <1>1, <1>2

\* The node a frame is taken from keeps its packet in service.
LEMMA Took ==
    ASSUME NodesOK, NEW m \in Node, NEW n \in Node, n \in mac[m].to, NEW t, Takes(m, n, t)
    PROVE  /\ mac'[n] = t
           /\ \A k \in Node \ {n} : mac'[k].currentPacket = mac[k].currentPacket
<1> DEFINE u == Taken(mac[m], n)
<1>1. m # n
  BY DEF NodesOK, NodeOK, Carries
<1>2. mac'[n] = t /\ mac'[m] = u /\ \A k \in Node \ {n, m} : mac'[k] = mac[k]
  BY <1>1 DEF NodesOK, Takes
<1>3. Has(u, mac[m].currentPacket, mac[m].retries, mac[m].associated)
  BY HasIt, HasStill DEF Taken
<1> HIDE DEF u
<1>4. mac'[m].currentPacket = mac[m].currentPacket
  BY <1>2, <1>3 DEF Has
<1> QED
  BY <1>2, <1>4

-----------------------------------------------------------------------------
(* The operations and the packet in service. *)

\* A busy channel costs an attempt, perhaps the last.
LEMMA BusyJustified ==
    ASSUME NodesOK, Setting, NEW n \in Node, CcaBusy(n)
    PROVE  Justified(n)
<1> DEFINE p == mac[n].currentPacket
           r == mac[n].retries
           z == mac[n].associated
           v == [After(n, "PERFORM_CCA") EXCEPT !.CW = FirstCW, !.NB = @ + 1]
           failed == IF v.currentPacket = NoFrame THEN 0 ELSE 1
           w == [v EXCEPT !.retries = @ - 1, !.tried = @ + failed]
<1>1. Has(v, p, r, z)
  <2>1. Has(After(n, "PERFORM_CCA"), p, r, z)
    BY HasIt
  <2> HIDE DEF p, r, z
  <2> QED
    BY <2>1, HasStill
<1>2. PICK b \in Backoff, d \in Exchange :
        Becomes(n, IF v.NB <= par.macMaxCSMABackoffs THEN performCSMACA(v, b)
                   ELSE attemptTransmission(n, w, b, d))
  BY DEF CcaBusy
<1> HIDE DEF v, failed
<1>3. CASE v.NB <= par.macMaxCSMABackoffs
  <2>1. mac'[n] = Set(v, "PERFORM_CCA", b)
    BY <1>2, <1>3, Became DEF performCSMACA
  <2>2. Has(Set(v, "PERFORM_CCA", b), p, r, z)
    <3> HIDE DEF p, r, z
    <3> QED
      BY <1>1, HasStill
  <2> QED
    BY <2>1, <2>2 DEF Has, Justified
<1>4. CASE ~(v.NB <= par.macMaxCSMABackoffs)
  <2>1. mac'[n] = attemptTransmission(n, w, b, d)
    BY <1>2, <1>4, Became
  <2>2. Has(w, p, r - 1, z)
    <3> HIDE DEF p, r, z
    <3> QED
      BY <1>1 DEF Has
  <2> HIDE DEF w
  <2>3. CASE r = 1
    BY <2>3, AllTried DEF Justified
  <2>4. CASE r # 1
    <3>1. r \in Int
      BY DEF NodesOK, NodeState
    <3>2. r - 1 # 0
      BY <2>4, <3>1
    <3> HIDE DEF p, r, z
    <3>3. \E q : Has(attemptTransmission(n, w, b, d), p, q, z)
      BY <2>2, <3>2, AgainKeeps
    <3> QED
      BY <2>1, <3>3 DEF Has, Justified, p
  <2> QED
    BY <2>3, <2>4
<1> QED
  BY <1>3, <1>4

\* A clear one lets it go on.
LEMMA ClearKeeps ==
    ASSUME NodesOK, NEW n \in Node, CcaClear(n)
    PROVE  mac'[n].currentPacket = mac[n].currentPacket
<1> DEFINE p == mac[n].currentPacket
           r == mac[n].retries
           z == mac[n].associated
           s == [After(n, "PERFORM_CCA") EXCEPT !.CW = @ - 1]
<1>1. Has(s, p, r, z)
  <2>1. Has(After(n, "PERFORM_CCA"), p, r, z)
    BY HasIt
  <2> HIDE DEF p, r, z
  <2> QED
    BY <2>1, HasStill
<1>2. \/ Becomes(n, Set(s, "PERFORM_CCA", 0))
      \/ \E d \in Exchange : Becomes(n, transmitCurrentPacket(n, s, d))
  BY DEF CcaClear, performCSMACA
<1> HIDE DEF s, p, r, z
<1>3. Has(Set(s, "PERFORM_CCA", 0), p, r, z)
  BY <1>1, HasStill
<1>4. \A d : \E q : Has(transmitCurrentPacket(n, s, d), p, q, z)
  BY <1>1, TransmitKeeps
<1> QED
  BY <1>2, <1>3, <1>4, Became DEF Has, p

\* Timers that lead to another attempt.
LEMMA RetryJustified ==
    ASSUME NodesOK, Setting, NEW n \in Node, AckTimeout(n) \/ AttemptTx(n)
    PROVE  Justified(n)
<1>1. ASSUME NEW x, NEW b, NEW d, Becomes(n, attemptTransmission(n, After(n, x), b, d))
      PROVE  Justified(n)
  <2>1. Has(After(n, x), mac[n].currentPacket, mac[n].retries, mac[n].associated)
    BY HasIt
  <2>2. \/ Justified(n)
        \/ \E q : Has(attemptTransmission(n, After(n, x), b, d),
                      mac[n].currentPacket, q, mac[n].associated)
    BY <2>1, AgainJustified
  <2> QED
    BY <1>1, <2>2, Became DEF Has, Justified
<1>2. CASE AckTimeout(n)
  BY <1>1, <1>2 DEF AckTimeout
<1>3. CASE AttemptTx(n)
  <2>1. CASE Running(After(n, "ATTEMPT_TX"), "ACK_TIMEOUT")
    <3>1. Becomes(n, After(n, "ATTEMPT_TX"))
      BY <1>3, <2>1 DEF AttemptTx
    <3>2. Has(After(n, "ATTEMPT_TX"), mac[n].currentPacket, mac[n].retries, mac[n].associated)
      BY HasIt
    <3> QED
      BY <3>1, <3>2, Became DEF Has, Justified
  <2>2. CASE ~Running(After(n, "ATTEMPT_TX"), "ACK_TIMEOUT")
    BY <1>1, <1>3, <2>2 DEF AttemptTx
  <2> QED
    BY <2>1, <2>2
<1> QED
  BY <1>2, <1>3

\* A missed beacon leaves it in service unless the PAN is lost.
LEMMA MissedJustified ==
    ASSUME NodesOK, NEW n \in Node, BeaconTimeout(n)
    PROVE  Justified(n)
<1> DEFINE p == mac[n].currentPacket
           r == mac[n].retries
           z == mac[n].associated
           s == [After(n, "BEACON_TIMEOUT") EXCEPT !.lostBeacons = @ + 1]
           t == [s EXCEPT !.macState = "SETUP", !.associated = FALSE,
                          !.assignedGTS = 0, !.currentPacket = NoFrame]
           a == [s EXCEPT !.macState = "SLEEP", !.awake = FALSE]
           u == IF s.associated THEN Set(a, "FRAME_START", Interval - 2) ELSE s
<1>1. Has(s, p, r, z)
  <2>1. Has(After(n, "BEACON_TIMEOUT"), p, r, z)
    BY HasIt
  <2> HIDE DEF p, r, z
  <2> QED
    BY <2>1, HasStill
<1>2. Becomes(n, IF s.lostBeacons >= par.maxLostBeacons THEN t ELSE u)
  BY DEF BeaconTimeout
<1> HIDE DEF s
<1>3. CASE s.lostBeacons >= par.maxLostBeacons
  <2>1. mac'[n] = t
    BY <1>2, <1>3, Became
  <2>2. ~t.associated
    BY <1>1 DEF Has
  <2> QED
    BY <2>1, <2>2 DEF Justified
<1>4. CASE ~(s.lostBeacons >= par.maxLostBeacons)
  <2>1. mac'[n] = u
    BY <1>2, <1>4, Became
  <2>2. Has(u, p, r, z)
    <3> HIDE DEF p, r, z
    <3>1. Has(a, p, r, z)
      BY <1>1, HasStill
    <3> HIDE DEF a
    <3>2. Has(Set(a, "FRAME_START", Interval - 2), p, r, z)
      BY <3>1, HasStill
    <3> QED
      BY <1>1, <3>2
  <2> QED
    BY <2>1, <2>2 DEF Has, Justified
<1> QED
  BY <1>3, <1>4

\* A beacon's superframe leaves it in service.
LEMMA SuperframeKeeps ==
    ASSUME NEW n, NEW s, NEW p, NEW r, NEW z, Has(s, p, r, z)
    PROVE  Has(Scheduled(n, Superframe(n, s)), p, r, z)
<1> DEFINE k == hub.announced
           mine == {i \in 1..k : hub.GTSlist[i] = n}
           i == CHOOSE j \in mine : TRUE
           c == Running(s, "ACK_TIMEOUT")
           t == [s EXCEPT !.lostBeacons = 0, !.macState = "CAP", !.capLeft = CAPend(k),
                          !.gtsLeft = 0, !.adjacent = FALSE, !.guest = ~s.associated,
                          !.carried = c]
           u == [t EXCEPT !.gtsLeft = gtsEnd(i), !.adjacent = (i = k)]
           v == Superframe(n, s)
           w == IF v.adjacent THEN v ELSE Set(v, "SLEEP_START", v.capLeft)
<1>1. v = IF mine = {} THEN t ELSE u
  BY DEF Superframe
<1>2. Has(t, p, r, z)
  <2> HIDE DEF c
  <2> QED
    BY HasStill
<1> HIDE DEF t, k, i, c
<1>3. Has(u, p, r, z)
  BY <1>2, HasStill
<1> HIDE DEF u, mine
<1>4. Has(v, p, r, z)
  BY <1>1, <1>2, <1>3
<1>5. \/ Scheduled(n, v) = Set(v, "BACK_TO_SETUP", v.capLeft)
      \/ Scheduled(n, v) = w
      \/ Scheduled(n, v) = Set(w, "GTS_START", v.gtsLeft - 2 * par.requestGTS - 1)
  BY DEF Scheduled
<1> HIDE DEF v
<1>6. Has(w, p, r, z)
  BY <1>4, HasStill
<1> HIDE DEF w
<1>7. /\ Has(Set(v, "BACK_TO_SETUP", v.capLeft), p, r, z)
      /\ Has(Set(w, "GTS_START", v.gtsLeft - 2 * par.requestGTS - 1), p, r, z)
  BY <1>4, <1>6, HasStill
<1> QED
  BY <1>5, <1>6, <1>7 DEF v

\* Who hears a beacon goes on with it, but for one outside the PAN, which asks
\* to join instead.
LEMMA BeaconJustified ==
    ASSUME Setting, NodesOK, ListOK, NEW n \in Node, ReceiveBeacon(n)
    PROVE  Justified(n) /\ \A k \in Node \ {n} : mac'[k].currentPacket = mac[k].currentPacket
<1> DEFINE s == mac[n]
           p == s.currentPacket
           r == s.retries
           z == s.associated
           u == Scheduled(n, Superframe(n, Stop(s, "BEACON_TIMEOUT")))
<1>1. Arrives(Hub, n, "BEACON") /\ s.timers["SLEEP_START"] # 0 /\ Hub \in Node
  BY DEF ReceiveBeacon, Due, Setting
<1>2. /\ Hub # n /\ n \in mac[Hub].to /\ mac[Hub].frame.type = "BEACON" /\ NodeOK(n, s)
      /\ s.awake /\ ~s.disabled
  BY <1>1, ArrivesOK
<1>3. PICK b \in Backoff, d \in Exchange :
        Takes(Hub, n, Set(attemptTransmission(n, receiveBeacon_node(n, u, b, d), b, d),
                          "FRAME_START", Interval - 1))
  BY DEF ReceiveBeacon
<1> DEFINE v == attemptTransmission(n, receiveBeacon_node(n, u, b, d), b, d)
           t == Set(v, "FRAME_START", Interval - 1)
<1>4. Has(u, p, r, z)
  <2>1. Has(s, p, r, z)
    BY HasIt
  <2> HIDE DEF p, r, z, s
  <2>2. Has(Stop(s, "BEACON_TIMEOUT"), p, r, z)
    BY <2>1, HasStill
  <2> QED
    BY <2>2, SuperframeKeeps
<1>5. /\ mac'[n] = t
      /\ \A k \in Node \ {n} : mac'[k].currentPacket = mac[k].currentPacket
  <2>1. Takes(Hub, n, t)
    BY <1>3
  <2> HIDE DEF t
  <2> QED
    BY <1>1, <1>2, <2>1, Took
<1>6. CASE z
  <2>1. u.associated
    BY <1>4, <1>6 DEF Has
  <2>2. v = attemptTransmission(n, u, b, d)
    BY <2>1 DEF receiveBeacon_node
  <2> HIDE DEF u, v
  <2>3. Justified(n) \/ \E q : Has(v, p, q, z)
    BY <1>4, <2>2, AgainJustified
  <2>4. (\E q : Has(v, p, q, z)) => (\E q : Has(t, p, q, z))
    <3> HIDE DEF p, z
    <3> QED
      BY HasStill
  <2> HIDE DEF t
  <2> QED
    BY <1>5, <2>3, <2>4 DEF Has, Justified
<1>7. CASE ~z
  <2>1. Nearly(n, u) /\ u.macState = "CAP" /\ Served(u) /\ (u.currentPacket.type = "ASSOCIATE" => ~u.associated)
    <3>1. /\ s.gtsLeft = 0 /\ ~Running(s, "FRAME_START")
          /\ s.timers["BEACON_TIMEOUT"] \in {Off, 1}
      BY <1>2 DEF NodesOK, Paced, Setting
    <3> HIDE DEF s
    <3> QED
      BY <1>1, <1>2, <3>1, BeginsOK
  <2>2. u.associated = z
    BY <1>4 DEF Has
  <2> HIDE DEF u
  <2>3. Fit(n, v) /\ Kept(u, v)
    BY <2>1, GoesOnOK
  <2> HIDE DEF v
  <2>4. ~v.associated
    BY <1>7, <2>2, <2>3 DEF Kept, SameOwn
  <2>5. ~t.associated
    BY <2>3, <2>4 DEF Fit, NodeState, Set
  <2> QED
    BY <1>5, <2>5 DEF Justified
<1> QED
  BY <1>5, <1>6, <1>7

\* An ACK ends it, or another attempt follows.
LEMMA AckJustified ==
    ASSUME Setting, NodesOK, acked \in [Node -> SUBSET Nat],
           NEW m \in Node, NEW n \in Node, ReceiveAck(m, n)
    PROVE  Justified(n) /\ \A k \in Node \ {n} : mac'[k].currentPacket = mac[k].currentPacket
<1> DEFINE s == mac[n]
           f == mac[m].frame
           p == s.currentPacket
           t == Stop(s, "ACK_TIMEOUT")
<1>1. n \in mac[m].to
  BY ArrivesOK DEF ReceiveAck
<1>2. \A u : Takes(m, n, u) => /\ mac'[n] = u
                               /\ \A k \in Node \ {n} : mac'[k].currentPacket = mac[k].currentPacket
  BY <1>1, Took
<1>3. \A k \in Node \ {n} : mac'[k].currentPacket = mac[k].currentPacket
  BY <1>2 DEF ReceiveAck
<1>4. SUFFICES ASSUME p.type = "DATA", p.dst # BROADCAST
               PROVE  Justified(n)
  BY <1>3 DEF Justified
<1>5. CASE p.sn - 1 = f.sn
  <2>1. acked' = [acked EXCEPT ![n] = @ \cup {p.sn}]
    BY <1>4, <1>5 DEF ReceiveAck
  <2>2. p.sn \in acked'[n]
    BY <2>1
  <2> QED
    BY <2>2 DEF Justified
<1>6. CASE p.sn - 1 # f.sn
  <2>1. PICK b \in Backoff, d \in Exchange : Takes(m, n, handleAckPacket(n, s, f, b, d))
    BY <1>4 DEF ReceiveAck, NoFrame
  <2>2. handleAckPacket(n, s, f, b, d) = attemptTransmission(n, t, b, d)
    BY <1>4, <1>6 DEF handleAckPacket
  <2>3. mac'[n] = attemptTransmission(n, t, b, d)
    BY <1>2, <2>1, <2>2
  <2>4. Has(t, p, s.retries, s.associated)
    BY HasIt, HasStill
  <2> HIDE DEF t
  <2>5. Justified(n) \/ \E q : Has(attemptTransmission(n, t, b, d), p, q, s.associated)
    BY <2>4, AgainJustified
  <2> QED
    BY <2>3, <2>5 DEF Has, Justified
<1> QED
  BY <1>5, <1>6

\* An answer goes out with the packet still in service.
LEMMA ReplyKeeps ==
    ASSUME NodesOK, NEW n \in Node, NEW f
    PROVE  Reply(n, mac[n], f).currentPacket = mac[n].currentPacket
<1> DEFINE a == Send(n, mac[n], f)
           p == mac[n].currentPacket
           r == mac[n].retries
           z == mac[n].associated
<1>1. Has(a, p, r, z)
  BY HasIt, HasStill DEF Send
<1> HIDE DEF a, p, r, z
<1>2. Has(Set(a, "ATTEMPT_TX", 0), p, r, z)
  BY <1>1, HasStill
<1> QED
  BY <1>2 DEF Reply, Has, a, p

\* So does every frame that is no ACK and no beacon.
LEMMA AnswersKeep ==
    ASSUME Setting, NodesOK, NEW n \in Node, NEW k \in Node,
           \/ ReceiveAssociate(n) \/ ReceiveGtsRequest(n)
           \/ \E m \in Node : ReceiveData(m, n) \/ Lose(m, n)
    PROVE  mac'[k].currentPacket = mac[k].currentPacket
<1>1. ASSUME NEW i \in Node, NEW j \in Node, NEW f, j \in mac[i].to,
             Takes(i, j, mac[j]) \/ Takes(i, j, Reply(j, mac[j], f))
      PROVE  mac'[k].currentPacket = mac[k].currentPacket
  BY <1>1, Took, ReplyKeeps
<1>2. Hub \in Node
  BY DEF Setting
<1>3. CASE ReceiveAssociate(n)
  BY <1>1, <1>2, <1>3 DEF ReceiveAssociate, Arrives
<1>4. CASE ReceiveGtsRequest(n)
  BY <1>1, <1>2, <1>4 DEF ReceiveGtsRequest, Arrives
<1>5. ASSUME NEW m \in Node, ReceiveData(m, n)
      PROVE  mac'[k].currentPacket = mac[k].currentPacket
  <2>1. n \in mac[m].to
    BY <1>5 DEF ReceiveData, Arrives
  <2>2. \/ Takes(m, n, mac[n])
        \/ Takes(m, n, Reply(n, mac[n], Frame("ACK", m, mac[m].frame.sn - 1, 0)))
    BY <1>5 DEF ReceiveData
  <2> QED
    BY <1>1, <2>1, <2>2
<1>6. ASSUME NEW m \in Node, Lose(m, n)
      PROVE  mac'[k].currentPacket = mac[k].currentPacket
  <2> DEFINE t == Taken(mac[m], n)
  <2>1. Has(t, mac[m].currentPacket, mac[m].retries, mac[m].associated)
    BY HasIt, HasStill DEF Taken
  <2>2. Becomes(m, t)
    BY <1>6 DEF Lose
  <2> HIDE DEF t
  <2> QED
    BY <2>1, <2>2, Became DEF Has
<1> QED
  BY <1>3, <1>4, <1>5, <1>6

\* The network layer's packet waits its turn behind it.
LEMMA AcceptJustified ==
    ASSUME NodesOK, NEW n \in Node, NEW dst, FromNetworkLayer(n, dst)
    PROVE  Justified(n)
<1> DEFINE s == mac[n]
           q == Frame("DATA", dst, Len(sent[n]) + 1, 0)
           o == IF Len(s.TXBuffer) < macBufferSize THEN Append(s.TXBuffer, q) ELSE s.TXBuffer
           t == [s EXCEPT !.TXBuffer = o]
<1>1. CASE s.currentPacket = NoFrame
  BY <1>1 DEF Justified, NoFrame
<1>2. CASE s.currentPacket # NoFrame
  <2>1. PICK b \in Backoff, d \in Exchange : Becomes(n, acceptNewPacket(n, s, q, b, d))
    BY DEF FromNetworkLayer
  <2>2. acceptNewPacket(n, s, q, b, d) = t
    <3> HIDE DEF q
    <3> QED
      BY <1>2 DEF acceptNewPacket
  <2>3. Has(t, s.currentPacket, s.retries, s.associated)
    <3> HIDE DEF o
    <3> QED
      BY HasIt, HasStill
  <2> HIDE DEF t
  <2> QED
    BY <2>1, <2>2, <2>3, Became DEF Has, Justified
<1> QED
  BY <1>1, <1>2

\* The coordinator's beacon leaves it in service.
LEMMA HubKeeps ==
    ASSUME NodesOK, Setting, HubFrameStart
    PROVE  mac'[Hub].currentPacket = mac[Hub].currentPacket
<1> DEFINE p == mac[Hub].currentPacket
           r == mac[Hub].retries
           z == mac[Hub].associated
           k == prepareBeacon_hub
           f == Frame("BEACON", BROADCAST, 0, 0)
           a == [mac[Hub] EXCEPT !.macState = "CAP", !.capLeft = CAPend(k)]
           c == Send(Hub, a, f)
           e == Set(c, "ATTEMPT_TX", 0)
           t == Set(e, "FRAME_START", Interval)
<1>1. Hub \in Node /\ Becomes(Hub, t)
  BY DEF HubFrameStart, Reply, Setting
<1>2. Has(mac[Hub], p, r, z)
  BY <1>1, HasIt
<1> HIDE DEF p, r, z, k, f
<1>3. Has(a, p, r, z)
  BY <1>2, HasStill
<1> HIDE DEF a
<1>4. Has(c, p, r, z)
  BY <1>3, HasStill DEF Send
<1> HIDE DEF c
<1>5. Has(e, p, r, z)
  BY <1>4, HasStill
<1> HIDE DEF e
<1>6. Has(t, p, r, z)
  BY <1>5, HasStill
<1> HIDE DEF t
<1> QED
  BY <1>1, <1>6, Became DEF Has, p

\* Time alone ends nothing.
LEMMA TickKeeps ==
    ASSUME NodesOK, Tick, NEW n \in Node
    PROVE  mac'[n].currentPacket = mac[n].currentPacket
<1> DEFINE k == [t \in Timer |-> Less(mac[n].timers[t])]
           i == Less(mac[n].capLeft)
           j == Less(mac[n].gtsLeft)
<1>1. mac'[n] = [mac[n] EXCEPT !.timers = k, !.capLeft = i, !.gtsLeft = j]
  BY DEF Tick
<1> DEFINE p == mac[n].currentPacket
           r == mac[n].retries
           z == mac[n].associated
           s == mac[n]
           u == [s EXCEPT !.timers = k, !.capLeft = i, !.gtsLeft = j]
<1>2. Has(s, p, r, z) /\ mac'[n] = u
  BY <1>1, HasIt
<1> HIDE DEF k, i, j, p, r, z, s
<1>3. Has(u, p, r, z)
  BY <1>2, HasStill
<1> HIDE DEF u
<1> QED
  BY <1>2, <1>3 DEF Has, p

\* Whatever happens, every node gives up its packet for a reason.
LEMMA StepJustified ==
    ASSUME IInv, [Next]_vars, NEW k \in Node
    PROVE  Justified(k)
<1>1. Setting /\ NodesOK /\ ListOK /\ acked \in [Node -> SUBSET Nat]
  BY SettingOK DEF IInv
<1>2. mac'[k].currentPacket = mac[k].currentPacket => Justified(k)
  BY DEF Justified
<1>3. CASE UNCHANGED vars
  BY <1>2, <1>3 DEF vars
<1>4. CASE Tick
  BY <1>1, <1>2, <1>4, TickKeeps
<1>5. CASE HubFrameStart
  <2>1. k # Hub => mac'[k] = mac[k]
    BY <1>1, <1>5 DEF HubFrameStart, Becomes, NodesOK, Setting
  <2> QED
    BY <1>1, <1>2, <1>5, <2>1, HubKeeps
<1>6. ASSUME NEW n \in Node, Timers(n) PROVE Justified(k)
  <2>1. k # n => mac'[k] = mac[k]
    <3>1. \A t : Becomes(n, t) => (k # n => mac'[k] = mac[k])
      BY <1>1, Became
    <3> QED
      BY <1>6, <3>1 DEF Timers, FrameStart, GtsStart, BeaconTimeout, AckTimeout, AttemptTx,
                        SleepStart, BackToSetup, CcaInVain, CcaNotValid, CcaClear, CcaBusy
  <2>2. mac'[n].currentPacket = mac[n].currentPacket \/ Justified(n)
    BY <1>1, <1>6, TimersKeep, BusyJustified, ClearKeeps, RetryJustified, MissedJustified
       DEF Timers
  <2> QED
    BY <1>2, <2>1, <2>2
<1>7. ASSUME NEW n \in Node, Disable(n) PROVE Justified(k)
  <2>1. k # n => mac'[k] = mac[k]
    BY <1>1, <1>7, Became DEF Disable
  <2> QED
    BY <1>1, <1>2, <1>7, <2>1, TimersKeep
<1>8. ASSUME NEW n \in Node, ReceiveBeacon(n) PROVE Justified(k)
  BY <1>1, <1>2, <1>8, BeaconJustified
<1>9. ASSUME NEW n \in Node, NEW m \in Node, ReceiveAck(m, n) PROVE Justified(k)
  BY <1>1, <1>2, <1>9, AckJustified
<1>10. ASSUME NEW n \in Node, \/ ReceiveAssociate(n) \/ ReceiveGtsRequest(n)
                             \/ \E m \in Node : ReceiveData(m, n) \/ Lose(m, n)
       PROVE  Justified(k)
  BY <1>1, <1>2, <1>10, AnswersKeep
<1>11. ASSUME NEW n \in Node, NEW dst, FromNetworkLayer(n, dst) PROVE Justified(k)
  <2>1. k # n => mac'[k] = mac[k]
    BY <1>1, <1>11, Became DEF FromNetworkLayer
  <2> QED
    BY <1>1, <1>2, <1>11, <2>1, AcceptJustified
<1> QED
  BY <1>3, <1>4, <1>5, <1>6, <1>7, <1>8, <1>9, <1>10, <1>11 DEF Next, Receive

\* A packet for one address leaves service acknowledged, after all attempts of its
\* own, or with the PAN lost: no beacon, busy channel or other frame ends it before.
THEOREM GivesUpLate == Spec => NotGivenUpEarly
<1>1. IInv /\ [Next]_vars => [\A n \in Node : Justified(n)]_vars
  BY StepJustified
<1>2. IInv /\ [Next]_vars =>
        [\A n \in Node :
           LET p == mac[n].currentPacket
           IN  p.type = "DATA" /\ p.dst # BROADCAST /\ mac'[n].currentPacket # p =>
                  \/ mac[n].tried = par.macMaxFrameRetries
                  \/ mac[n].tried + 1 = par.macMaxFrameRetries /\ CcaBusy(n)
                  \/ p.sn \in acked'[n]
                  \/ ~mac'[n].associated]_vars
  BY <1>1 DEF Justified
<1> QED
  BY <1>2, Inductive, PTL DEF Spec, NotGivenUpEarly
=============================================================================
