---------------------------- MODULE TMAC_proofs ----------------------------
(***************************************************************************)
(* The timers and retries of a TMAC node, for any number of nodes, traffic *)
(* and setting, and whatever frames reach it.                              *)
(***************************************************************************)
EXTENDS TMAC, SequenceTheorems, TLAPS

Packet == [dst : Address, sn : Nat]
Entry == [ID : Node, SN : Nat]

NodeState ==
    [macState : MacState, timers : SUBSET Timer, TXBuffer : Seq(Packet),
     txAddr : Address, txRetries : Int, primaryWakeup : BOOLEAN,
     needResync : BOOLEAN, shifted : BOOLEAN, scheduleTable : Seq(Entry),
     syncPacket : Entry, awake : BOOLEAN, tried : Int]

\* What holds of a node's fields whatever its state: the front packet's
\* parameters are its own, and a schedule that is there is served.
Base(s) ==
    /\ s \in NodeState
    /\ s.TXBuffer # <<>> => /\ s.txAddr = Head(s.TXBuffer).dst
                            /\ s.tried + s.txRetries = maxTxRetries
    /\ s.scheduleTable # <<>> => "FRAME_START" \in s.timers
    /\ s.needResync => s.scheduleTable # <<>>
    /\ "SYNC_RENEW" \in s.timers \/ "FRAME_START" \in s.timers => s.scheduleTable # <<>>

Contending == {"CS_RTS", "CS_DATA", "WAIT_FOR_CTS", "WAIT_FOR_ACK"}

\* What its state adds: the timer that ends it, and a packet to contend for.
Driven(s) ==
    /\ Base(s)
    /\ s.macState \in Waiting => "TRANSMISSION_TIMEOUT" \in s.timers
    /\ s.macState \in Sensing => "CARRIER_SENSE" \in s.timers
    /\ s.macState \in Contending => s.TXBuffer # <<>>

\* The states in which CHECK_TA must be pending; without TA extension the end
\* of the active period always puts the node to sleep.
Active(s) ==
    /\ s.macState \in {"ACTIVE", "ACTIVE_SILENT"} => "CHECK_TA" \in s.timers
    /\ par.disableTAextension /\ s.macState \notin {"SETUP", "SLEEP", "WAIT_FOR_DATA"}
            => "CHECK_TA" \in s.timers

Good(s) == Driven(s) /\ Active(s)

MacInv == mac \in [Node -> NodeState] /\ \A n \in Node : Good(mac[n])

\* Frames on their way; a SYNC frame is of a schedule some node has made.
AnyFrame == [type : {"none", "RTS", "CTS", "DATA", "ACK", "SYNC"},
             dst : Address, id : Address, sn : Nat]
AirInv ==
    /\ air \in [Node -> [Node -> AnyFrame]]
    /\ \A m, n \in Node : air[m][n].type = "SYNC" => air[m][n].id \in Node

IInv == par \in Pars /\ MacInv /\ AirInv /\ sent \in [Node -> Seq(Address)]

-----------------------------------------------------------------------------
(* The helper functions. *)

\* Setting a timer disturbs nothing, except that these two need a schedule.
LEMMA ArmOK ==
    ASSUME NEW s, Base(s), NEW t \in Timer \ {"SYNC_RENEW", "FRAME_START"}
    PROVE  /\ Base(Arm(s, t)) /\ t \in Arm(s, t).timers
           /\ Arm(s, t).macState = s.macState
           /\ Good(s) => Good(Arm(s, t))
           /\ Driven(s) => Driven(Arm(s, t))
BY DEF Arm, Base, Good, Driven, Active, NodeState, Waiting, Sensing

\* extendActivePeriod gives a node whatever its state asks of CHECK_TA.
LEMMA ExtendOK ==
    ASSUME NEW s, Driven(s)
    PROVE  Good(extendActivePeriod(s)) /\ extendActivePeriod(s).macState = s.macState
BY ArmOK DEF extendActivePeriod, Good, Driven, Active, Timer

\* Cancelling a timer keeps the fields' own invariant.
LEMMA CancelOK ==
    ASSUME NEW s, Base(s), NEW t \in Timer \ {"FRAME_START"}
    PROVE  Base(Cancel(s, t)) /\ Cancel(s, t) = [s EXCEPT !.timers = s.timers \ {t}]
BY DEF Cancel, Base, NodeState

\* performCarrierSense sets the timer of the state it enters.
LEMMA SenseOK ==
    ASSUME NEW s, Base(s), NEW st \in Sensing,
           st \in {"CS_RTS", "CS_DATA"} => s.TXBuffer # <<>>,
           par.disableTAextension => "CHECK_TA" \in s.timers
    PROVE  Good(performCarrierSense(s, st))
BY DEF performCarrierSense, setMacState, Arm, Base, Good, Driven, Active,
       NodeState, Waiting, Sensing, Contending, MacState, Timer

\* Going to sleep is always possible.
LEMMA AsleepOK ==
    ASSUME NEW s, Base(s)
    PROVE  Good(Asleep(s))
BY DEF Asleep, Base, Good, Driven, Active, NodeState, Waiting, Sensing,
       Contending, MacState

\* A wait starts with its timeout.
LEMMA WaitOK ==
    ASSUME NEW s, Base(s), NEW st \in Waiting,
           st \in {"WAIT_FOR_CTS", "WAIT_FOR_ACK"} => s.TXBuffer # <<>>
    PROVE  /\ Driven(Wait(s, st))
           /\ (st = "WAIT_FOR_DATA" \/ ~par.disableTAextension \/ "CHECK_TA" \in s.timers)
                => Good(Wait(s, st))
BY DEF Wait, setMacState, Arm, Base, Good, Driven, Active, NodeState, Waiting,
       Sensing, Contending, MacState, Timer

\* checkTxBuffer's assignments keep the fields' types.
LEMMA FreshOK ==
    ASSUME NEW s \in NodeState, NEW d \in Address, NEW r \in Int
    PROVE  [s EXCEPT !.txAddr = d, !.txRetries = r, !.tried = 0] \in NodeState
<1> DEFINE t1 == [s EXCEPT !.txAddr = d]
           t2 == [t1 EXCEPT !.txRetries = r]
<1>1. t1 \in NodeState
  BY DEF NodeState
<1> HIDE DEF t1
<1>2. t2 \in NodeState
  BY <1>1 DEF NodeState
<1> HIDE DEF t2
<1>3. [t2 EXCEPT !.tried = 0] \in NodeState
  BY <1>2 DEF NodeState
<1> QED
  BY <1>3 DEF t1, t2

\* popTxBuffer leaves the next packet with its own destination and retries.
LEMMA PopOK ==
    ASSUME NEW s, Base(s), s.TXBuffer # <<>>
    PROVE  Base(popTxBuffer(s))
<1> DEFINE q == Tail(s.TXBuffer)
           t == [s EXCEPT !.TXBuffer = q]
<1>1. s \in NodeState /\ s.TXBuffer \in Seq(Packet)
  BY DEF Base, NodeState
<1>2. q \in Seq(Packet)
  BY <1>1, HeadTailProperties
<1>3. popTxBuffer(s) = checkTxBuffer(t)
  BY DEF popTxBuffer
<1> HIDE DEF q
<1>4. t \in NodeState /\ t.TXBuffer = q /\ t.scheduleTable = s.scheduleTable
        /\ t.timers = s.timers /\ t.needResync = s.needResync
  BY <1>1, <1>2 DEF NodeState
<1> HIDE DEF t
<1>5. CASE q = <<>>
  BY <1>3, <1>4, <1>5 DEF checkTxBuffer, Base
<1>6. CASE q # <<>>
  <2> DEFINE u == [t EXCEPT !.txAddr = Head(q).dst, !.txRetries = maxTxRetries,
                            !.tried = 0]
  <2>1. Head(q) \in Packet
    BY <1>6, <1>2, HeadTailProperties
  <2>2. Head(q).dst \in Address /\ maxTxRetries \in Int
    BY <2>1, TmacAssumption DEF Packet
  <2>3. checkTxBuffer(t) = u
    BY <1>4, <1>6 DEF checkTxBuffer
  <2>4. u \in NodeState
    BY <2>2, <1>4, FreshOK
  <2>5. /\ u.TXBuffer = q /\ u.txAddr = Head(q).dst
        /\ u.txRetries = maxTxRetries /\ u.tried = 0
        /\ u.timers = t.timers /\ u.scheduleTable = t.scheduleTable
        /\ u.needResync = t.needResync
    BY <1>4 DEF NodeState
  <2> HIDE DEF u
  <2> QED
    BY <1>3, <2>2, <2>3, <2>4, <2>5, <1>4 DEF Base
<1> QED
  BY <1>5, <1>6

\* Contend enters a sensing state only with a packet to send.
LEMMA ContendOK ==
    ASSUME NEW s, Base(s), "CHECK_TA" \in s.timers
    PROVE  Good(Contend(s))
<1>1. CASE s.TXBuffer = <<>>
  BY <1>1 DEF Contend, setMacState, Base, Good, Driven, Active, NodeState,
              Waiting, Sensing, Contending, MacState
<1>2. CASE s.TXBuffer # <<>>
  <2>1. \E st \in {"CS_RTS", "CS_DATA"} : Contend(s) = performCarrierSense(s, st)
    BY <1>2 DEF Contend
  <2> QED
    BY <2>1, <1>2, SenseOK DEF Sensing
<1> QED
  BY <1>1, <1>2

\* GiveUp keeps the fields' own invariant and every timer.
LEMMA GiveUpOK ==
    ASSUME NEW s, Base(s)
    PROVE  Base(GiveUp(s)) /\ GiveUp(s).timers = s.timers
<1>1. CASE s.TXBuffer # <<>> /\ s.txRetries <= 0
  <2>1. GiveUp(s) = popTxBuffer(s)
    BY <1>1 DEF GiveUp
  <2>2. popTxBuffer(s).timers = s.timers
    BY DEF popTxBuffer, checkTxBuffer, Base, NodeState
  <2> QED
    BY <2>1, <2>2, <1>1, PopOK
<1>2. CASE ~(s.TXBuffer # <<>> /\ s.txRetries <= 0)
  BY <1>2 DEF GiveUp
<1> QED
  BY <1>1, <1>2

\* Whatever a node was doing, resetDefaultState leaves it in a state that ends.
LEMMA ResetOK ==
    ASSUME NEW s, Base(s)
    PROVE  Good(resetDefaultState(s))
<1>1. CASE "CHECK_TA" \notin s.timers
  BY <1>1, AsleepOK, SenseOK DEF resetDefaultState, Sensing
<1>2. CASE "CHECK_TA" \in s.timers /\ ~s.primaryWakeup
  BY <1>2 DEF resetDefaultState, setMacState, Base, Good, Driven, Active,
              NodeState, Waiting, Sensing, Contending, MacState
<1>3. CASE "CHECK_TA" \in s.timers /\ s.primaryWakeup /\ s.needResync
  <2> DEFINE t == performCarrierSense(s, "CS_SYNC")
  <2>1. Good(t)
    BY <1>3, SenseOK DEF Sensing
  <2>2. s.scheduleTable[1] \in Entry
    BY <1>3 DEF Base, NodeState
  <2>3. resetDefaultState(s) = [t EXCEPT !.syncPacket = s.scheduleTable[1]]
    BY <1>3 DEF resetDefaultState
  <2> HIDE DEF t
  <2> QED
    BY <2>1, <2>2, <2>3 DEF Good, Driven, Active, Base, NodeState
<1>4. CASE "CHECK_TA" \in s.timers /\ s.primaryWakeup /\ ~s.needResync
  <2>1. resetDefaultState(s) = Contend(GiveUp(s))
    BY <1>4 DEF resetDefaultState
  <2>2. Base(GiveUp(s)) /\ "CHECK_TA" \in GiveUp(s).timers
    BY <1>4, GiveUpOK
  <2> QED
    BY <2>1, <2>2, ContendOK
<1>5. s.primaryWakeup \in BOOLEAN /\ s.needResync \in BOOLEAN
  BY DEF Base, NodeState
<1> QED
  BY <1>1, <1>2, <1>3, <1>4, <1>5

\* An attempt takes one from the retries and adds one to the tries.
Attempt(w) == [w EXCEPT !.txRetries = @ - 1, !.tried = @ + 1]

\* An attempt keeps retries and tries in step.
LEMMA AttemptOK ==
    ASSUME NEW w, Base(w)
    PROVE  /\ Base(Attempt(w))
           /\ Driven(w) => Driven(Attempt(w))
           /\ Good(w) => Good(Attempt(w))
<1> DEFINE r == w.txRetries - 1
           k == w.tried + 1
           v == Attempt(w)
<1>1. w \in NodeState
  BY DEF Base
<1>2. r \in Int /\ k \in Int /\ w.txRetries \in Int /\ w.tried \in Int
  BY <1>1 DEF NodeState
<1>3. ASSUME NEW a \in Int, NEW b \in Int
      PROVE  [[w EXCEPT !.txRetries = a] EXCEPT !.tried = b] \in NodeState
  <2> DEFINE w1 == [w EXCEPT !.txRetries = a]
  <2>1. w1 \in NodeState
    BY <1>1 DEF NodeState
  <2> HIDE DEF w1
  <2>2. [w1 EXCEPT !.tried = b] \in NodeState
    BY <2>1 DEF NodeState
  <2> QED
    BY <2>2 DEF w1
<1>4. v = [[w EXCEPT !.txRetries = r] EXCEPT !.tried = k]
  BY DEF Attempt
<1>5. v \in NodeState
  <2> HIDE DEF r, k, v
  <2> QED
    BY <1>2, <1>3, <1>4
<1>6. /\ v.txRetries = w.txRetries - 1 /\ v.tried = w.tried + 1
      /\ v.TXBuffer = w.TXBuffer /\ v.txAddr = w.txAddr /\ v.timers = w.timers
      /\ v.scheduleTable = w.scheduleTable /\ v.needResync = w.needResync
      /\ v.macState = w.macState
  BY <1>1 DEF NodeState, Attempt
<1> HIDE DEF v
<1>7. Base(v)
  BY <1>2, <1>5, <1>6, TmacAssumption DEF Base
<1> QED
  BY <1>7, <1>6 DEF v, Driven, Good, Active

\* sendDataPacket leaves the node waiting, with a timeout.
LEMMA SendDataOK ==
    ASSUME NEW s, Base(s), s.TXBuffer # <<>>
    PROVE  Good(sendDataPacket(s))
<1>1. CASE s.txAddr = BROADCAST
  <2>1. Driven(Wait(popTxBuffer(s), "IN_TX"))
    BY PopOK, WaitOK DEF Waiting
  <2> QED
    BY <2>1, <1>1, ExtendOK DEF sendDataPacket
<1>2. CASE s.txAddr # BROADCAST
  <2> DEFINE w == Wait(s, "WAIT_FOR_ACK")
             t == IF par.useRtsCts THEN w ELSE Attempt(w)
  <2>1. Driven(w)
    BY WaitOK DEF Waiting
  <2>2. sendDataPacket(s) = extendActivePeriod(t)
    BY <1>2 DEF sendDataPacket, Attempt
  <2> HIDE DEF w
  <2>3. Driven(t)
    BY <2>1, AttemptOK DEF Driven
  <2> HIDE DEF t
  <2> QED
    BY <2>2, <2>3, ExtendOK
<1> QED
  BY <1>1, <1>2

\* A busy channel ends a wait, or leaves it with its timeout.
LEMMA BusyOK ==
    ASSUME NEW s, Base(s), Active(s), s.macState \notin Sensing => Driven(s)
    PROVE  Good(carrierIsBusy(s))
<1> DEFINE t == IF par.disableTAextension THEN s ELSE extendActivePeriod(s)
<1>1. Base(t) /\ Active(t) /\ t.macState = s.macState
  BY ArmOK DEF extendActivePeriod, Active, Arm, Base, NodeState, Timer
<1>2. t.macState \notin Sensing => Good(t)
  BY <1>1, ExtendOK DEF Good
<1>3. ~par.disableTAextension => "CHECK_TA" \in t.timers
  BY ArmOK DEF extendActivePeriod, Timer
<1>4. CASE s.macState \in {"SETUP", "SLEEP"}
  <2>1. carrierIsBusy(s) = s
    BY <1>4 DEF carrierIsBusy
  <2> QED
    BY <2>1, <1>4 DEF Good, Sensing
<1>5. CASE s.macState \notin {"SETUP", "SLEEP"} /\ par.collisionResolution = 0
  <2>1. carrierIsBusy(s) = IF t.macState \in Sensing THEN resetDefaultState(t) ELSE t
    BY <1>5, <1>1 DEF carrierIsBusy
  <2> HIDE DEF t
  <2> QED
    BY <2>1, <1>1, <1>2, ResetOK
<1>6. CASE s.macState \in Waiting \ {"IN_TX"} /\ par.collisionResolution # 0
  <2>1. carrierIsBusy(s) = t
    BY <1>6 DEF carrierIsBusy, Waiting
  <2> HIDE DEF t
  <2> QED
    BY <2>1, <1>6, <1>1, <1>2 DEF Waiting, Sensing
<1>7. CASE /\ s.macState \notin {"SETUP", "SLEEP"} \cup (Waiting \ {"IN_TX"})
           /\ par.collisionResolution # 0
  <2>1. carrierIsBusy(s) = setMacState(t, "ACTIVE_SILENT")
    BY <1>7 DEF carrierIsBusy
  <2> HIDE DEF t
  <2>2. "CHECK_TA" \in t.timers
    BY <1>1, <1>3, <1>7 DEF Active, Waiting
  <2> QED
    BY <2>1, <2>2, <1>1 DEF setMacState, Good, Driven, Active, Base, NodeState,
                            Waiting, Sensing, Contending, MacState
<1> QED
  BY <1>4, <1>5, <1>6, <1>7 DEF Waiting

\* A first schedule brings its frames, a further one changes nothing else.
LEMMA NewScheduleOK ==
    ASSUME NEW s, Good(s), NEW id \in Node, NEW sn \in Nat
    PROVE  /\ Good(NewSchedule(s, id, sn))
           /\ NewSchedule(s, id, sn).scheduleTable # <<>>
<1> DEFINE e == [ID |-> id, SN |-> sn]
           t == [s EXCEPT !.scheduleTable = Append(@, e)]
<1>1. s \in NodeState
  BY DEF Good, Driven, Base
<1>2. Append(s.scheduleTable, e) \in Seq(Entry) /\ Append(s.scheduleTable, e) # <<>>
  <2>1. s.scheduleTable \in Seq(Entry) /\ e \in Entry
    BY <1>1 DEF NodeState, Entry
  <2> HIDE DEF e
  <2> QED
    BY <2>1, AppendProperties
<1>3. CASE s.scheduleTable # <<>>
  <2>1. NewSchedule(s, id, sn) = t
    BY <1>3 DEF NewSchedule
  <2> HIDE DEF e
  <2>2. t \in NodeState /\ t.scheduleTable = Append(s.scheduleTable, e)
    BY <1>1, <1>2 DEF NodeState
  <2> QED
    BY <2>1, <2>2, <1>2, <1>3, <1>1 DEF Good, Driven, Active, Base, NodeState
<1>4. CASE s.scheduleTable = <<>>
  <2> DEFINE u == [s EXCEPT !.scheduleTable = Append(s.scheduleTable, e),
                            !.timers = s.timers \cup {"CHECK_TA", "FRAME_START"},
                            !.needResync = TRUE, !.primaryWakeup = TRUE]
  <2>1. NewSchedule(s, id, sn) = resetDefaultState(u)
    <3>1. [Arm(extendActivePeriod(t), "FRAME_START")
              EXCEPT !.needResync = TRUE, !.primaryWakeup = TRUE] = u
      BY <1>1 DEF Arm, extendActivePeriod, NodeState
    <3> QED
      BY <3>1, <1>4 DEF NewSchedule
  <2> HIDE DEF e
  <2>2. Base(u) /\ u.scheduleTable = Append(s.scheduleTable, e)
    BY <1>1, <1>2 DEF Good, Driven, Base, NodeState, Timer
  <2>3. resetDefaultState(u).scheduleTable = u.scheduleTable
    BY <2>2 DEF resetDefaultState, Base, NodeState, performCarrierSense, setMacState,
                Arm, Asleep, Contend, GiveUp, popTxBuffer, checkTxBuffer
  <2> HIDE DEF u
  <2> QED
    BY <2>1, <2>2, <2>3, <1>2, ResetOK
<1> QED
  BY <1>3, <1>4

\* Renewing an entry of the schedule table keeps the invariant.
LEMMA TableOK ==
    ASSUME NEW s, Good(s), s.scheduleTable # <<>>,
           NEW i \in DOMAIN s.scheduleTable, NEW sn \in Nat, NEW b \in BOOLEAN
    PROVE  /\ Good([s EXCEPT !.scheduleTable[i].SN = sn])
           /\ Good([s EXCEPT !.scheduleTable[i].SN = sn, !.shifted = b])
           /\ Good([s EXCEPT !.scheduleTable[i].SN = sn, !.needResync = TRUE])
<1> DEFINE tab == [s.scheduleTable EXCEPT ![i].SN = sn]
           t == [s EXCEPT !.scheduleTable = tab]
<1>1. s \in NodeState /\ s.scheduleTable \in Seq(Entry)
  BY DEF Good, Driven, Base, NodeState
<1>2. tab \in Seq(Entry) /\ tab # <<>>
  <2>1. s.scheduleTable[i] \in Entry
    BY <1>1
  <2>2. [s.scheduleTable[i] EXCEPT !.SN = sn] \in Entry
    BY <2>1 DEF Entry
  <2>3. Len(tab) = Len(s.scheduleTable) /\ tab \in Seq(Entry)
    BY <1>1, <2>2
  <2> QED
    BY <2>3, <1>1
<1>3. t = [s EXCEPT !.scheduleTable[i].SN = sn]
  OBVIOUS
<1> HIDE DEF tab
<1>4. /\ t \in NodeState /\ t.scheduleTable = tab /\ t.timers = s.timers
      /\ t.macState = s.macState /\ t.TXBuffer = s.TXBuffer /\ t.txAddr = s.txAddr
      /\ t.txRetries = s.txRetries /\ t.tried = s.tried /\ t.needResync = s.needResync
  BY <1>1, <1>2 DEF NodeState
<1> HIDE DEF t
<1>5. Good(t)
  BY <1>2, <1>4 DEF Good, Driven, Active, Base
<1>6. Good([t EXCEPT !.shifted = b])
  BY <1>5 DEF Good, Driven, Active, Base, NodeState
<1>7. Good([t EXCEPT !.needResync = TRUE])
  BY <1>5, <1>4, <1>2 DEF Good, Driven, Active, Base, NodeState
<1>8. /\ [t EXCEPT !.shifted = b] = [s EXCEPT !.scheduleTable[i].SN = sn, !.shifted = b]
      /\ [t EXCEPT !.needResync = TRUE]
            = [s EXCEPT !.scheduleTable[i].SN = sn, !.needResync = TRUE]
  BY <1>1 DEF t, tab, NodeState
<1> QED
  BY <1>3, <1>5, <1>6, <1>7, <1>8

\* News of a schedule, known or not, keeps the invariant.
LEMMA UpdateOK ==
    ASSUME NEW s, Good(s), NEW id \in Node, NEW sn \in Nat,
           NEW t \in updateScheduleTable(s, id, sn)
    PROVE  Good(t)
<1>1. CASE Known(s, id) = {}
  BY <1>1, NewScheduleOK DEF updateScheduleTable
<1>2. CASE Known(s, id) # {}
  <2> DEFINE i == CHOOSE j \in Known(s, id) : TRUE
  <2>1. i \in DOMAIN s.scheduleTable
    BY <1>2 DEF Known
  <2>2. s.scheduleTable \in Seq(Entry) /\ s.scheduleTable # <<>>
    BY <2>1 DEF Good, Driven, Base, NodeState
  <2>3. \/ t = s
        \/ \E b \in BOOLEAN :
              t = [s EXCEPT !.scheduleTable[i].SN = sn,
                            !.shifted = IF i = 1 THEN b ELSE s.shifted]
    BY <1>2 DEF updateScheduleTable
  <2>4. s.shifted \in BOOLEAN
    BY DEF Good, Driven, Base, NodeState
  <2> HIDE DEF i
  <2>5. ASSUME NEW b \in BOOLEAN
        PROVE  Good([s EXCEPT !.scheduleTable[i].SN = sn,
                              !.shifted = IF i = 1 THEN b ELSE s.shifted])
    <3> DEFINE c == IF i = 1 THEN b ELSE s.shifted
    <3>1. c \in BOOLEAN
      BY <2>4
    <3> HIDE DEF c
    <3>2. Good([s EXCEPT !.scheduleTable[i].SN = sn, !.shifted = c])
      BY <2>1, <2>2, <3>1, TableOK
    <3> QED
      BY <3>2 DEF c
  <2> QED
    BY <2>3, <2>5
<1> QED
  BY <1>1, <1>2

-----------------------------------------------------------------------------
(* What the actions do with those fields. *)

\* The timers no state waits for may fire.
LEMMA DropOK ==
    ASSUME NEW s, Good(s),
           NEW t \in {"SYNC_SETUP", "SYNC_CREATE", "SYNC_RENEW", "WAKEUP_SILENT"}
    PROVE  Good(Cancel(s, t))
BY CancelOK DEF Good, Driven, Active, Timer, NodeState, Base

\* The radio's state and the primary wakeup may be anything.
LEMMA AwakeOK ==
    ASSUME NEW s, Good(s), NEW b \in BOOLEAN
    PROVE  Good([s EXCEPT !.awake = b]) /\ Good([s EXCEPT !.primaryWakeup = b])
BY DEF Good, Driven, Active, Base, NodeState

\* FRAME_START starts an active period and sets itself again.
LEMMA FrameStartOK ==
    ASSUME NEW s, Good(s), "FRAME_START" \in s.timers, NEW b \in BOOLEAN, NEW r \in BOOLEAN
    PROVE  Good([extendActivePeriod(s) EXCEPT !.primaryWakeup = TRUE, !.shifted = FALSE,
                                              !.needResync = r, !.awake = b])
<1> DEFINE t == extendActivePeriod(s)
           u == [t EXCEPT !.primaryWakeup = TRUE, !.shifted = FALSE]
<1>1. Good(t) /\ t.scheduleTable # <<>>
  BY ExtendOK DEF Good, Driven, Base, extendActivePeriod, Arm, NodeState
<1> HIDE DEF t
<1>2. Good(u) /\ u.scheduleTable # <<>>
  BY <1>1 DEF Good, Driven, Active, Base, NodeState
<1> HIDE DEF u
<1>3. Good([u EXCEPT !.needResync = r, !.awake = b])
  BY <1>2 DEF Good, Driven, Active, Base, NodeState
<1>4. [u EXCEPT !.needResync = r, !.awake = b]
        = [t EXCEPT !.primaryWakeup = TRUE, !.shifted = FALSE,
                    !.needResync = r, !.awake = b]
  BY DEF u
<1> QED
  BY <1>3, <1>4 DEF t

\* The end of the active period.
LEMMA CheckTAOK ==
    ASSUME NEW s, Good(s)
    PROVE  /\ Good([Asleep(Cancel(s, "CHECK_TA")) EXCEPT !.primaryWakeup = FALSE])
           /\ ~par.disableTAextension =>
                 Good(performCarrierSense(Cancel(s, "CHECK_TA"), "CS_BEFORE_SLEEP"))
           /\ Good(extendActivePeriod(Cancel(s, "CHECK_TA")))
<1> DEFINE t == Cancel(s, "CHECK_TA")
<1>1. Base(t) /\ Driven(t)
  BY CancelOK DEF Good, Driven, Base, NodeState, Timer
<1> HIDE DEF t
<1>2. Good(extendActivePeriod(t))
  BY <1>1, ExtendOK
<1>3. Good([Asleep(t) EXCEPT !.primaryWakeup = FALSE])
  BY <1>1, AsleepOK, AwakeOK
<1>4. ~par.disableTAextension => Good(performCarrierSense(t, "CS_BEFORE_SLEEP"))
  BY <1>1, SenseOK DEF Sensing
<1> QED
  BY <1>2, <1>3, <1>4 DEF t

\* A fired CARRIER_SENSE leaves a node that is no longer sensing as it was.
LEMMA SensedOK ==
    ASSUME NEW s, Good(s)
    PROVE  LET t == Cancel(s, "CARRIER_SENSE")
           IN  /\ Base(t) /\ Active(t) /\ t.TXBuffer = s.TXBuffer
               /\ t.macState = s.macState /\ t.timers = s.timers \ {"CARRIER_SENSE"}
               /\ s.macState \notin Sensing => Good(t)
BY CancelOK DEF Good, Driven, Active, Base, NodeState, Timer

\* A node that overhears a frame falls silent, with CHECK_TA pending.
LEMMA OverhearOK ==
    ASSUME NEW s, Good(s)
    PROVE  /\ Good(setMacState(extendActivePeriod(s), "ACTIVE_SILENT"))
           /\ Good(Arm(setMacState(extendActivePeriod(s), "ACTIVE_SILENT"),
                       "TRANSMISSION_TIMEOUT"))
<1> DEFINE t == extendActivePeriod(s)
           u == setMacState(t, "ACTIVE_SILENT")
<1>1. Good(t) /\ "CHECK_TA" \in t.timers
  BY ExtendOK, ArmOK DEF Good, Driven, extendActivePeriod, Timer
<1> HIDE DEF t
<1>2. Good(u)
  BY <1>1 DEF setMacState, Good, Driven, Active, Base, NodeState, Waiting, Sensing,
              Contending, MacState
<1> HIDE DEF u
<1>3. Good(Arm(u, "TRANSMISSION_TIMEOUT"))
  BY <1>2, ArmOK DEF Good, Driven, Timer
<1> QED
  BY <1>2, <1>3 DEF t, u

\* The buffer of VirtualMac takes a packet.
LEMMA BufferOK ==
    ASSUME NEW s, Good(s), NEW p \in Packet
    PROVE  LET t == [s EXCEPT !.TXBuffer = Append(@, p)]
           IN  Good(IF s.TXBuffer = <<>> THEN checkTxBuffer(t) ELSE t)
<1> DEFINE q == Append(s.TXBuffer, p)
           t == [s EXCEPT !.TXBuffer = q]
<1>1. s \in NodeState /\ s.TXBuffer \in Seq(Packet)
  BY DEF Good, Driven, Base, NodeState
<1>2. q \in Seq(Packet) /\ q # <<>> /\ Head(q) \in Packet
      /\ (s.TXBuffer # <<>> => Head(q) = Head(s.TXBuffer))
  BY <1>1, AppendProperties, HeadTailProperties
<1> HIDE DEF q
<1>3. /\ t \in NodeState /\ t.TXBuffer = q /\ t.scheduleTable = s.scheduleTable
      /\ t.timers = s.timers /\ t.needResync = s.needResync /\ t.macState = s.macState
      /\ t.txAddr = s.txAddr /\ t.txRetries = s.txRetries /\ t.tried = s.tried
  BY <1>1, <1>2 DEF NodeState
<1> HIDE DEF t
<1>4. CASE s.TXBuffer # <<>>
  <2>1. Good(t)
    BY <1>2, <1>3, <1>4 DEF Good, Driven, Active, Base
  <2> QED
    BY <2>1, <1>4 DEF t, q
<1>5. CASE s.TXBuffer = <<>>
  <2> DEFINE u == checkTxBuffer(t)
  <2>1. u = [t EXCEPT !.txAddr = Head(q).dst, !.txRetries = maxTxRetries, !.tried = 0]
    BY <1>2, <1>3 DEF checkTxBuffer
  <2>2. Head(q).dst \in Address /\ maxTxRetries \in Int
    BY <1>2, TmacAssumption DEF Packet
  <2>3. u \in NodeState
    <3>1. [t EXCEPT !.txAddr = Head(q).dst, !.txRetries = maxTxRetries, !.tried = 0]
            \in NodeState
      BY <2>2, <1>3, FreshOK
    <3> QED
      BY <2>1, <3>1
  <2>4. /\ u.TXBuffer = q /\ u.txAddr = Head(q).dst /\ u.txRetries = maxTxRetries
        /\ u.tried = 0 /\ u.timers = s.timers /\ u.scheduleTable = s.scheduleTable
        /\ u.needResync = s.needResync /\ u.macState = s.macState
    BY <2>1, <1>3 DEF NodeState
  <2> HIDE DEF u
  <2>5. Good(u)
    BY <2>2, <2>3, <2>4, <1>2 DEF Good, Driven, Active, Base
  <2> QED
    BY <2>5, <1>5 DEF u, t, q
<1> QED
  BY <1>4, <1>5

-----------------------------------------------------------------------------
(* A step of node n, and the frames it puts on the air or takes from it. *)

\* mac after a step that gives n a good state.
LEMMA StepMac ==
    ASSUME IInv, NEW n \in Node, NEW s, Good(s), Becomes(n, s), par' = par
    PROVE  MacInv'
<1>1. mac' \in [Node -> NodeState] /\ \A k \in Node : Good(mac'[k])
  BY DEF IInv, MacInv, Becomes, Good, Driven, Base
<1> QED
  BY <1>1 DEF MacInv, Good, Driven, Active

\* air after a frame is taken or lost.
LEMMA StepSilent ==
    ASSUME IInv, NEW m \in Node, NEW n \in Node, Silently(m, n)
    PROVE  AirInv'
<1>1. NoFrame \in AnyFrame /\ NoFrame.type # "SYNC"
  BY DEF NoFrame, AnyFrame, Address
<1> QED
  BY <1>1 DEF IInv, AirInv, Silently

\* The frames of one transmission.
LEMMA CastOK ==
    ASSUME NEW n \in Node, NEW f \in AnyFrame, f.type = "SYNC" => f.id \in Node
    PROVE  /\ Cast(n, f) \in [Node -> AnyFrame]
           /\ \A k \in Node : Cast(n, f)[k].type = "SYNC" => Cast(n, f)[k].id \in Node
<1>1. NoFrame \in AnyFrame /\ NoFrame.type # "SYNC"
  BY DEF NoFrame, AnyFrame, Address
<1> QED
  BY <1>1 DEF Cast

\* air after n has sent.
LEMMA StepCast ==
    ASSUME IInv, NEW n \in Node, NEW f \in AnyFrame, f.type = "SYNC" => f.id \in Node,
           air' = [air EXCEPT ![n] = Cast(n, f)]
    PROVE  AirInv'
BY CastOK DEF IInv, AirInv

\* air after n has answered.
LEMMA StepReply ==
    ASSUME IInv, NEW m \in Node, NEW n \in Node,
           NEW f \in AnyFrame, f.type # "SYNC", Replying(m, n, f)
    PROVE  AirInv'
<1>1. NoFrame \in AnyFrame /\ NoFrame.type # "SYNC"
  BY DEF NoFrame, AnyFrame, Address
<1> QED
  BY <1>1, CastOK DEF IInv, AirInv, Replying

\* The control and data frames are frames, and no SYNC.
LEMMA FrameOK ==
    ASSUME NEW type \in {"RTS", "CTS", "DATA", "ACK"}, NEW d \in Address, NEW sn \in Nat
    PROVE  Frame(type, d, sn) \in AnyFrame /\ Frame(type, d, sn).type # "SYNC"
BY DEF Frame, AnyFrame, Address

\* The data frame of a node with a packet.
LEMMA DataFrameOK ==
    ASSUME NEW s, Good(s), s.TXBuffer # <<>>
    PROVE  DataFrame(s) \in AnyFrame /\ DataFrame(s).type # "SYNC"
<1>1. s.txAddr \in Address /\ s.TXBuffer \in Seq(Packet)
  BY DEF Good, Driven, Base, NodeState
<1>2. Head(s.TXBuffer) \in Packet
  BY <1>1, HeadTailProperties
<1>3. Head(s.TXBuffer).sn \in Nat
  BY <1>2 DEF Packet
<1> QED
  BY <1>1, <1>3, FrameOK DEF DataFrame

-----------------------------------------------------------------------------
(* The timers. *)

\* startup(), and the sleep between two frames, are good.
LEMMA InitOK == Init => IInv
<1> SUFFICES ASSUME Init PROVE IInv
  OBVIOUS
<1>1. par \in Pars /\ par.synced \in BOOLEAN
  BY TmacAssumption DEF Init, Parameters
<1>2. ASSUME NEW n \in Node PROVE Good(Started(n))
  <2>1. BROADCAST \in Address
    BY DEF Address
  <2>2. /\ <<>> \in Seq(Packet) /\ <<>> \in Seq(Entry)
        /\ <<[ID |-> Sink, SN |-> 0]>> \in Seq(Entry) /\ [ID |-> Sink, SN |-> 0] \in Entry
    BY TmacAssumption DEF Entry
  <2>3. Started(n) \in NodeState
    BY <1>1, <2>1, <2>2 DEF Started, NodeState, MacState, Sensing, Waiting, Timer
  <2> QED
    BY <1>1, <2>3 DEF Started, Good, Driven, Active, Base, Waiting, Sensing, Contending
<1>3. MacInv
  BY <1>2 DEF Init, MacInv, Good, Driven, Base
<1>4. NoFrame \in AnyFrame /\ NoFrame.type # "SYNC"
  BY DEF NoFrame, AnyFrame, Address
<1>5. AirInv
  BY <1>4 DEF Init, AirInv
<1> QED
  BY <1>1, <1>3, <1>5 DEF Init, IInv

\* A step that changes only mac, and gives n a good state.
LEMMA OnlyMac ==
    ASSUME IInv, NEW n \in Node, NEW s, Good(s), Becomes(n, s),
           UNCHANGED <<par, sent, air>>
    PROVE  IInv'
BY StepMac DEF IInv, AirInv

\* Each timer leaves the node in a good state.
LEMMA TimersOK ==
    ASSUME IInv, NEW n \in Node,
           \/ SyncSetup(n) \/ SyncCreate(n) \/ SyncRenew(n) \/ FrameStart(n)
           \/ Wakeup(n) \/ CheckTA(n) \/ TransmissionTimeout(n)
    PROVE  IInv'
<1>1. Good(mac[n])
  BY DEF IInv, MacInv
<1>2. CASE SyncSetup(n)
  <2> DEFINE s == After(n, "SYNC_SETUP")
  <2>1. Good(s) /\ Good(Arm(s, "SYNC_CREATE"))
    BY <1>1, DropOK, ArmOK DEF After, Good, Driven, Timer
  <2>2. \E t : Good(t) /\ Becomes(n, t)
    BY <1>2, <2>1 DEF SyncSetup
  <2> QED
    BY <1>2, <2>2, OnlyMac DEF SyncSetup
<1>3. CASE SyncCreate(n)
  <2> DEFINE s == After(n, "SYNC_CREATE")
             t == NewSchedule(s, n, 0)
  <2>1. Good(s)
    BY <1>1, DropOK DEF After
  <2>2. Good(t) /\ t.scheduleTable # <<>>
    BY <2>1, NewScheduleOK
  <2> HIDE DEF t
  <2>3. Good(Arm(t, "SYNC_RENEW"))
    BY <2>2 DEF Arm, Good, Driven, Active, Base, NodeState, Timer
  <2>4. \E u : Good(u) /\ Becomes(n, u)
    BY <1>3, <2>1, <2>3 DEF SyncCreate, t
  <2> QED
    BY <1>3, <2>4, OnlyMac DEF SyncCreate
<1>4. CASE SyncRenew(n)
  <2> DEFINE k == mac[n].scheduleTable[1].SN + 1
  <2>1. mac[n].scheduleTable \in Seq(Entry) /\ mac[n].scheduleTable # <<>>
    BY <1>1, <1>4 DEF SyncRenew, Fires, Good, Driven, Base, NodeState
  <2>2. 1 \in DOMAIN mac[n].scheduleTable /\ k \in Nat
    <3>1. 1 \in DOMAIN mac[n].scheduleTable
      BY <2>1
    <3>2. mac[n].scheduleTable[1] \in Entry
      BY <2>1, <3>1
    <3> QED
      BY <3>1, <3>2 DEF Entry
  <2>3. Becomes(n, [mac[n] EXCEPT !.scheduleTable[1].SN = k, !.needResync = TRUE])
    BY <1>4 DEF SyncRenew
  <2> HIDE DEF k
  <2>4. Good([mac[n] EXCEPT !.scheduleTable[1].SN = k, !.needResync = TRUE])
    BY <1>1, <2>1, <2>2, TableOK
  <2> QED
    BY <1>4, <2>3, <2>4, OnlyMac DEF SyncRenew
<1>5. CASE FrameStart(n)
  <2> DEFINE r == mac[n].needResync \/ mac[n].shifted
             b == mac[n].awake \/ mac[n].macState = "SLEEP"
             s == [extendActivePeriod(mac[n]) EXCEPT
                      !.primaryWakeup = TRUE, !.shifted = FALSE,
                      !.needResync = r, !.awake = b]
             t == IF Len(s.scheduleTable) > 1 THEN Arm(s, "WAKEUP_SILENT") ELSE s
  <2>1. mac[n] \in NodeState /\ "FRAME_START" \in mac[n].timers
    BY <1>1, <1>5 DEF FrameStart, Fires, Good, Driven, Base
  <2>2. extendActivePeriod(mac[n]).needResync = mac[n].needResync
        /\ extendActivePeriod(mac[n]).awake = mac[n].awake
    BY <2>1 DEF extendActivePeriod, Arm, NodeState
  <2>3. \E u \in {resetDefaultState(t), t} : Becomes(n, u)
    BY <1>5, <2>2 DEF FrameStart
  <2>4. r \in BOOLEAN /\ b \in BOOLEAN
    BY <2>1 DEF NodeState
  <2> HIDE DEF r, b
  <2>5. Good(s)
    BY <1>1, <2>1, <2>4, FrameStartOK
  <2> HIDE DEF s
  <2>6. Good(t)
    BY <2>5, ArmOK DEF Good, Driven, Timer
  <2> HIDE DEF t
  <2>7. Good(resetDefaultState(t))
    BY <2>6, ResetOK DEF Good, Driven
  <2> QED
    BY <1>5, <2>3, <2>6, <2>7, OnlyMac DEF FrameStart
<1>6. CASE Wakeup(n)
  <2>1. PICK s \in {After(n, "WAKEUP_SILENT"), mac[n]} :
           LET t == extendActivePeriod(s)
           IN  Becomes(n, IF t.macState = "SLEEP"
                          THEN resetDefaultState([t EXCEPT !.awake = TRUE]) ELSE t)
    BY <1>6 DEF Wakeup
  <2> DEFINE t == extendActivePeriod(s)
  <2>2. Good(s)
    BY <1>1, DropOK DEF After
  <2>3. Good(t)
    BY <2>2, ExtendOK DEF Good
  <2>4. \E u \in {resetDefaultState([t EXCEPT !.awake = TRUE]), t} : Becomes(n, u)
    BY <2>1
  <2> HIDE DEF t
  <2>5. Good(resetDefaultState([t EXCEPT !.awake = TRUE]))
    BY <2>3, AwakeOK, ResetOK DEF Good, Driven
  <2> QED
    BY <1>6, <2>3, <2>4, <2>5, OnlyMac DEF Wakeup
<1>7. CASE CheckTA(n)
  <2> DEFINE s == Cancel(mac[n], "CHECK_TA")
  <2>1. \/ Becomes(n, [Asleep(s) EXCEPT !.primaryWakeup = FALSE])
        \/ ~par.disableTAextension /\ Becomes(n, performCarrierSense(s, "CS_BEFORE_SLEEP"))
        \/ Becomes(n, extendActivePeriod(s))
    BY <1>7 DEF CheckTA, After
  <2>2. \E u : Good(u) /\ Becomes(n, u)
    BY <1>1, <2>1, CheckTAOK
  <2> QED
    BY <1>7, <2>2, OnlyMac DEF CheckTA
<1>8. CASE TransmissionTimeout(n)
  <2>1. Good(resetDefaultState(After(n, "TRANSMISSION_TIMEOUT")))
    BY <1>1, CancelOK, ResetOK DEF After, Good, Driven, Timer
  <2> QED
    BY <1>8, <2>1, OnlyMac DEF TransmissionTimeout
<1> QED
  BY <1>2, <1>3, <1>4, <1>5, <1>6, <1>7, <1>8

-----------------------------------------------------------------------------
(* Carrier sense. *)

\* A step that changes mac and sends a frame.
LEMMA OnlyMacCast ==
    ASSUME IInv, NEW n \in Node, NEW s, Good(s), Becomes(n, s),
           NEW f \in AnyFrame, f.type = "SYNC" => f.id \in Node,
           air' = [air EXCEPT ![n] = Cast(n, f)], UNCHANGED <<par, sent>>
    PROVE  IInv'
BY StepMac, StepCast DEF IInv

\* So do the answers to a carrier sense, and the interrupt.
LEMMA SenseStepOK ==
    ASSUME IInv, NEW n \in Node, Sense(n) \/ CarrierInterrupt(n)
    PROVE  IInv'
<1> DEFINE s == mac[n]
           t == Cancel(s, "CARRIER_SENSE")
<1>1. Good(s)
  BY DEF IInv, MacInv
<1>2. /\ Base(t) /\ Active(t) /\ t.TXBuffer = s.TXBuffer
      /\ t.macState = s.macState /\ t.timers = s.timers \ {"CARRIER_SENSE"}
      /\ s.macState \notin Sensing => Good(t)
  BY <1>1, SensedOK
<1>3. t = After(n, "CARRIER_SENSE")
  BY DEF After
<1> HIDE DEF t
<1>4. CASE SenseInVain(n)
  BY <1>2, <1>3, <1>4, OnlyMac DEF SenseInVain
<1>5. CASE SenseNotValid(n)
  BY <1>1, <1>5, AwakeOK, OnlyMac DEF SenseNotValid
<1>6. CASE SenseBusy(n)
  <2>1. Good(carrierIsBusy(t))
    BY <1>2, <1>6, BusyOK DEF SenseBusy
  <2> QED
    BY <1>3, <1>6, <2>1, OnlyMac DEF SenseBusy
<1>7. CASE CarrierInterrupt(n)
  <2>1. Good(carrierIsBusy(s))
    BY <1>1, BusyOK DEF Good, Driven
  <2> QED
    BY <1>7, <2>1, OnlyMac DEF CarrierInterrupt
\* The node was about to send: without TA extension CHECK_TA is pending.
<1>8. ASSUME NEW st \in Sensing, s.macState = st
      PROVE  ~par.disableTAextension \/ "CHECK_TA" \in t.timers
  BY <1>2, <1>8 DEF Active, Sensing
<1>9. CASE SendRTS(n)
  <2> DEFINE w == Wait(t, "WAIT_FOR_CTS")
             f == Frame("RTS", s.txAddr, 0)
  <2>1. s.macState = "CS_RTS" /\ t.TXBuffer # <<>>
    BY <1>1, <1>2, <1>9 DEF SendRTS, Clear, Senses, Good, Driven, Contending
  <2>2. Good(w)
    BY <1>2, <1>8, <2>1, WaitOK DEF Waiting, Sensing
  <2>3. Becomes(n, Attempt(w)) /\ air' = [air EXCEPT ![n] = Cast(n, f)]
        /\ UNCHANGED <<par, sent>>
    BY <1>3, <1>9 DEF SendRTS, Clear, Attempt
  <2> HIDE DEF w
  <2>4. Good(Attempt(w))
    BY <2>2, AttemptOK DEF Good, Driven
  <2>5. f \in AnyFrame /\ f.type # "SYNC"
    BY <1>1, FrameOK DEF Good, Driven, Base, NodeState
  <2> HIDE DEF f
  <2> QED
    BY <2>3, <2>4, <2>5, OnlyMacCast
<1>10. CASE SendSYNC(n)
  <2> DEFINE w == Wait(t, "IN_TX")
             f == [type |-> "SYNC", dst |-> BROADCAST,
                   id |-> s.syncPacket.ID, sn |-> s.syncPacket.SN]
  <2>1. s.macState = "CS_SYNC"
    BY <1>10 DEF SendSYNC, Clear, Senses
  <2>2. Good(w)
    BY <1>2, <1>8, <2>1, WaitOK DEF Waiting, Sensing
  <2>3. Becomes(n, [w EXCEPT !.needResync = FALSE])
        /\ air' = [air EXCEPT ![n] = Cast(n, f)] /\ UNCHANGED <<par, sent>>
    BY <1>3, <1>10 DEF SendSYNC, Clear
  <2> HIDE DEF w
  <2>4. Good([w EXCEPT !.needResync = FALSE])
    BY <2>2 DEF Good, Driven, Active, Base, NodeState
  <2>5. s.syncPacket \in Entry
    BY <1>1 DEF Good, Driven, Base, NodeState
  <2>6. s.syncPacket.ID \in Node /\ s.syncPacket.SN \in Nat
    BY <2>5 DEF Entry
  <2>7. f \in AnyFrame /\ f.id \in Node
    BY <2>6 DEF AnyFrame, Address
  <2> HIDE DEF f
  <2> QED
    BY <2>3, <2>4, <2>7, OnlyMacCast
<1>11. CASE SendDATA(n)
  <2> DEFINE f == DataFrame(s)
  <2>1. s.TXBuffer # <<>>
    BY <1>1, <1>11 DEF SendDATA, Clear, Senses, Good, Driven, Contending
  <2>2. Good(sendDataPacket(t))
    BY <1>2, <2>1, SendDataOK
  <2>3. f \in AnyFrame /\ f.type # "SYNC"
    BY <1>1, <2>1, DataFrameOK
  <2>4. Becomes(n, sendDataPacket(t)) /\ air' = [air EXCEPT ![n] = Cast(n, f)]
        /\ UNCHANGED <<par, sent>>
    BY <1>3, <1>11 DEF SendDATA, Clear
  <2> HIDE DEF f
  <2> QED
    BY <2>2, <2>3, <2>4, OnlyMacCast
<1>12. CASE GoToSleep(n)
  <2>1. Good([Asleep(t) EXCEPT !.primaryWakeup = FALSE])
    BY <1>2, AsleepOK, AwakeOK
  <2> QED
    BY <1>3, <1>12, <2>1, OnlyMac DEF GoToSleep, Clear
<1> QED
  BY <1>4, <1>5, <1>6, <1>7, <1>9, <1>10, <1>11, <1>12 DEF Sense, SenseClear

-----------------------------------------------------------------------------
(* Frames. *)

\* A step that changes mac and takes a frame.
LEMMA OnlyMacSilent ==
    ASSUME IInv, NEW m \in Node, NEW n \in Node, NEW s, Good(s), Becomes(n, s),
           Silently(m, n), UNCHANGED <<par, sent>>
    PROVE  IInv'
BY StepMac, StepSilent DEF IInv

\* A step that only takes a frame.
LEMMA OnlySilent ==
    ASSUME IInv, NEW m \in Node, NEW n \in Node, Silently(m, n),
           UNCHANGED <<par, mac, sent>>
    PROVE  IInv'
<1>1. MacInv'
  BY DEF IInv, MacInv, Good, Driven, Active
<1> QED
  BY <1>1, StepSilent DEF IInv

\* A step that changes mac, takes a frame and answers it.
LEMMA OnlyMacReply ==
    ASSUME IInv, NEW m \in Node, NEW n \in Node, NEW s, Good(s), Becomes(n, s),
           NEW f \in AnyFrame, f.type # "SYNC", Replying(m, n, f),
           UNCHANGED <<par, sent>>
    PROVE  IInv'
BY StepMac, StepReply DEF IInv

\* Any frame, expected or not, leaves its receiver in a good state.
LEMMA ReceiveOK ==
    ASSUME IInv, NEW m \in Node, NEW n \in Node, Receive(m, n)
    PROVE  IInv'
<1> DEFINE s == mac[n]
           t == Cancel(s, "TRANSMISSION_TIMEOUT")
<1>1. Good(s) /\ m \in Address
  BY DEF IInv, MacInv, Address
<1>2. Base(t) /\ t.TXBuffer = s.TXBuffer
  BY <1>1, CancelOK DEF Good, Driven, Base, NodeState, Timer
<1> HIDE DEF t
<1>3. CASE Overhear(m, n)
  <2>1. \E u : Good(u) /\ Becomes(n, u)
    BY <1>1, <1>3, OverhearOK DEF Overhear
  <2> QED
    BY <1>3, <2>1, OnlyMacSilent DEF Overhear
<1>4. CASE ReceiveRTS(m, n)
  <2> DEFINE f == Frame("CTS", m, 0)
  <2>1. Good(Wait(s, "WAIT_FOR_DATA"))
    BY <1>1, WaitOK DEF Good, Driven, Waiting
  <2>2. f \in AnyFrame /\ f.type # "SYNC"
    BY <1>1, FrameOK
  <2>3. Becomes(n, Wait(s, "WAIT_FOR_DATA")) /\ Replying(m, n, f)
        /\ UNCHANGED <<par, sent>>
    BY <1>4 DEF ReceiveRTS, Arrives
  <2> HIDE DEF f
  <2> QED
    BY <2>1, <2>2, <2>3, OnlyMacReply
<1>5. CASE ReceiveCTS(m, n)
  <2>1. UNCHANGED <<par, sent>>
    BY <1>5 DEF ReceiveCTS, Arrives
  <2>2. CASE s.macState = "WAIT_FOR_CTS" /\ s.txAddr = m
    <3> DEFINE f == DataFrame(s)
    <3>1. s.TXBuffer # <<>>
      BY <1>1, <2>2 DEF Good, Driven, Contending
    <3>2. Good(sendDataPacket(t))
      BY <1>2, <3>1, SendDataOK
    <3>3. f \in AnyFrame /\ f.type # "SYNC"
      BY <1>1, <3>1, DataFrameOK
    <3>4. Becomes(n, sendDataPacket(t)) /\ Replying(m, n, f)
      BY <1>5, <2>2 DEF ReceiveCTS, t
    <3> HIDE DEF f
    <3> QED
      BY <2>1, <3>2, <3>3, <3>4, OnlyMacReply
  <2>3. CASE ~(s.macState = "WAIT_FOR_CTS" /\ s.txAddr = m)
    <3>1. Good(resetDefaultState(s))
      BY <1>1, ResetOK DEF Good, Driven
    <3>2. \E u \in {s, resetDefaultState(s)} : Becomes(n, u)
      BY <1>5, <2>3 DEF ReceiveCTS
    <3>3. Silently(m, n)
      BY <1>5, <2>3 DEF ReceiveCTS
    <3> QED
      BY <1>1, <2>1, <3>1, <3>2, <3>3, OnlyMacSilent
  <2> QED
    BY <2>2, <2>3
<1>6. CASE ReceiveDATA(m, n)
  <2>1. UNCHANGED <<par, sent>>
    BY <1>6 DEF ReceiveDATA, Arrives
  <2>2. CASE air[m][n].dst = BROADCAST
    BY <1>6, <2>1, <2>2, OnlySilent DEF ReceiveDATA
  <2>3. CASE air[m][n].dst # BROADCAST
    <3> DEFINE f == Frame("ACK", m, 0)
               e == extendActivePeriod(s)
    <3>1. Good(e) /\ "CHECK_TA" \in e.timers
      BY <1>1, ExtendOK, ArmOK DEF extendActivePeriod, Good, Driven, Timer
    <3>2. Becomes(n, Wait(e, "IN_TX")) /\ Replying(m, n, f)
      BY <1>6, <2>3 DEF ReceiveDATA
    <3> HIDE DEF e
    <3>3. Good(Wait(e, "IN_TX"))
      BY <3>1, WaitOK DEF Good, Driven, Waiting
    <3>4. f \in AnyFrame /\ f.type # "SYNC"
      BY <1>1, FrameOK
    <3> HIDE DEF f
    <3> QED
      BY <2>1, <3>2, <3>3, <3>4, OnlyMacReply
  <2> QED
    BY <2>2, <2>3
<1>7. CASE ReceiveACK(m, n)
  <2>1. UNCHANGED <<par, sent>> /\ Silently(m, n)
    BY <1>7 DEF ReceiveACK, Arrives
  <2>2. CASE s.macState = "WAIT_FOR_ACK" /\ s.txAddr = m
    <3>1. s.TXBuffer # <<>>
      BY <1>1, <2>2 DEF Good, Driven, Contending
    <3>2. Good(resetDefaultState(popTxBuffer(t)))
      BY <1>2, <3>1, PopOK, ResetOK
    <3>3. Becomes(n, resetDefaultState(popTxBuffer(t)))
      BY <1>7, <2>2 DEF ReceiveACK, t
    <3> QED
      BY <2>1, <3>2, <3>3, OnlyMacSilent
  <2>3. CASE ~(s.macState = "WAIT_FOR_ACK" /\ s.txAddr = m)
    BY <1>7, <2>1, <2>3, OnlySilent DEF ReceiveACK
  <2> QED
    BY <2>2, <2>3
<1>8. CASE ReceiveSYNC(m, n)
  <2>1. UNCHANGED <<par, sent>> /\ Silently(m, n)
    BY <1>8 DEF ReceiveSYNC, Arrives
  <2>2. air[m][n].id \in Node /\ air[m][n].sn \in Nat
    BY <1>8 DEF ReceiveSYNC, Arrives, IInv, AirInv, AnyFrame
  <2>3. \E u : Good(u) /\ Becomes(n, u)
    BY <1>1, <1>8, <2>2, UpdateOK DEF ReceiveSYNC
  <2> QED
    BY <2>1, <2>3, OnlyMacSilent
<1> QED
  BY <1>3, <1>4, <1>5, <1>6, <1>7, <1>8 DEF Receive

\* A packet from the network layer, into a buffer with or without room.
LEMMA NetworkOK ==
    ASSUME IInv, NEW n \in Node, NEW d \in Address, FromNetworkLayer(n, d)
    PROVE  IInv'
<1> DEFINE p == [dst |-> d, sn |-> Len(sent[n]) + 1]
           t == [mac[n] EXCEPT !.TXBuffer = Append(@, p)]
<1>1. Good(mac[n]) /\ sent[n] \in Seq(Address)
  BY DEF IInv, MacInv
<1>2. p \in Packet
  BY <1>1 DEF Packet
<1>3. Good(IF mac[n].TXBuffer = <<>> THEN checkTxBuffer(t) ELSE t)
  <2> HIDE DEF p
  <2> QED
    BY <1>1, <1>2, BufferOK
<1>4. \E u : Good(u) /\ Becomes(n, u)
  BY <1>1, <1>3 DEF FromNetworkLayer
<1>5. sent' \in [Node -> Seq(Address)]
  BY <1>1 DEF FromNetworkLayer, IInv
<1>6. MacInv'
  BY <1>4, StepMac DEF FromNetworkLayer
<1> QED
  BY <1>5, <1>6 DEF FromNetworkLayer, IInv, AirInv

\* The invariant is inductive.
LEMMA StepOK == IInv /\ [Next]_vars => IInv'
<1> SUFFICES ASSUME IInv, [Next]_vars PROVE IInv'
  OBVIOUS
<1>1. CASE UNCHANGED vars
  BY <1>1 DEF vars, IInv, MacInv, AirInv, Good, Driven, Active
<1>2. ASSUME NEW n \in Node, Timers(n) PROVE IInv'
  BY <1>2, TimersOK, SenseStepOK DEF Timers
<1>3. ASSUME NEW n \in Node, NEW m \in Node, Receive(m, n) \/ Lose(m, n) PROVE IInv'
  BY <1>3, ReceiveOK, OnlySilent DEF Lose
<1>4. ASSUME NEW n \in Node, NEW t \in par.traffic, t[1] = n, FromNetworkLayer(n, t[2])
      PROVE  IInv'
  <2>1. par.traffic \in SUBSET (Node \X Address)
    BY TmacAssumption DEF IInv, Parameters
  <2>2. t[2] \in Address
    BY <2>1, <1>4
  <2> QED
    BY <1>4, <2>2, NetworkOK
<1> QED
  BY <1>1, <1>2, <1>3, <1>4 DEF Next

\* The invariant holds of every behaviour of TMAC.
THEOREM Inductive == Spec => []IInv
BY InitOK, StepOK, PTL DEF Spec

-----------------------------------------------------------------------------
\* No node is ever left in a state without the timer that ends it, and one with
\* a schedule always wakes up for its next frame: whatever frames are lost,
\* late or for others, resetDefaultState and the handlers set what they need.
THEOREM TimerForEveryState == Spec => []DriverServesState
<1>1. IInv => DriverServesState
  BY DEF IInv, MacInv, Good, Driven, Active, Base, DriverServesState
<1> QED
  BY <1>1, Inductive, PTL

\* The retries are always the front packet's own: no packet inherits the
\* attempts or the destination of the one before it, and the node does not
\* contend or wait for an answer with an empty buffer.
THEOREM RetriesOfFrontPacket == Spec => []FrontPacketServed
<1>1. IInv => FrontPacketServed
  BY DEF IInv, MacInv, Good, Driven, Base, Contending, FrontPacketServed
<1> QED
  BY <1>1, Inductive, PTL
=============================================================================
