-------------------------- MODULE TMAC_link_proofs --------------------------
(***************************************************************************)
(* What TMAC's timers and retries are for: it keeps the promise of a link, *)
(* gives no packet up early, and its schedules follow their authors.  The  *)
(* facts about single nodes of TMAC_proofs are the ground.                 *)
(***************************************************************************)
EXTENDS TMAC_proofs

\* A packet of n is the one n was given under its number.
Given(n, p) == p.sn \in DOMAIN sent[n] /\ sent[n][p.sn] = p.dst

\* The packets that m has passed up.
Passed(m) == {delivered[m][i] : i \in DOMAIN delivered[m]}

\* The buffer of n holds packets in the order of their numbers, and none that
\* a receiver has already gone beyond.
BufferInv(n) ==
    LET b == mac[n].TXBuffer
    IN  /\ \A i \in DOMAIN b : Given(n, b[i])
        /\ \A i, j \in DOMAIN b : i < j => b[i].sn < b[j].sn
        /\ \A i \in DOMAIN b, m \in Node : pktHistory[m][n] <= b[i].sn

\* So do the data frames on their way, which are not ahead of the buffer.
FramesInv(n) ==
    \A m \in Node : air[n][m].type = "DATA" =>
        /\ Given(n, air[n][m]) /\ pktHistory[m][n] <= air[n][m].sn
        /\ \A i \in DOMAIN mac[n].TXBuffer : air[n][m].sn <= mac[n].TXBuffer[i].sn

\* m has let through packets of n up to the one it remembers, and that one.
HistoryInv(m, n) ==
    /\ \A k \in Nat : <<n, k>> \in Passed(m) => k <= pktHistory[m][n]
    /\ pktHistory[m][n] > 0 => <<n, pktHistory[m][n]>> \in Passed(m)
    /\ pktHistory[m][n] <= Len(sent[n])

\* While n waits for an ACK, its data frame is of the front packet, and an ACK
\* from the addressee is for that packet too.
AckInv(n) ==
    mac[n].macState = "WAIT_FOR_ACK" =>
        /\ \A m \in Node : air[n][m].type = "DATA" => air[n][m].sn = Head(mac[n].TXBuffer).sn
        /\ \A m \in Node :
             mac[n].txAddr = m /\ air[m][n].type = "ACK" /\ air[m][n].dst \in {n, BROADCAST}
                => <<n, Head(mac[n].TXBuffer).sn>> \in Passed(m)

\* Retries never fall below zero, for a new attempt finds one left.
Counted(s) ==
    /\ s.TXBuffer # <<>> => s.txRetries >= 0
    /\ s.macState \in {"CS_RTS", "WAIT_FOR_CTS"} => par.useRtsCts
    /\ s.macState = "CS_RTS" \/ (s.macState = "CS_DATA" /\ ~par.useRtsCts)
            => s.txRetries > 0

RetriesInv(n) == Counted(mac[n])

LinkInv ==
    /\ pktHistory \in [Node -> [Node -> Nat]]
    /\ delivered \in [Node -> Seq(Node \X Nat)] /\ acked \in [Node -> SUBSET Nat]
    /\ \A n \in Node : /\ air[n][n] = NoFrame
                       /\ BufferInv(n) /\ FramesInv(n) /\ AckInv(n) /\ RetriesInv(n)
                       /\ \A m \in Node : HistoryInv(m, n)

\* News of a schedule is at most as new as its author's entry.
Followed(id, sn) ==
    \E j \in DOMAIN mac[id].scheduleTable :
        mac[id].scheduleTable[j].ID = id /\ sn <= mac[id].scheduleTable[j].SN

ScheduleInv(n) ==
    LET tab == mac[n].scheduleTable
    IN  /\ mac[n].macState = "SETUP" => tab = <<>>
        /\ "SYNC_RENEW" \in mac[n].timers => tab[1].ID = n
        /\ \A i, j \in DOMAIN tab : tab[i].ID = tab[j].ID => i = j
        /\ \A i \in DOMAIN tab : Followed(tab[i].ID, tab[i].SN)
        /\ mac[n].macState = "CS_SYNC" => Followed(mac[n].syncPacket.ID, mac[n].syncPacket.SN)

SchedulesInv ==
    /\ \A n \in Node : ScheduleInv(n)
    /\ \A m, n \in Node : air[m][n].type = "SYNC" => Followed(air[m][n].id, air[m][n].sn)

-----------------------------------------------------------------------------
(* What the helper functions do to a node's packets and schedules. *)

\* c is what is left of b after some packets have been taken from its front.
EndOf(b, c) == \E k \in Nat : \A i \in DOMAIN c : i + k \in DOMAIN b /\ c[i] = b[i + k]

\* States in which a node has no exchange of its own.
Easy == MacState \ {"WAIT_FOR_ACK", "WAIT_FOR_CTS", "CS_RTS", "CS_DATA"}

\* From s to t the packets are not touched.
Light(s, t) ==
    /\ t.TXBuffer = s.TXBuffer /\ t.txAddr = s.txAddr /\ t.txRetries = s.txRetries
    /\ t.macState \in Easy \/ t.macState = s.macState

\* From s to t packets may have left the buffer, and no data was sent.
Shrunk(s, t) ==
    /\ EndOf(s.TXBuffer, t.TXBuffer)
    /\ t.macState = "WAIT_FOR_ACK" =>
          s.macState = "WAIT_FOR_ACK" /\ t.TXBuffer = s.TXBuffer /\ t.txAddr = s.txAddr
    /\ Counted(s) => Counted(t)

\* They have left it for want of retries.
Calm(s, t) ==
    /\ Shrunk(s, t)
    /\ t.TXBuffer # s.TXBuffer => s.TXBuffer # <<>> /\ s.txRetries <= 0

\* From s to t the schedules are not touched; the primary one may be announced.
Steady(s, t) ==
    /\ t.scheduleTable = s.scheduleTable
    /\ "SYNC_RENEW" \in t.timers => "SYNC_RENEW" \in s.timers
    /\ t.macState = "SETUP" => s.macState = "SETUP"
    /\ t.macState = "CS_SYNC" =>
          \/ s.macState = "CS_SYNC" /\ t.syncPacket = s.syncPacket
          \/ s.scheduleTable # <<>> /\ t.syncPacket = s.scheduleTable[1]

Plain(s, t) == Light(s, t) /\ Steady(s, t)
Quiet(s, t) == Calm(s, t) /\ Steady(s, t)

\* A sequence is its own end.
LEMMA EndSame == ASSUME NEW b, b \in Seq(Packet) PROVE EndOf(b, b)
<1>1. \A i \in DOMAIN b : i + 0 \in DOMAIN b /\ b[i] = b[i + 0]
  OBVIOUS
<1> QED
  BY <1>1 DEF EndOf

\* So is what follows its first element.
LEMMA EndTail ==
    ASSUME NEW b, b \in Seq(Packet), b # <<>>
    PROVE  EndOf(b, Tail(b))
<1>1. /\ Tail(b) \in Seq(Packet) /\ Len(Tail(b)) = Len(b) - 1
      /\ \A i \in 1..Len(Tail(b)) : Tail(b)[i] = b[i + 1]
  BY HeadTailProperties
<1>2. \A i \in DOMAIN Tail(b) : i + 1 \in DOMAIN b /\ Tail(b)[i] = b[i + 1]
  BY <1>1
<1> QED
  BY <1>2 DEF EndOf

\* Untouched packets are calm.
LEMMA LightCalm ==
    ASSUME NEW s, s \in NodeState, NEW t, Light(s, t)
    PROVE  Calm(s, t)
<1>1. EndOf(s.TXBuffer, s.TXBuffer)
  BY EndSame DEF NodeState
<1> QED
  BY <1>1 DEF Light, Calm, Shrunk, Easy, Counted

\* One stretch after another.
LEMMA PlainPlain ==
    ASSUME NEW s, NEW t, NEW u, Plain(s, t), Plain(t, u)
    PROVE  Plain(s, u)
BY DEF Plain, Light, Steady

\* A light stretch before a calm one leaves the whole calm.
LEMMA LightThenCalm ==
    ASSUME NEW s, NEW t, NEW u, Light(s, t), Calm(t, u)
    PROVE  Calm(s, u)
BY DEF Light, Calm, Shrunk, Easy, Counted

\* A plain stretch before a quiet one leaves the whole quiet.
LEMMA PlainQuiet ==
    ASSUME NEW s, NEW t, NEW u, Plain(s, t), Quiet(t, u)
    PROVE  Quiet(s, u)
<1>1. Calm(s, u)
  BY LightThenCalm DEF Plain, Quiet
<1>2. Steady(s, u)
  BY DEF Plain, Quiet, Steady
<1> QED
  BY <1>1, <1>2 DEF Quiet

\* What is plain is quiet.
LEMMA PlainIsQuiet ==
    ASSUME NEW s, s \in NodeState, NEW t, Plain(s, t)
    PROVE  Quiet(s, t)
BY LightCalm DEF Plain, Quiet

\* Timers other than SYNC_RENEW may be set, and all cancelled.
LEMMA TimersPlain ==
    ASSUME NEW s, s \in NodeState, NEW x \in Timer
    PROVE  /\ Plain(s, s) /\ Plain(s, Cancel(s, x))
           /\ x # "SYNC_RENEW" => Plain(s, Arm(s, x))
           /\ Plain(s, extendActivePeriod(s))
BY DEF Plain, Light, Steady, Arm, Cancel, extendActivePeriod, NodeState

\* A state without an exchange may be entered.
LEMMA StatesPlain ==
    ASSUME NEW s, s \in NodeState, NEW st \in Easy \ {"SETUP", "CS_SYNC"}
    PROVE  /\ Plain(s, setMacState(s, st)) /\ Plain(s, Wait(s, st))
           /\ Plain(s, performCarrierSense(s, st)) /\ Plain(s, Asleep(s))
BY DEF Plain, Light, Steady, setMacState, Wait, Arm, performCarrierSense, Asleep,
       NodeState, Easy, MacState, Sensing, Waiting

\* What is not about packets and schedules may change.
LEMMA FieldsPlain ==
    ASSUME NEW s, s \in NodeState, NEW a, NEW p, NEW q, NEW r
    PROVE  /\ Plain(s, [s EXCEPT !.awake = a]) /\ Plain(s, [s EXCEPT !.primaryWakeup = p])
           /\ Plain(s, [s EXCEPT !.primaryWakeup = p, !.shifted = q,
                                 !.needResync = r, !.awake = a])
BY DEF Plain, Light, Steady, NodeState

\* popTxBuffer: the packets behind the first, and all retries for the next.
LEMMA PopEnd ==
    ASSUME NEW s, Base(s), s.TXBuffer # <<>>
    PROVE  LET t == popTxBuffer(s)
           IN  /\ t.TXBuffer = Tail(s.TXBuffer) /\ EndOf(s.TXBuffer, t.TXBuffer)
               /\ t.TXBuffer # <<>> => t.txRetries = maxTxRetries
               /\ t.scheduleTable = s.scheduleTable /\ t.timers = s.timers
               /\ t.macState = s.macState /\ t.syncPacket = s.syncPacket
               /\ t.primaryWakeup = s.primaryWakeup /\ t.needResync = s.needResync
<1>1. EndOf(s.TXBuffer, Tail(s.TXBuffer))
  BY EndTail DEF Base, NodeState
<1> QED
  BY <1>1 DEF popTxBuffer, checkTxBuffer, Base, NodeState

\* GiveUp leaves retries for what it leaves in front.
LEMMA GiveUpEnd ==
    ASSUME NEW s, Base(s)
    PROVE  LET t == GiveUp(s)
           IN  /\ EndOf(s.TXBuffer, t.TXBuffer)
               /\ t.TXBuffer # s.TXBuffer => s.TXBuffer # <<>> /\ s.txRetries <= 0
               /\ t.TXBuffer # <<>> => t.txRetries > 0
               /\ t.scheduleTable = s.scheduleTable /\ t.timers = s.timers
<1>1. CASE s.TXBuffer # <<>> /\ s.txRetries <= 0
  <2>1. GiveUp(s) = popTxBuffer(s)
    BY <1>1 DEF GiveUp
  <2> QED
    BY <2>1, <1>1, PopEnd, TmacAssumption
<1>2. CASE ~(s.TXBuffer # <<>> /\ s.txRetries <= 0)
  <2>1. GiveUp(s) = s
    BY <1>2 DEF GiveUp
  <2>2. s.txRetries \in Int /\ s.TXBuffer \in Seq(Packet)
    BY DEF Base, NodeState
  <2> QED
    BY <2>1, <2>2, <1>2, EndSame
<1> QED
  BY <1>1, <1>2

\* Contend changes the state and sets its timer.
LEMMA ContendEnd ==
    ASSUME NEW s, Base(s)
    PROVE  LET t == Contend(s)
           IN  /\ t.TXBuffer = s.TXBuffer /\ t.txRetries = s.txRetries
               /\ t.scheduleTable = s.scheduleTable
               /\ "SYNC_RENEW" \in t.timers => "SYNC_RENEW" \in s.timers
               /\ t.macState \in {"ACTIVE", "CS_RTS", "CS_DATA"}
               /\ t.macState = "CS_RTS" => par.useRtsCts
               /\ t.macState # "ACTIVE" => s.TXBuffer # <<>>
BY DEF Contend, performCarrierSense, setMacState, Arm, Base, NodeState

\* resetDefaultState gives up what has no retries left, and touches no schedule.
LEMMA ResetQuiet ==
    ASSUME NEW s, Base(s)
    PROVE  /\ Quiet(s, resetDefaultState(s))
           /\ resetDefaultState(s).macState \notin {"SETUP", "WAIT_FOR_ACK"}
<1> DEFINE t == resetDefaultState(s)
<1>1. s \in NodeState /\ s.TXBuffer \in Seq(Packet)
  BY DEF Base, NodeState
<1>2. CASE "CHECK_TA" \notin s.timers
  <2>1. t = Asleep(s) \/ t = performCarrierSense(s, "CS_BEFORE_SLEEP")
    BY <1>2 DEF resetDefaultState
  <2>2. t.macState \in {"SLEEP", "CS_BEFORE_SLEEP"}
    BY <2>1, <1>1 DEF Asleep, performCarrierSense, setMacState, Arm, NodeState
  <2>3. Plain(s, t)
    BY <2>1, <1>1, StatesPlain DEF Easy, MacState, Sensing, Waiting
  <2> QED
    BY <2>2, <2>3, <1>1, PlainIsQuiet
<1>3. CASE "CHECK_TA" \in s.timers /\ ~s.primaryWakeup
  <2>1. t = setMacState(s, "ACTIVE_SILENT")
    BY <1>3 DEF resetDefaultState
  <2>2. t.macState = "ACTIVE_SILENT"
    BY <2>1, <1>1 DEF setMacState, NodeState
  <2>3. Plain(s, t)
    BY <2>1, <1>1, StatesPlain DEF Easy, MacState, Sensing, Waiting
  <2> QED
    BY <2>2, <2>3, <1>1, PlainIsQuiet
<1>4. CASE "CHECK_TA" \in s.timers /\ s.primaryWakeup /\ s.needResync
  <2>1. t = [performCarrierSense(s, "CS_SYNC") EXCEPT !.syncPacket = s.scheduleTable[1]]
    BY <1>4 DEF resetDefaultState
  <2>2. s.scheduleTable # <<>>
    BY <1>4 DEF Base
  <2>3. /\ t.TXBuffer = s.TXBuffer /\ t.txAddr = s.txAddr /\ t.txRetries = s.txRetries
        /\ t.macState = "CS_SYNC" /\ t.syncPacket = s.scheduleTable[1]
        /\ t.scheduleTable = s.scheduleTable /\ t.timers = s.timers \cup {"CARRIER_SENSE"}
    BY <2>1, <1>1 DEF performCarrierSense, setMacState, Arm, NodeState
  <2> HIDE DEF t
  <2>4. Light(s, t) /\ Steady(s, t)
    BY <2>2, <2>3 DEF Light, Steady, Easy, MacState, Sensing
  <2> QED
    BY <2>3, <2>4, <1>1, LightCalm DEF t, Quiet
<1>5. CASE "CHECK_TA" \in s.timers /\ s.primaryWakeup /\ ~s.needResync
  <2> DEFINE g == GiveUp(s)
  <2>1. t = Contend(g)
    BY <1>5 DEF resetDefaultState
  <2>2. Base(g)
    BY GiveUpOK
  <2>3. /\ EndOf(s.TXBuffer, g.TXBuffer)
        /\ g.TXBuffer # s.TXBuffer => s.TXBuffer # <<>> /\ s.txRetries <= 0
        /\ g.TXBuffer # <<>> => g.txRetries > 0
        /\ g.scheduleTable = s.scheduleTable /\ g.timers = s.timers
    BY GiveUpEnd
  <2> HIDE DEF g
  <2>4. /\ t.TXBuffer = g.TXBuffer /\ t.txRetries = g.txRetries
        /\ t.scheduleTable = g.scheduleTable
        /\ "SYNC_RENEW" \in t.timers => "SYNC_RENEW" \in g.timers
        /\ t.macState \in {"ACTIVE", "CS_RTS", "CS_DATA"}
        /\ t.macState = "CS_RTS" => par.useRtsCts
        /\ t.macState # "ACTIVE" => g.TXBuffer # <<>>
    BY <2>1, <2>2, ContendEnd
  <2> HIDE DEF t
  <2>5. t.txRetries \in Int
    BY <2>2, <2>4 DEF Base, NodeState
  <2>6. Counted(t)
    BY <2>3, <2>4, <2>5 DEF Counted
  <2>7. Calm(s, t)
    BY <2>3, <2>4, <2>6 DEF Calm, Shrunk
  <2>8. Steady(s, t)
    BY <2>3, <2>4 DEF Steady
  <2> QED
    BY <2>4, <2>7, <2>8 DEF t, Quiet
<1>6. s.primaryWakeup \in BOOLEAN /\ s.needResync \in BOOLEAN
  BY <1>1 DEF NodeState
<1> QED
  BY <1>2, <1>3, <1>4, <1>5, <1>6

-----------------------------------------------------------------------------
(* What the handlers do to them: those that neither send data nor get an ACK, *)
(* a packet or news of a schedule are quiet.                                  *)

\* n makes a quiet step.
QuietStep(n) == \E t : Becomes(n, t) /\ Quiet(mac[n], t)

\* A busy channel.
LEMMA BusyQuiet ==
    ASSUME NEW s, Base(s)
    PROVE  Quiet(s, carrierIsBusy(s))
<1> DEFINE t == IF par.disableTAextension THEN s ELSE extendActivePeriod(s)
<1>1. Base(t) /\ t.macState = s.macState
  BY ArmOK DEF extendActivePeriod, Timer
<1>2. s \in NodeState /\ Plain(s, t) /\ Plain(s, s)
  BY TimersPlain DEF Base, Timer
<1> HIDE DEF t
<1>3. carrierIsBusy(s) \in {s, t, resetDefaultState(t), setMacState(t, "ACTIVE_SILENT")}
  BY DEF carrierIsBusy, t
<1>4. Quiet(s, s) /\ Quiet(s, t)
  BY <1>2, PlainIsQuiet
<1>5. Quiet(s, resetDefaultState(t))
  BY <1>1, <1>2, ResetQuiet, PlainQuiet
<1>6. Plain(t, setMacState(t, "ACTIVE_SILENT"))
  BY <1>1, StatesPlain DEF Base, Easy, MacState, Sensing, Waiting
<1>7. Quiet(s, setMacState(t, "ACTIVE_SILENT"))
  BY <1>2, <1>6, PlainPlain, PlainIsQuiet
<1> QED
  BY <1>3, <1>4, <1>5, <1>7

\* The timers but those that make or renew a schedule.
LEMMA TimersQuiet ==
    ASSUME IInv, NEW n \in Node,
           \/ SyncSetup(n) \/ FrameStart(n) \/ Wakeup(n) \/ CheckTA(n)
           \/ TransmissionTimeout(n)
    PROVE  QuietStep(n)
<1> DEFINE s == mac[n]
<1>1. Good(s) /\ Base(s) /\ s \in NodeState
  BY DEF IInv, MacInv, Good, Driven, Base
<1>2. ASSUME NEW x \in Timer \ {"FRAME_START"}
      PROVE  Plain(s, Cancel(s, x)) /\ Base(Cancel(s, x)) /\ Cancel(s, x) \in NodeState
  BY <1>1, TimersPlain, CancelOK DEF Base
<1>3. CASE SyncSetup(n)
  <2> DEFINE t == Cancel(s, "SYNC_SETUP")
  <2>1. Plain(s, t) /\ t \in NodeState
    BY <1>2 DEF Timer
  <2>2. \E u \in {t, Arm(t, "SYNC_CREATE")} : Becomes(n, u)
    BY <1>3 DEF SyncSetup, After
  <2> HIDE DEF t
  <2>3. Plain(s, Arm(t, "SYNC_CREATE"))
    BY <2>1, TimersPlain, PlainPlain DEF Timer
  <2> QED
    BY <1>1, <2>1, <2>2, <2>3, PlainIsQuiet DEF QuietStep
<1>4. CASE FrameStart(n)
  <2> DEFINE r == s.needResync \/ s.shifted
             b == s.awake \/ s.macState = "SLEEP"
             e == extendActivePeriod(s)
             u == [e EXCEPT !.primaryWakeup = TRUE, !.shifted = FALSE,
                            !.needResync = r, !.awake = b]
             t == IF Len(u.scheduleTable) > 1 THEN Arm(u, "WAKEUP_SILENT") ELSE u
  <2>1. e.needResync = s.needResync /\ e.awake = s.awake /\ "FRAME_START" \in s.timers
    BY <1>1, <1>4 DEF FrameStart, Fires, extendActivePeriod, Arm, NodeState
  <2>2. \E w \in {resetDefaultState(t), t} : Becomes(n, w)
    BY <1>4, <2>1 DEF FrameStart
  <2>3. r \in BOOLEAN /\ b \in BOOLEAN
    BY <1>1 DEF NodeState
  <2> HIDE DEF r, b
  <2>4. Plain(s, e) /\ e \in NodeState
    BY <1>1, TimersPlain, ArmOK DEF extendActivePeriod, Base, Timer
  <2>5. Good(u)
    BY <1>1, <2>1, <2>3, FrameStartOK
  <2> HIDE DEF e
  <2>6. Plain(s, u)
    BY <2>4, FieldsPlain, PlainPlain
  <2> HIDE DEF u
  <2>7. Base(t) /\ Plain(s, t)
    BY <2>5, <2>6, ArmOK, TimersPlain, PlainPlain DEF Good, Driven, Base, Timer
  <2> HIDE DEF t
  <2>8. Quiet(s, resetDefaultState(t)) /\ Quiet(s, t)
    BY <1>1, <2>7, ResetQuiet, PlainQuiet, PlainIsQuiet
  <2> QED
    BY <2>2, <2>8 DEF QuietStep
<1>5. CASE Wakeup(n)
  <2>1. PICK c \in {Cancel(s, "WAKEUP_SILENT"), s} :
           LET t == extendActivePeriod(c)
           IN  Becomes(n, IF t.macState = "SLEEP"
                          THEN resetDefaultState([t EXCEPT !.awake = TRUE]) ELSE t)
    BY <1>5 DEF Wakeup, After
  <2> DEFINE t == extendActivePeriod(c)
             u == [t EXCEPT !.awake = TRUE]
  <2>2. Plain(s, c) /\ Base(c)
    BY <1>1, <1>2, TimersPlain DEF Timer
  <2>3. Plain(s, t) /\ Base(t)
    BY <2>2, TimersPlain, ArmOK, PlainPlain DEF extendActivePeriod, Base, Timer
  <2>4. \E w \in {resetDefaultState(u), t} : Becomes(n, w)
    BY <2>1
  <2> HIDE DEF t
  <2>5. Plain(s, u) /\ Base(u)
    <3>1. Plain(s, u)
      BY <2>3, FieldsPlain, PlainPlain DEF Base
    <3>2. Base(u)
      BY <2>3 DEF Base, NodeState
    <3> QED
      BY <3>1, <3>2
  <2> HIDE DEF u
  <2>6. Quiet(s, resetDefaultState(u)) /\ Quiet(s, t)
    BY <1>1, <2>3, <2>5, ResetQuiet, PlainQuiet, PlainIsQuiet
  <2> QED
    BY <2>4, <2>6 DEF QuietStep
<1>6. CASE CheckTA(n)
  <2> DEFINE c == Cancel(s, "CHECK_TA")
  <2>1. \E w \in {[Asleep(c) EXCEPT !.primaryWakeup = FALSE],
                  performCarrierSense(c, "CS_BEFORE_SLEEP"), extendActivePeriod(c)} :
           Becomes(n, w)
    BY <1>6 DEF CheckTA, After
  <2>2. Plain(s, c) /\ Base(c) /\ c \in NodeState
    BY <1>2 DEF Timer
  <2> HIDE DEF c
  <2>3. Plain(c, performCarrierSense(c, "CS_BEFORE_SLEEP")) /\ Plain(c, Asleep(c))
        /\ Plain(c, extendActivePeriod(c)) /\ Asleep(c) \in NodeState
    BY <2>2, StatesPlain, TimersPlain, AsleepOK
       DEF Easy, MacState, Sensing, Waiting, Timer, Good, Driven, Base
  <2>4. Plain(Asleep(c), [Asleep(c) EXCEPT !.primaryWakeup = FALSE])
    BY <2>3, FieldsPlain
  <2>5. /\ Plain(s, [Asleep(c) EXCEPT !.primaryWakeup = FALSE])
        /\ Plain(s, performCarrierSense(c, "CS_BEFORE_SLEEP"))
        /\ Plain(s, extendActivePeriod(c))
    BY <2>2, <2>3, <2>4, PlainPlain
  <2> QED
    BY <1>1, <2>1, <2>5, PlainIsQuiet DEF QuietStep
<1>7. CASE TransmissionTimeout(n)
  <2>1. Quiet(s, resetDefaultState(Cancel(s, "TRANSMISSION_TIMEOUT")))
    BY <1>2, ResetQuiet, PlainQuiet DEF Timer
  <2> QED
    BY <1>7, <2>1 DEF TransmissionTimeout, After, QuietStep
<1> QED
  BY <1>3, <1>4, <1>5, <1>6, <1>7

\* The answers to a carrier sense, but for data.
LEMMA SenseQuiet ==
    ASSUME IInv, NEW n \in Node,
           \/ SenseInVain(n) \/ SenseNotValid(n) \/ SenseBusy(n) \/ CarrierInterrupt(n)
           \/ SendRTS(n) \/ SendSYNC(n) \/ GoToSleep(n)
    PROVE  QuietStep(n)
<1> DEFINE s == mac[n]
           t == Cancel(s, "CARRIER_SENSE")
<1>1. Good(s) /\ Base(s) /\ s \in NodeState
  BY DEF IInv, MacInv, Good, Driven, Base
<1>2. Plain(s, t) /\ Base(t) /\ t \in NodeState /\ t.macState = s.macState
      /\ t.txRetries = s.txRetries
  BY <1>1, TimersPlain, CancelOK DEF Base, Timer, NodeState
<1>3. t = After(n, "CARRIER_SENSE")
  BY DEF After
<1> HIDE DEF t
<1>4. Quiet(s, t)
  BY <1>1, <1>2, PlainIsQuiet
<1>5. CASE SenseInVain(n)
  BY <1>3, <1>4, <1>5 DEF SenseInVain, QuietStep
<1>6. CASE SenseNotValid(n)
  <2>1. Plain(s, [s EXCEPT !.awake = TRUE])
    BY <1>1, FieldsPlain
  <2> QED
    BY <1>1, <1>6, <2>1, PlainIsQuiet DEF SenseNotValid, QuietStep
<1>7. CASE SenseBusy(n)
  <2>1. Quiet(s, carrierIsBusy(t))
    BY <1>2, BusyQuiet, PlainQuiet
  <2> QED
    BY <1>3, <1>7, <2>1 DEF SenseBusy, QuietStep
<1>8. CASE CarrierInterrupt(n)
  BY <1>1, <1>8, BusyQuiet DEF CarrierInterrupt, QuietStep
<1>9. CASE SendRTS(n)
  <2> DEFINE w == Wait(t, "WAIT_FOR_CTS")
             u == Attempt(w)
  <2>1. s.macState = "CS_RTS" /\ Becomes(n, u)
    BY <1>3, <1>9 DEF SendRTS, Clear, Senses, Attempt
  <2>2. /\ w.TXBuffer = t.TXBuffer /\ w.txAddr = t.txAddr /\ w.txRetries = t.txRetries
        /\ w.macState = "WAIT_FOR_CTS" /\ w.scheduleTable = t.scheduleTable
        /\ w.timers = t.timers \cup {"TRANSMISSION_TIMEOUT"}
    BY <1>2 DEF Wait, Arm, setMacState, NodeState
  <2>3. w \in NodeState
    BY <1>2 DEF Wait, Arm, setMacState, NodeState, MacState, Waiting, Timer
  <2> HIDE DEF w
  <2>4. /\ u.TXBuffer = t.TXBuffer /\ u.txAddr = t.txAddr /\ u.txRetries = t.txRetries - 1
        /\ u.macState = "WAIT_FOR_CTS" /\ u.scheduleTable = t.scheduleTable
        /\ u.timers = t.timers \cup {"TRANSMISSION_TIMEOUT"}
    BY <2>2, <2>3 DEF Attempt, NodeState
  <2> HIDE DEF u
  <2>5. EndOf(t.TXBuffer, t.TXBuffer) /\ t.txRetries \in Int
    BY <1>2, EndSame DEF NodeState
  <2>6. Counted(t) => Counted(u)
    BY <2>1, <2>4, <2>5, <1>2 DEF Counted
  <2>7. Calm(t, u) /\ Steady(t, u)
    BY <2>4, <2>5, <2>6 DEF Calm, Shrunk, Steady
  <2> QED
    BY <1>2, <2>1, <2>7, PlainQuiet DEF Quiet, QuietStep
<1>10. CASE SendSYNC(n)
  <2> DEFINE w == Wait(t, "IN_TX")
             u == [w EXCEPT !.needResync = FALSE]
  <2>1. Becomes(n, u)
    BY <1>3, <1>10 DEF SendSYNC
  <2>2. w \in NodeState /\ Plain(t, w)
    BY <1>2, WaitOK, StatesPlain
       DEF Good, Driven, Base, Easy, MacState, Sensing, Waiting
  <2> HIDE DEF w
  <2>3. Plain(w, u)
    BY <2>2 DEF Plain, Light, Steady, NodeState
  <2> QED
    BY <1>1, <1>2, <2>1, <2>2, <2>3, PlainPlain, PlainIsQuiet DEF QuietStep
<1>11. CASE GoToSleep(n)
  <2> DEFINE u == [Asleep(t) EXCEPT !.primaryWakeup = FALSE]
  <2>1. Becomes(n, u)
    BY <1>3, <1>11 DEF GoToSleep
  <2>2. Plain(t, Asleep(t)) /\ Asleep(t) \in NodeState
    BY <1>2, StatesPlain, AsleepOK
       DEF Good, Driven, Base, Easy, MacState, Sensing, Waiting
  <2>3. Plain(Asleep(t), u)
    BY <2>2, FieldsPlain
  <2> QED
    BY <1>1, <1>2, <2>1, <2>2, <2>3, PlainPlain, PlainIsQuiet DEF QuietStep
<1> QED
  BY <1>5, <1>6, <1>7, <1>8, <1>9, <1>10, <1>11
\* Frames that are overheard, or ask for an answer or a wait.
LEMMA ReceiveQuiet ==
    ASSUME IInv, NEW m \in Node, NEW n \in Node,
           \/ Overhear(m, n) \/ ReceiveRTS(m, n) \/ ReceiveDATA(m, n)
           \/ ReceiveCTS(m, n) /\ ~(mac[n].macState = "WAIT_FOR_CTS" /\ mac[n].txAddr = m)
    PROVE  QuietStep(n)
<1> DEFINE s == mac[n]
           e == extendActivePeriod(s)
<1>1. Good(s) /\ Base(s) /\ s \in NodeState
  BY DEF IInv, MacInv, Good, Driven, Base
<1>2. Plain(s, e) /\ e \in NodeState /\ Plain(s, s)
  BY <1>1, TimersPlain, ArmOK DEF extendActivePeriod, Base, Timer
<1>3. Quiet(s, s) /\ Quiet(s, resetDefaultState(s)) /\ mac = [mac EXCEPT ![n] = s]
  BY <1>1, <1>2, PlainIsQuiet, ResetQuiet DEF IInv, MacInv
<1>4. CASE Overhear(m, n)
  <2> DEFINE u == setMacState(e, "ACTIVE_SILENT")
  <2>1. \E w \in {Arm(u, "TRANSMISSION_TIMEOUT"), u} : Becomes(n, w)
    BY <1>4 DEF Overhear
  <2>2. Plain(e, u)
    BY <1>2, StatesPlain DEF Easy, MacState, Sensing, Waiting
  <2>3. u \in NodeState
    BY <1>2 DEF setMacState, NodeState, MacState
  <2> HIDE DEF e
  <2>4. Plain(s, u)
    BY <1>2, <2>2, PlainPlain
  <2> HIDE DEF u
  <2>5. Plain(u, Arm(u, "TRANSMISSION_TIMEOUT"))
    BY <2>3, TimersPlain DEF Timer
  <2>6. Plain(s, Arm(u, "TRANSMISSION_TIMEOUT"))
    BY <2>4, <2>5, PlainPlain
  <2> QED
    BY <1>1, <2>1, <2>4, <2>6, PlainIsQuiet DEF QuietStep
<1>5. CASE ReceiveRTS(m, n)
  <2>1. Plain(s, Wait(s, "WAIT_FOR_DATA"))
    BY <1>1, StatesPlain DEF Easy, MacState, Sensing, Waiting
  <2> QED
    BY <1>1, <1>5, <2>1, PlainIsQuiet DEF ReceiveRTS, QuietStep
<1>6. CASE ReceiveDATA(m, n)
  <2>1. mac' = mac \/ Becomes(n, Wait(e, "IN_TX"))
    BY <1>6 DEF ReceiveDATA
  <2> HIDE DEF e
  <2>2. Plain(e, Wait(e, "IN_TX"))
    BY <1>2, StatesPlain DEF Easy, MacState, Sensing, Waiting
  <2>3. Quiet(s, Wait(e, "IN_TX"))
    BY <1>1, <1>2, <2>2, PlainPlain, PlainIsQuiet
  <2> QED
    BY <1>3, <2>1, <2>3 DEF QuietStep, Becomes
<1>7. CASE ReceiveCTS(m, n) /\ ~(s.macState = "WAIT_FOR_CTS" /\ s.txAddr = m)
  <2>1. \E w \in {resetDefaultState(s), s} : Becomes(n, w)
    BY <1>7 DEF ReceiveCTS
  <2> QED
    BY <1>3, <2>1 DEF QuietStep
<1> QED
  BY <1>4, <1>5, <1>6, <1>7

-----------------------------------------------------------------------------
(* The air: which frames a step may add. *)

\* No frame of one of these types appears.
NoNew(types) ==
    /\ \A a, b \in Node : air'[a][b] = air[a][b] \/ air'[a][b].type \notin types
    /\ \A a \in Node : air[a][a] = NoFrame => air'[a][a] = NoFrame

\* n's frame f appears, and nothing else.
OnlyNew(n, f) ==
    /\ \A b \in Node : air'[n][b] = IF b = n THEN NoFrame ELSE f
    /\ \A a, b \in Node : a # n => air'[a][b] \in {air[a][b], NoFrame}

\* A frame that is taken or lost.
LEMMA SilentAir ==
    ASSUME IInv, NEW m \in Node, NEW n \in Node, UNCHANGED air \/ Silently(m, n),
           NEW types, types \subseteq {"RTS", "CTS", "DATA", "ACK", "SYNC"}
    PROVE  NoNew(types) /\ \A a, b \in Node : air'[a][b] \in {air[a][b], NoFrame}
<1>1. NoFrame.type = "none"
  BY DEF NoFrame
<1>2. \A a, b \in Node : air'[a][b] \in {air[a][b], NoFrame}
  <2>1. CASE UNCHANGED air
    BY <2>1
  <2>2. CASE Silently(m, n)
    BY <2>2 DEF IInv, AirInv, Silently
  <2> QED
    BY <2>1, <2>2
<1>3. "none" \notin types
  OBVIOUS
<1> QED
  BY <1>1, <1>2, <1>3 DEF NoNew

\* A frame that is sent, perhaps as an answer.
LEMMA CastAir ==
    ASSUME IInv, NEW m \in Node, NEW n \in Node, NEW f \in AnyFrame,
           air' = [air EXCEPT ![n] = Cast(n, f)] \/ (m # n /\ Replying(m, n, f))
    PROVE  /\ OnlyNew(n, f) /\ (Replying(m, n, f) /\ m # n => air'[m][n] = NoFrame)
           /\ \A types \in SUBSET {"RTS", "CTS", "DATA", "ACK", "SYNC"} :
                 f.type \notin types => NoNew(types)
<1>1. OnlyNew(n, f) /\ (Replying(m, n, f) /\ m # n => air'[m][n] = NoFrame)
  <2> DEFINE c == Cast(n, f)
  <2>1. \A b \in Node : c[b] = IF b = n THEN NoFrame ELSE f
    BY DEF Cast
  <2> HIDE DEF c
  <2>2. CASE air' = [air EXCEPT ![n] = c]
    BY <2>1, <2>2 DEF IInv, AirInv, OnlyNew, Replying
  <2>3. CASE m # n /\ air' = [air EXCEPT ![m][n] = NoFrame, ![n] = c]
    BY <2>1, <2>3 DEF IInv, AirInv, OnlyNew
  <2> QED
    BY <2>2, <2>3 DEF Replying, c
<1>2. NoFrame.type = "none"
  BY DEF NoFrame
<1>3. \A types \in SUBSET {"RTS", "CTS", "DATA", "ACK", "SYNC"} :
         f.type \notin types => NoNew(types)
  BY <1>1, <1>2 DEF OnlyNew, NoNew
<1> QED
  BY <1>1, <1>3

-----------------------------------------------------------------------------
(* Steps and the invariants. *)

\* Packets may leave n's buffer as long as none goes on the air.
LEMMA ShrinkLink ==
    ASSUME IInv, IInv', LinkInv, NEW n \in Node, NEW t, Becomes(n, t), Shrunk(mac[n], t),
           NoNew({"DATA", "ACK"}), UNCHANGED <<par, sent, pktHistory, delivered>>,
           acked' \in [Node -> SUBSET Nat]
    PROVE  LinkInv'
<1> DEFINE s == mac[n]
<1>1. /\ \A a \in Node : mac'[a] = IF a = n THEN t ELSE mac[a]
      /\ t \in NodeState /\ t.TXBuffer \in Seq(Packet)
      /\ s \in NodeState /\ s.TXBuffer \in Seq(Packet)
  BY DEF IInv, MacInv, Becomes, Good, Driven, Base, NodeState
<1>2. \A a, b \in Node : air'[a][b] = air[a][b] \/ air'[a][b].type \notin {"DATA", "ACK"}
  BY DEF NoNew
<1>3. PICK k \in Nat : \A i \in DOMAIN t.TXBuffer :
         i + k \in DOMAIN s.TXBuffer /\ t.TXBuffer[i] = s.TXBuffer[i + k]
  BY DEF Shrunk, EndOf
<1>4. \A i \in DOMAIN t.TXBuffer : i \in Nat
  BY <1>1
<1>5. ASSUME NEW a \in Node PROVE BufferInv(a)'
  <2>1. BufferInv(a)
    BY DEF LinkInv
  <2>2. CASE a # n
    BY <1>1, <2>1, <2>2 DEF BufferInv, Given
  <2>3. CASE a = n
    <3>1. \A i \in DOMAIN t.TXBuffer : Given(n, t.TXBuffer[i])
      BY <1>3, <2>1, <2>3 DEF BufferInv
    <3>2. \A i, j \in DOMAIN t.TXBuffer : i < j => t.TXBuffer[i].sn < t.TXBuffer[j].sn
      <4> TAKE i, j \in DOMAIN t.TXBuffer
      <4>1. i < j => i + k < j + k
        BY <1>4
      <4> QED
        BY <1>3, <2>1, <2>3, <4>1 DEF BufferInv
    <3>3. \A i \in DOMAIN t.TXBuffer, m \in Node : pktHistory[m][n] <= t.TXBuffer[i].sn
      BY <1>3, <2>1, <2>3 DEF BufferInv
    <3> QED
      BY <1>1, <2>3, <3>1, <3>2, <3>3 DEF BufferInv, Given
  <2> QED
    BY <2>2, <2>3
<1>6. ASSUME NEW a \in Node PROVE FramesInv(a)'
  <2>1. FramesInv(a)
    BY DEF LinkInv
  <2>2. CASE a # n
    BY <1>1, <1>2, <2>1, <2>2 DEF FramesInv, Given
  <2>3. CASE a = n
    <3> SUFFICES ASSUME NEW m \in Node, air'[n][m].type = "DATA"
                 PROVE  /\ Given(n, air[n][m])' /\ pktHistory'[m][n] <= air'[n][m].sn
                        /\ \A i \in DOMAIN t.TXBuffer : air'[n][m].sn <= t.TXBuffer[i].sn
      BY <1>1, <2>3 DEF FramesInv
    <3>1. air'[n][m] = air[n][m]
      BY <1>2
    <3>2. Given(n, air[n][m]) /\ pktHistory[m][n] <= air[n][m].sn
      BY <2>1, <2>3, <3>1 DEF FramesInv
    <3>3. \A i \in DOMAIN s.TXBuffer : air[n][m].sn <= s.TXBuffer[i].sn
      BY <2>1, <2>3, <3>1 DEF FramesInv
    <3> QED
      BY <1>3, <3>1, <3>2, <3>3 DEF Given
  <2> QED
    BY <2>2, <2>3
<1>7. ASSUME NEW a \in Node PROVE AckInv(a)'
  <2>1. AckInv(a)
    BY DEF LinkInv
  <2>2. /\ mac'[a].macState = "WAIT_FOR_ACK" =>
             /\ mac[a].macState = "WAIT_FOR_ACK"
             /\ mac'[a].TXBuffer = mac[a].TXBuffer /\ mac'[a].txAddr = mac[a].txAddr
    BY <1>1 DEF Shrunk
  <2>3. \A m \in Node : Passed(m)' = Passed(m)
    BY DEF Passed
  <2>4. /\ \A m \in Node : air'[a][m].type = "DATA" => air'[a][m] = air[a][m]
        /\ \A m \in Node : air'[m][a].type = "ACK" => air'[m][a] = air[m][a]
    BY <1>2
  <2> QED
    BY <2>1, <2>2, <2>3, <2>4 DEF AckInv
<1>8. ASSUME NEW a \in Node PROVE RetriesInv(a)' /\ air'[a][a] = NoFrame
  BY <1>1 DEF LinkInv, RetriesInv, Counted, Shrunk, NoNew
<1>9. ASSUME NEW a \in Node, NEW m \in Node PROVE HistoryInv(m, a)'
  <2>1. HistoryInv(m, a) /\ Passed(m)' = Passed(m)
    BY DEF LinkInv, Passed
  <2> QED
    BY <2>1 DEF HistoryInv
<1>10. /\ pktHistory' \in [Node -> [Node -> Nat]]
       /\ delivered' \in [Node -> Seq(Node \X Nat)]
  BY DEF LinkInv
<1> QED
  BY <1>5, <1>6, <1>7, <1>8, <1>9, <1>10 DEF LinkInv
\* A quiet step, in which no data or ACK goes on the air.
LEMMA QuietLink ==
    ASSUME IInv, IInv', LinkInv, NEW n \in Node, QuietStep(n),
           NoNew({"DATA", "ACK"}), UNCHANGED <<par, sent, pktHistory, delivered, acked>>
    PROVE  LinkInv'
BY ShrinkLink DEF QuietStep, Quiet, Calm, LinkInv

\* No packet leaves n's buffer early.
Kept(n) ==
    LET b == mac[n].TXBuffer
    IN  b # <<>> /\ (mac'[n].TXBuffer = <<>> \/ Head(mac'[n].TXBuffer) # Head(b)) =>
            \/ Head(b).dst = BROADCAST
            \/ mac[n].tried = maxTxRetries
            \/ Head(b).sn \in acked'[n]

\* In a calm step only a packet without retries left leaves.
LEMMA CalmKept ==
    ASSUME IInv, LinkInv, NEW n \in Node, NEW t, Becomes(n, t), Calm(mac[n], t)
    PROVE  \A a \in Node : Kept(a)
<1>1. \A a \in Node : mac'[a] = IF a = n THEN t ELSE mac[a]
  BY DEF IInv, MacInv, Becomes
<1>2. Counted(mac[n]) /\ Base(mac[n])
  BY DEF LinkInv, RetriesInv, IInv, MacInv, Good, Driven
<1>3. mac[n].txRetries \in Int /\ mac[n].tried \in Int
  BY <1>2 DEF Base, NodeState
<1>4. ASSUME t.TXBuffer # mac[n].TXBuffer PROVE mac[n].tried = maxTxRetries
  <2>1. mac[n].TXBuffer # <<>> /\ mac[n].txRetries <= 0
    BY <1>4 DEF Calm
  <2>2. mac[n].txRetries >= 0 /\ mac[n].tried + mac[n].txRetries = maxTxRetries
    BY <1>2, <2>1 DEF Counted, Base
  <2> QED
    BY <1>3, <2>1, <2>2, TmacAssumption
<1>5. Kept(n)
  BY <1>1, <1>4 DEF Kept
<1>6. \A a \in Node : a # n => Kept(a)
  BY <1>1 DEF Kept
<1> QED
  BY <1>5, <1>6

\* Nor does one in a step that only takes from the air.
LEMMA SameKept == mac' = mac => \A a \in Node : Kept(a)
BY DEF Kept

\* An attempt keeps the fields' types.
LEMMA AttemptField ==
    ASSUME NEW w, w \in NodeState
    PROVE  Attempt(w) \in NodeState
<1> DEFINE r == w.txRetries - 1
           k == w.tried + 1
           u == [w EXCEPT !.txRetries = r]
<1>1. r \in Int /\ k \in Int
  BY DEF NodeState
<1> HIDE DEF r, k
<1>2. u \in NodeState
  BY <1>1 DEF NodeState
<1> HIDE DEF u
<1>3. [u EXCEPT !.tried = k] \in NodeState
  BY <1>1, <1>2 DEF NodeState
<1> QED
  BY <1>3 DEF Attempt, u, r, k

\* sendDataPacket for a packet to all, which leaves the buffer, and to one node.
LEMMA DataNode ==
    ASSUME NEW s, Base(s), s.TXBuffer # <<>>,
           Counted(s), par.useRtsCts \/ s.txRetries > 0
    PROVE  LET t == sendDataPacket(s)
           IN  /\ Counted(t) /\ Steady(s, t)
               /\ s.txAddr = BROADCAST => /\ t.TXBuffer = Tail(s.TXBuffer)
                                          /\ t.macState = "IN_TX"
               /\ s.txAddr # BROADCAST => /\ t.TXBuffer = s.TXBuffer /\ t.txAddr = s.txAddr
                                          /\ t.macState = "WAIT_FOR_ACK"
<1> DEFINE t == sendDataPacket(s)
<1>1. CASE s.txAddr = BROADCAST
  <2> DEFINE p == popTxBuffer(s)
  <2>1. t = extendActivePeriod(Wait(p, "IN_TX"))
    BY <1>1 DEF sendDataPacket
  <2>2. Base(p) /\ p.TXBuffer = Tail(s.TXBuffer) /\ p.scheduleTable = s.scheduleTable
        /\ p.timers = s.timers /\ (p.TXBuffer # <<>> => p.txRetries = maxTxRetries)
    BY PopOK, PopEnd
  <2> HIDE DEF p
  <2>3. /\ t.TXBuffer = p.TXBuffer /\ t.txRetries = p.txRetries
        /\ t.macState = "IN_TX" /\ t.scheduleTable = p.scheduleTable
        /\ t.timers = p.timers \cup {"TRANSMISSION_TIMEOUT", "CHECK_TA"}
    BY <2>1, <2>2 DEF extendActivePeriod, Wait, Arm, setMacState, Base, NodeState
  <2> HIDE DEF t
  <2>4. Counted(t) /\ Steady(s, t)
    BY <2>2, <2>3, TmacAssumption DEF Counted, Steady
  <2> QED
    BY <1>1, <2>2, <2>3, <2>4 DEF t
<1>2. CASE s.txAddr # BROADCAST
  <2> DEFINE w == Wait(s, "WAIT_FOR_ACK")
             v == IF par.useRtsCts THEN w ELSE Attempt(w)
  <2>1. t = extendActivePeriod(v)
    BY <1>2 DEF sendDataPacket, Attempt
  <2>2. /\ w.TXBuffer = s.TXBuffer /\ w.txAddr = s.txAddr /\ w.txRetries = s.txRetries
        /\ w.macState = "WAIT_FOR_ACK" /\ w.scheduleTable = s.scheduleTable
        /\ w.timers = s.timers \cup {"TRANSMISSION_TIMEOUT"} /\ w \in NodeState
    BY DEF Wait, Arm, setMacState, Base, NodeState, MacState, Waiting, Timer
  <2> HIDE DEF w
  <2>3. /\ v.TXBuffer = s.TXBuffer /\ v.txAddr = s.txAddr
        /\ v.txRetries = IF par.useRtsCts THEN s.txRetries ELSE s.txRetries - 1
        /\ v.macState = "WAIT_FOR_ACK" /\ v.scheduleTable = s.scheduleTable
        /\ v.timers = s.timers \cup {"TRANSMISSION_TIMEOUT"}
    BY <2>2 DEF Attempt, NodeState
  <2>4. v \in NodeState
    BY <2>2, AttemptField DEF NodeState
  <2> HIDE DEF v
  <2>5. /\ t.TXBuffer = v.TXBuffer /\ t.txAddr = v.txAddr /\ t.txRetries = v.txRetries
        /\ t.macState = v.macState /\ t.scheduleTable = v.scheduleTable
        /\ t.timers = v.timers \cup {"CHECK_TA"}
    BY <2>1, <2>4 DEF extendActivePeriod, Arm, NodeState
  <2> HIDE DEF t
  <2>6. s.txRetries \in Int
    BY DEF Base, NodeState
  <2>7. Counted(t) /\ Steady(s, t)
    BY <2>3, <2>5, <2>6 DEF Counted, Steady
  <2> QED
    BY <1>2, <2>3, <2>5, <2>7 DEF t
<1> QED
  BY <1>1, <1>2
\* The front packet goes on the air; no ACK for an earlier one is under way.
LEMMA DataStep ==
    ASSUME IInv, IInv', LinkInv, NEW n \in Node, NEW s, Base(s),
           s.TXBuffer # <<>>, s.TXBuffer = mac[n].TXBuffer, s.txAddr = mac[n].txAddr,
           Counted(s), par.useRtsCts \/ s.txRetries > 0,
           Becomes(n, sendDataPacket(s)), OnlyNew(n, DataFrame(mac[n])),
           \A m \in Node : m = s.txAddr => air'[m][n].type # "ACK",
           UNCHANGED <<par, sent, pktHistory, delivered, acked>>
    PROVE  LinkInv' /\ \A a \in Node : Kept(a)
<1> DEFINE t == sendDataPacket(s)
           b == mac[n].TXBuffer
           f == DataFrame(mac[n])
<1>1. /\ Counted(t)
      /\ s.txAddr = BROADCAST => t.TXBuffer = Tail(b) /\ t.macState = "IN_TX"
      /\ s.txAddr # BROADCAST => /\ t.TXBuffer = b /\ t.txAddr = s.txAddr
                                 /\ t.macState = "WAIT_FOR_ACK"
  BY DataNode
<1>2. \A a \in Node : mac'[a] = IF a = n THEN t ELSE mac[a]
  BY DEF IInv, MacInv, Becomes
<1> HIDE DEF t
<1>3. b \in Seq(Packet) /\ b # <<>> /\ s.txAddr = Head(b).dst /\ Head(b) = b[1]
      /\ 1 \in DOMAIN b
  BY HeadTailProperties DEF IInv, MacInv, Good, Driven, Base, NodeState
<1>4. f.type = "DATA" /\ f.dst = b[1].dst /\ f.sn = b[1].sn
  BY <1>3 DEF DataFrame, Frame
<1> HIDE DEF f
<1>5. /\ \A i \in DOMAIN b : Given(n, b[i])
      /\ \A i, j \in DOMAIN b : i < j => b[i].sn < b[j].sn
      /\ \A i \in DOMAIN b, m \in Node : pktHistory[m][n] <= b[i].sn
  BY DEF LinkInv, BufferInv
<1>6. PICK k \in Nat : \A i \in DOMAIN t.TXBuffer :
         i \in Nat /\ i + k \in DOMAIN b /\ t.TXBuffer[i] = b[i + k]
  <2>1. EndOf(b, b) /\ EndOf(b, Tail(b)) /\ Tail(b) \in Seq(Packet)
    BY <1>3, EndSame, EndTail, HeadTailProperties
  <2>2. EndOf(b, t.TXBuffer) /\ t.TXBuffer \in Seq(Packet)
    BY <1>1, <1>3, <2>1
  <2>3. \A i \in DOMAIN t.TXBuffer : i \in Nat
    BY <2>2
  <2>4. PICK k \in Nat : \A i \in DOMAIN t.TXBuffer :
           i + k \in DOMAIN b /\ t.TXBuffer[i] = b[i + k]
    BY <2>2 DEF EndOf
  <2> QED
    BY <2>3, <2>4
<1>7. /\ \A m \in Node : air'[n][m] = IF m = n THEN NoFrame ELSE f
      /\ \A a, m \in Node : a # n => air'[a][m] \in {air[a][m], NoFrame}
  BY DEF OnlyNew, f
<1>8. NoFrame.type = "none"
  BY DEF NoFrame
<1>9. ASSUME NEW a \in Node PROVE BufferInv(a)'
  <2>1. CASE a # n
    <3>1. BufferInv(a) /\ mac'[a] = mac[a]
      BY <1>2, <2>1 DEF LinkInv
    <3> QED
      BY <3>1 DEF BufferInv, Given
  <2>2. CASE a = n
    <3>1. \A i \in DOMAIN t.TXBuffer : Given(n, t.TXBuffer[i])
      BY <1>5, <1>6
    <3>2. \A i, j \in DOMAIN t.TXBuffer : i < j => t.TXBuffer[i].sn < t.TXBuffer[j].sn
      <4> TAKE i, j \in DOMAIN t.TXBuffer
      <4>1. i < j => i + k < j + k
        BY <1>6
      <4> QED
        BY <1>5, <1>6, <4>1
    <3>3. \A i \in DOMAIN t.TXBuffer, m \in Node : pktHistory[m][n] <= t.TXBuffer[i].sn
      BY <1>5, <1>6
    <3> QED
      BY <1>2, <2>2, <3>1, <3>2, <3>3 DEF BufferInv, Given
  <2> QED
    BY <2>1, <2>2
<1>10. \A i \in DOMAIN t.TXBuffer : f.sn <= t.TXBuffer[i].sn
  <2> TAKE i \in DOMAIN t.TXBuffer
  <2>1. i + k = 1 \/ 1 < i + k
    BY <1>3, <1>6
  <2>2. b[1].sn \in Nat /\ b[i + k].sn \in Nat
    <3>1. b[1] \in Packet /\ b[i + k] \in Packet
      BY <1>3, <1>6
    <3> QED
      BY <3>1 DEF Packet
  <2> QED
    BY <1>3, <1>4, <1>5, <1>6, <2>1, <2>2
<1>11. Given(n, f) /\ \A m \in Node : pktHistory[m][n] <= f.sn
  BY <1>3, <1>4, <1>5 DEF Given
<1>12. ASSUME NEW a \in Node PROVE FramesInv(a)'
  <2>1. CASE a # n
    <3>1. FramesInv(a)
      BY DEF LinkInv
    <3>2. \A m \in Node : air'[a][m].type = "DATA" => air'[a][m] = air[a][m]
      BY <1>7, <1>8, <2>1
    <3> QED
      BY <1>2, <2>1, <3>1, <3>2 DEF FramesInv, Given
  <2>2. CASE a = n
    <3>1. \A m \in Node : air'[n][m].type = "DATA" => air'[n][m] = f
      BY <1>7, <1>8
    <3> QED
      BY <1>2, <1>10, <1>11, <2>2, <3>1 DEF FramesInv, Given
  <2> QED
    BY <2>1, <2>2
<1>13. ASSUME NEW a \in Node PROVE AckInv(a)'
  <2>1. \A m \in Node : Passed(m)' = Passed(m)
    BY DEF Passed
  <2>2. CASE a # n
    <3>1. AckInv(a) /\ mac'[a] = mac[a]
      BY <1>2, <2>2 DEF LinkInv
    <3>2. /\ \A m \in Node : air'[a][m].type = "DATA" => air'[a][m] = air[a][m]
          /\ \A m \in Node : air'[m][a].type = "ACK" => air'[m][a] = air[m][a]
      BY <1>4, <1>7, <1>8, <2>2
    <3> QED
      BY <2>1, <3>1, <3>2 DEF AckInv
  <2>3. CASE a = n
    <3>1. \A m \in Node : air'[n][m].type = "DATA" => air'[n][m] = f
      BY <1>7, <1>8
    <3>2. t.macState = "WAIT_FOR_ACK" => t.TXBuffer = b /\ t.txAddr = s.txAddr
      BY <1>1
    <3> QED
      BY <1>2, <1>3, <1>4, <2>3, <3>1, <3>2 DEF AckInv
  <2> QED
    BY <2>2, <2>3
<1>14. ASSUME NEW a \in Node PROVE RetriesInv(a)' /\ air'[a][a] = NoFrame
  BY <1>1, <1>2, <1>7 DEF LinkInv, RetriesInv, Counted
<1>15. ASSUME NEW a \in Node, NEW m \in Node PROVE HistoryInv(m, a)'
  <2>1. HistoryInv(m, a) /\ Passed(m)' = Passed(m)
    BY DEF LinkInv, Passed
  <2> QED
    BY <2>1 DEF HistoryInv
<1>16. /\ pktHistory' \in [Node -> [Node -> Nat]]
       /\ delivered' \in [Node -> Seq(Node \X Nat)] /\ acked' \in [Node -> SUBSET Nat]
  BY DEF LinkInv
<1>17. LinkInv'
  BY <1>9, <1>12, <1>13, <1>14, <1>15, <1>16 DEF LinkInv
<1>18. ASSUME NEW a \in Node PROVE Kept(a)
  <2>1. CASE a # n
    BY <1>2, <2>1 DEF Kept
  <2>2. CASE a = n
    BY <1>1, <1>2, <1>3, <2>2 DEF Kept
  <2> QED
    BY <2>1, <2>2
<1> QED
  BY <1>17, <1>18
\* Cancelling a timer leaves a contending node its packet and retries.
LEMMA CancelFront ==
    ASSUME IInv, LinkInv, NEW n \in Node, NEW x \in Timer \ {"FRAME_START"},
           mac[n].macState \in Contending
    PROVE  LET s == Cancel(mac[n], x)
           IN  /\ Base(s) /\ Counted(s) /\ Steady(mac[n], s) /\ s.TXBuffer # <<>>
               /\ s.TXBuffer = mac[n].TXBuffer /\ s.txAddr = mac[n].txAddr
               /\ s.txRetries = mac[n].txRetries /\ s.macState = mac[n].macState
<1> DEFINE s == Cancel(mac[n], x)
<1>1. Base(mac[n]) /\ mac[n] \in NodeState /\ mac[n].TXBuffer # <<>> /\ Counted(mac[n])
  BY DEF IInv, MacInv, LinkInv, RetriesInv, Good, Driven, Base
<1>2. Base(s) /\ Plain(mac[n], s) /\ s.macState = mac[n].macState
  BY <1>1, CancelOK, TimersPlain DEF NodeState
<1> HIDE DEF s
<1>3. /\ s.TXBuffer = mac[n].TXBuffer /\ s.txAddr = mac[n].txAddr
      /\ s.txRetries = mac[n].txRetries
  BY <1>2 DEF Plain, Light
<1>4. Counted(s)
  BY <1>1, <1>2, <1>3 DEF Counted
<1> QED
  BY <1>1, <1>2, <1>3, <1>4 DEF Plain, s

\* carrierIsClear in CS_DATA.
LEMMA SendDATAStep ==
    ASSUME IInv, IInv', LinkInv, NEW n \in Node, SendDATA(n)
    PROVE  /\ LinkInv' /\ \A a \in Node : Kept(a)
           /\ \E t : Becomes(n, t) /\ Steady(mac[n], t)
           /\ NoNew({"SYNC"})
<1> DEFINE s == Cancel(mac[n], "CARRIER_SENSE")
           f == DataFrame(mac[n])
<1>1. mac[n].macState = "CS_DATA" /\ ~Heard(n) /\ UNCHANGED <<par, sent, pktHistory, delivered, acked>>
  BY DEF SendDATA, Clear, Senses
<1>2. /\ Base(s) /\ Counted(s) /\ Steady(mac[n], s) /\ s.TXBuffer # <<>>
      /\ s.TXBuffer = mac[n].TXBuffer /\ s.txAddr = mac[n].txAddr
      /\ s.txRetries = mac[n].txRetries /\ s.macState = mac[n].macState
  BY <1>1, CancelFront DEF Timer, Contending
<1>3. Becomes(n, sendDataPacket(s)) /\ air' = [air EXCEPT ![n] = Cast(n, f)]
  BY DEF SendDATA, After
<1> HIDE DEF s
<1>4. par.useRtsCts \/ s.txRetries > 0
  BY <1>1, <1>2 DEF Counted
<1>5. f \in AnyFrame /\ f.type = "DATA"
  BY <1>2, DataFrameOK DEF IInv, MacInv, DataFrame, Frame
<1> HIDE DEF f
<1>6. OnlyNew(n, f) /\ NoNew({"SYNC"})
  BY <1>3, <1>5, CastAir
<1>7. \A m \in Node : air'[m][n].type # "ACK"
  <2>1. \A m \in Node : air'[m][n] \in {air[m][n], NoFrame} /\ air[m][n] = NoFrame
    BY <1>1, <1>6 DEF OnlyNew, Heard
  <2> QED
    BY <2>1 DEF NoFrame
<1>8. LinkInv' /\ \A a \in Node : Kept(a)
  BY <1>1, <1>2, <1>3, <1>4, <1>6, <1>7, DataStep DEF f
<1>9. Steady(s, sendDataPacket(s))
  BY <1>2, <1>4, DataNode
<1>10. Steady(mac[n], sendDataPacket(s))
  BY <1>2, <1>9 DEF Steady
<1> QED
  BY <1>3, <1>6, <1>8, <1>10

\* The CTS a node waits for.
LEMMA ReceiveCTSStep ==
    ASSUME IInv, IInv', LinkInv, NEW m \in Node, NEW n \in Node, ReceiveCTS(m, n),
           mac[n].macState = "WAIT_FOR_CTS", mac[n].txAddr = m
    PROVE  /\ LinkInv' /\ \A a \in Node : Kept(a)
           /\ \E t : Becomes(n, t) /\ Steady(mac[n], t)
           /\ NoNew({"SYNC"})
<1> DEFINE s == Cancel(mac[n], "TRANSMISSION_TIMEOUT")
           f == DataFrame(mac[n])
<1>1. UNCHANGED <<par, sent, pktHistory, delivered, acked>> /\ air[m][n].type = "CTS"
  BY DEF ReceiveCTS, Arrives
<1>2. /\ Base(s) /\ Counted(s) /\ Steady(mac[n], s) /\ s.TXBuffer # <<>>
      /\ s.TXBuffer = mac[n].TXBuffer /\ s.txAddr = mac[n].txAddr
      /\ s.txRetries = mac[n].txRetries /\ s.macState = mac[n].macState
  BY CancelFront DEF Timer, Contending
<1>3. Becomes(n, sendDataPacket(s)) /\ Replying(m, n, f)
  BY DEF ReceiveCTS
<1> HIDE DEF s
<1>4. par.useRtsCts \/ s.txRetries > 0
  BY <1>2 DEF Counted
<1>5. f \in AnyFrame /\ f.type = "DATA"
  BY <1>2, DataFrameOK DEF IInv, MacInv, DataFrame, Frame
<1> HIDE DEF f
<1>6. m # n
  BY <1>1 DEF LinkInv, NoFrame
<1>7. OnlyNew(n, f) /\ NoNew({"SYNC"}) /\ air'[m][n] = NoFrame
  BY <1>3, <1>5, <1>6, CastAir
<1>8. \A k \in Node : k = s.txAddr => air'[k][n].type # "ACK"
  BY <1>2, <1>7 DEF NoFrame
<1>9. LinkInv' /\ \A a \in Node : Kept(a)
  BY <1>1, <1>2, <1>3, <1>4, <1>7, <1>8, DataStep DEF f
<1>10. Steady(s, sendDataPacket(s))
  BY <1>2, <1>4, DataNode
<1>11. Steady(mac[n], sendDataPacket(s))
  BY <1>2, <1>10 DEF Steady
<1> QED
  BY <1>3, <1>7, <1>9, <1>11
\* The receiver of data keeps its own packets as they are.
LEMMA ReceiveDATALight ==
    ASSUME IInv, NEW m \in Node, NEW n \in Node, ReceiveDATA(m, n)
    PROVE  Light(mac[n], mac'[n]) /\ \A a \in Node : a # n => mac'[a] = mac[a]
<1> DEFINE s == mac[n]
           e == extendActivePeriod(s)
<1>1. s \in NodeState /\ mac \in [Node -> NodeState]
  BY DEF IInv, MacInv
<1>2. mac' = mac \/ Becomes(n, Wait(e, "IN_TX"))
  BY DEF ReceiveDATA
<1>3. Plain(s, e) /\ e \in NodeState /\ Plain(s, s)
  BY <1>1, TimersPlain DEF extendActivePeriod, Arm, NodeState, Timer
<1> HIDE DEF e
<1>4. Plain(e, Wait(e, "IN_TX"))
  BY <1>3, StatesPlain DEF Easy, MacState, Sensing, Waiting
<1>5. Plain(s, Wait(e, "IN_TX"))
  BY <1>3, <1>4, PlainPlain
<1> QED
  BY <1>1, <1>2, <1>3, <1>5 DEF Plain, Becomes

\* What arrives is remembered, passed up if it is new, and acknowledged.
LEMMA ReceiveDATAFacts ==
    ASSUME IInv, LinkInv, NEW m \in Node, NEW n \in Node, ReceiveDATA(m, n)
    PROVE  LET f == air[m][n]
           IN  /\ m # n /\ Given(m, f) /\ f.dst \in {n, BROADCAST} /\ f.sn \in Nat
               /\ pktHistory[n][m] <= f.sn
               /\ pktHistory' = [pktHistory EXCEPT ![n][m] = f.sn]
               /\ \/ pktHistory[n][m] < f.sn
                     /\ delivered' = [delivered EXCEPT ![n] = Append(@, <<m, f.sn>>)]
                  \/ pktHistory[n][m] = f.sn /\ <<m, f.sn>> \in Passed(n)
                     /\ delivered' = delivered
               /\ UNCHANGED <<par, sent, acked>> /\ air'[m][n] = NoFrame
               /\ OnlyNew(n, Frame("ACK", m, 0)) \/
                     \A a, b \in Node : air'[a][b] \in {air[a][b], NoFrame}
<1> DEFINE f == air[m][n]
           h == pktHistory[n][m]
<1>1. /\ f.type = "DATA" /\ f.dst \in {n, BROADCAST}
      /\ UNCHANGED <<par, sent, acked>>
      /\ IF h < f.sn
         THEN /\ pktHistory' = [pktHistory EXCEPT ![n][m] = f.sn]
              /\ delivered' = [delivered EXCEPT ![n] = Append(@, <<m, f.sn>>)]
         ELSE UNCHANGED <<pktHistory, delivered>>
      /\ Silently(m, n) \/ Replying(m, n, Frame("ACK", m, 0))
  BY DEF ReceiveDATA, Arrives, isNotDuplicatePacket
<1>2. m # n
  BY <1>1 DEF LinkInv, NoFrame
<1>3. Given(m, f) /\ h <= f.sn
  BY <1>1 DEF LinkInv, FramesInv
<1>4. f.sn \in Nat /\ h \in Nat /\ f.sn > 0
  <2>1. sent[m] \in Seq(Address)
    BY DEF IInv
  <2>2. f.sn \in 1..Len(sent[m]) /\ Len(sent[m]) \in Nat
    BY <1>3, <2>1 DEF Given
  <2>3. h \in Nat
    BY DEF LinkInv
  <2> QED
    BY <2>2, <2>3
<1> HIDE DEF f, h
<1>5. ASSUME h = f.sn
      PROVE  /\ pktHistory' = [pktHistory EXCEPT ![n][m] = f.sn]
             /\ delivered' = delivered /\ <<m, f.sn>> \in Passed(n)
  <2>1. pktHistory' = pktHistory /\ delivered' = delivered
    BY <1>1, <1>4, <1>5
  <2>2. pktHistory = [pktHistory EXCEPT ![n][m] = f.sn]
    <3>1. pktHistory \in [Node -> [Node -> Nat]]
      BY DEF LinkInv
    <3> QED
      BY <3>1, <1>5 DEF h
  <2>3. <<m, f.sn>> \in Passed(n)
    BY <1>4, <1>5 DEF LinkInv, HistoryInv, h
  <2> QED
    BY <2>1, <2>2, <2>3
<1>6. h < f.sn \/ h = f.sn
  BY <1>3, <1>4
<1>7. /\ air'[m][n] = NoFrame
      /\ OnlyNew(n, Frame("ACK", m, 0)) \/
            \A a, b \in Node : air'[a][b] \in {air[a][b], NoFrame}
  <2>1. CASE Silently(m, n)
    BY <2>1, SilentAir DEF Silently, IInv, AirInv
  <2>2. CASE Replying(m, n, Frame("ACK", m, 0))
    <3>1. Frame("ACK", m, 0) \in AnyFrame
      BY FrameOK DEF Address
    <3> QED
      BY <1>2, <2>2, <3>1, CastAir
  <2> QED
    BY <1>1, <2>1, <2>2
<1> QED
  BY <1>1, <1>2, <1>3, <1>4, <1>5, <1>6, <1>7 DEF f, h

\* The step keeps the invariant.
LEMMA ReceiveDATALink ==
    ASSUME IInv, IInv', LinkInv, NEW m \in Node, NEW n \in Node, ReceiveDATA(m, n)
    PROVE  LinkInv' /\ \A a \in Node : Kept(a)
<1> DEFINE f == air[m][n]
<1>1. /\ m # n /\ Given(m, f) /\ f.dst \in {n, BROADCAST} /\ f.sn \in Nat
      /\ pktHistory[n][m] <= f.sn
      /\ pktHistory' = [pktHistory EXCEPT ![n][m] = f.sn]
      /\ UNCHANGED <<par, sent, acked>> /\ air'[m][n] = NoFrame
  BY ReceiveDATAFacts
<1>2. /\ Light(mac[n], mac'[n])
      /\ \A a \in Node : a # n => mac'[a] = mac[a]
  BY ReceiveDATALight
<1>3. /\ \A a \in Node : mac'[a].TXBuffer = mac[a].TXBuffer /\ mac'[a].txAddr = mac[a].txAddr
                         /\ mac'[a].txRetries = mac[a].txRetries
      /\ \A a \in Node : mac'[a].macState = "WAIT_FOR_ACK" => mac[a].macState = "WAIT_FOR_ACK"
  BY <1>2 DEF Light, Easy
<1>4. /\ delivered' \in [Node -> Seq(Node \X Nat)]
      /\ \A a \in Node : Passed(a)' = IF a = n THEN Passed(n) \cup {<<m, f.sn>>} ELSE Passed(a)
  <2>1. delivered \in [Node -> Seq(Node \X Nat)] /\ <<m, f.sn>> \in Node \X Nat
    BY <1>1 DEF LinkInv
  <2>2. CASE delivered' = delivered /\ <<m, f.sn>> \in Passed(n)
    <3>1. \A a \in Node : Passed(a)' = Passed(a)
      BY <2>2 DEF Passed
    <3> QED
      BY <2>1, <2>2, <3>1
  <2>3. CASE delivered' = [delivered EXCEPT ![n] = Append(@, <<m, f.sn>>)]
    <3> DEFINE p == <<m, f.sn>>
               d == delivered[n]
               c == Append(d, p)
    <3>1. /\ c \in Seq(Node \X Nat) /\ DOMAIN c = DOMAIN d \cup {Len(d) + 1}
          /\ \A i \in DOMAIN d : c[i] = d[i]
          /\ c[Len(d) + 1] = p
      <4> HIDE DEF p
      <4>1. d \in Seq(Node \X Nat) /\ p \in Node \X Nat
        BY <2>1 DEF p
      <4> HIDE DEF d
      <4> QED
        BY <4>1, AppendProperties
    <3>2. \A a \in Node : delivered'[a] = IF a = n THEN c ELSE delivered[a]
      BY <2>1, <2>3
    <3>3. delivered' \in [Node -> Seq(Node \X Nat)]
      <4> HIDE DEF p
      <4> QED
        BY <2>1, <2>3, <3>1 DEF p
    <3> HIDE DEF c, p
    <3>4. {c[i] : i \in DOMAIN c} = {d[i] : i \in DOMAIN d} \cup {p}
      BY <3>1
    <3>5. Passed(n)' = Passed(n) \cup {p}
      BY <3>2, <3>4 DEF Passed
    <3>6. \A a \in Node : a # n => Passed(a)' = Passed(a)
      BY <3>2 DEF Passed
    <3> QED
      BY <3>3, <3>5, <3>6 DEF p
  <2> QED
    BY <2>2, <2>3, ReceiveDATAFacts
<1>5. /\ \A a, b \in Node : air'[a][b].type = "DATA" => air'[a][b] = air[a][b]
      /\ \A a, b \in Node : air'[a][b].type = "ACK" =>
            air'[a][b] = air[a][b] \/ (a = n /\ air'[a][b].dst = m)
      /\ \A a \in Node : air'[a][a] = NoFrame
  <2>1. NoFrame.type = "none" /\ \A a \in Node : air[a][a] = NoFrame
    BY DEF NoFrame, LinkInv
  <2>2. Frame("ACK", m, 0).type = "ACK" /\ Frame("ACK", m, 0).dst = m
    BY DEF Frame
  <2>3. CASE OnlyNew(n, Frame("ACK", m, 0))
    BY <2>1, <2>2, <2>3 DEF OnlyNew
  <2>4. CASE \A a, b \in Node : air'[a][b] \in {air[a][b], NoFrame}
    BY <2>1, <2>4
  <2> QED
    BY <2>3, <2>4, ReceiveDATAFacts
<1>6. /\ pktHistory' \in [Node -> [Node -> Nat]]
      /\ \A a, b \in Node : pktHistory'[a][b] =
            IF a = n /\ b = m THEN f.sn ELSE pktHistory[a][b]
  <2>1. pktHistory \in [Node -> [Node -> Nat]]
    BY DEF LinkInv
  <2> HIDE DEF f
  <2> QED
    BY <2>1, <1>1
<1>7. f.type = "DATA"
  BY DEF ReceiveDATA, Arrives
<1>8. \A i \in DOMAIN mac[m].TXBuffer : f.sn <= mac[m].TXBuffer[i].sn
  BY <1>7 DEF LinkInv, FramesInv
<1> HIDE DEF f
<1>9. ASSUME NEW a \in Node PROVE BufferInv(a)'
  <2>1. BufferInv(a)
    BY DEF LinkInv
  <2> QED
    BY <1>1, <1>3, <1>6, <1>8, <2>1 DEF BufferInv, Given
<1>10. ASSUME NEW a \in Node PROVE FramesInv(a)'
  <2>1. FramesInv(a)
    BY DEF LinkInv
  <2>2. air'[m][n].type # "DATA"
    BY <1>1 DEF NoFrame
  <2> QED
    BY <1>1, <1>3, <1>5, <1>6, <2>1, <2>2 DEF FramesInv, Given
<1>11. ASSUME NEW a \in Node PROVE AckInv(a)'
  <2>1. AckInv(a)
    BY DEF LinkInv
  <2> SUFFICES ASSUME mac'[a].macState = "WAIT_FOR_ACK"
               PROVE  /\ \A k \in Node : air'[a][k].type = "DATA" =>
                            air'[a][k].sn = Head(mac[a].TXBuffer).sn
                      /\ \A k \in Node :
                            mac[a].txAddr = k /\ air'[k][a].type = "ACK"
                              /\ air'[k][a].dst \in {a, BROADCAST}
                            => <<a, Head(mac[a].TXBuffer).sn>> \in Passed(k)'
    BY <1>3 DEF AckInv
  <2>2. mac[a].macState = "WAIT_FOR_ACK"
    BY <1>3
  <2>3. \A k \in Node : air'[a][k].type = "DATA" => air'[a][k].sn = Head(mac[a].TXBuffer).sn
    BY <1>5, <2>1, <2>2 DEF AckInv
  <2>4. ASSUME NEW k \in Node, mac[a].txAddr = k, air'[k][a].type = "ACK",
               air'[k][a].dst \in {a, BROADCAST}
        PROVE  <<a, Head(mac[a].TXBuffer).sn>> \in Passed(k)'
    <3>1. CASE air'[k][a] = air[k][a]
      <4>1. <<a, Head(mac[a].TXBuffer).sn>> \in Passed(k)
        BY <2>1, <2>2, <2>4, <3>1 DEF AckInv
      <4> QED
        BY <4>1, <1>4
    <3>2. CASE k = n /\ air'[k][a].dst = m
      <4>1. a = m
        BY <2>4, <3>2, TmacAssumption DEF BROADCAST
      <4>2. f.sn = Head(mac[a].TXBuffer).sn
        BY <1>7, <2>1, <2>2, <4>1 DEF AckInv, f
      <4> QED
        BY <1>4, <3>2, <4>1, <4>2
    <3> QED
      BY <1>5, <2>4, <3>1, <3>2
  <2> QED
    BY <2>3, <2>4
<1>12. ASSUME NEW a \in Node PROVE RetriesInv(a)'
  <2>1. Counted(mac[a])
    BY DEF LinkInv, RetriesInv
  <2> QED
    BY <1>1, <1>2, <2>1 DEF RetriesInv, Counted, Light, Easy
<1>13. ASSUME NEW a \in Node, NEW k \in Node PROVE HistoryInv(k, a)'
  <2>1. HistoryInv(k, a)
    BY DEF LinkInv
  <2>2. f.sn <= Len(sent[m])
    <3>1. sent[m] \in Seq(Address)
      BY DEF IInv
    <3> QED
      BY <1>1, <3>1 DEF Given
  <2>3. CASE k = n /\ a = m
    <3>1. \A j \in Nat : <<m, j>> \in Passed(n)' => j <= f.sn
      <4>1. pktHistory[n][m] \in Nat
        BY DEF LinkInv
      <4> QED
        BY <4>1, <1>1, <1>4, <2>1, <2>3 DEF HistoryInv
    <3> QED
      BY <1>1, <1>4, <1>6, <2>2, <2>3, <3>1 DEF HistoryInv
  <2>4. CASE ~(k = n /\ a = m)
    <3>1. \A j \in Nat : <<a, j>> \in Passed(k)' <=> <<a, j>> \in Passed(k)
      BY <1>4, <2>4
    <3>2. pktHistory'[k][a] = pktHistory[k][a] /\ pktHistory[k][a] \in Nat
      BY <1>6, <2>4 DEF LinkInv
    <3> QED
      BY <1>1, <2>1, <3>1, <3>2 DEF HistoryInv
  <2> QED
    BY <2>3, <2>4
<1>14. acked' \in [Node -> SUBSET Nat]
  BY <1>1 DEF LinkInv
<1>15. \A a \in Node : Kept(a)
  BY <1>3 DEF Kept
<1> QED
  BY <1>4, <1>5, <1>6, <1>9, <1>10, <1>11, <1>12, <1>13, <1>14, <1>15 DEF LinkInv
\* The ACK a node waits for takes the front packet, and it only, from the buffer.
LEMMA PopReset ==
    ASSUME NEW s, Base(s), s.TXBuffer # <<>>
    PROVE  LET t == resetDefaultState(popTxBuffer(s))
           IN  /\ t.TXBuffer = Tail(s.TXBuffer) /\ EndOf(s.TXBuffer, t.TXBuffer)
               /\ t.macState # "WAIT_FOR_ACK" /\ Steady(s, t)
               /\ s.macState = "WAIT_FOR_ACK" => Counted(t)
<1> DEFINE p == popTxBuffer(s)
           t == resetDefaultState(p)
<1>1. /\ p.TXBuffer = Tail(s.TXBuffer) /\ EndOf(s.TXBuffer, p.TXBuffer)
      /\ p.TXBuffer # <<>> => p.txRetries = maxTxRetries
      /\ p.scheduleTable = s.scheduleTable /\ p.timers = s.timers
      /\ p.macState = s.macState /\ p.syncPacket = s.syncPacket
  BY PopEnd
<1>2. Base(p)
  BY PopOK
<1> HIDE DEF p
<1>3. Quiet(p, t) /\ t.macState # "WAIT_FOR_ACK"
  BY <1>2, ResetQuiet
<1> HIDE DEF t
<1>4. t.TXBuffer = p.TXBuffer
  BY <1>1, <1>3, TmacAssumption DEF Quiet, Calm
<1>5. Steady(s, t)
  BY <1>1, <1>3 DEF Quiet, Steady
<1>6. s.macState = "WAIT_FOR_ACK" => Counted(p)
  BY <1>1, TmacAssumption DEF Counted
<1>7. Counted(p) => Counted(t)
  BY <1>3 DEF Quiet, Calm, Shrunk
<1> QED
  BY <1>1, <1>3, <1>4, <1>5, <1>6, <1>7 DEF t, p

\* An acknowledged packet is one its addressee has passed up.
LEMMA ReceiveACKStep ==
    ASSUME IInv, IInv', LinkInv, NEW m \in Node, NEW n \in Node, ReceiveACK(m, n)
    PROVE  /\ LinkInv' /\ \A a \in Node : Kept(a)
           /\ \E t : Becomes(n, t) /\ Steady(mac[n], t)
           /\ NoNew({"SYNC"}) /\ UNCHANGED <<sent, delivered>>
           /\ \/ acked' = acked
              \/ \E k \in DOMAIN sent[n] :
                    /\ sent[n][k] = m /\ <<n, k>> \in Passed(m)
                    /\ acked' = [acked EXCEPT ![n] = @ \cup {k}]
<1> DEFINE s == Cancel(mac[n], "TRANSMISSION_TIMEOUT")
           b == mac[n].TXBuffer
           t == resetDefaultState(popTxBuffer(s))
<1>1. /\ UNCHANGED <<par, sent, pktHistory, delivered>> /\ Silently(m, n)
      /\ air[m][n].type = "ACK" /\ air[m][n].dst \in {n, BROADCAST}
  BY DEF ReceiveACK, Arrives
<1>2. NoNew({"SYNC"}) /\ NoNew({"DATA", "ACK"})
  BY <1>1, SilentAir
<1>3. CASE mac[n].macState = "WAIT_FOR_ACK" /\ mac[n].txAddr = m
  <2>1. Becomes(n, t) /\ acked' = [acked EXCEPT ![n] = @ \cup {Head(b).sn}]
    BY <1>3 DEF ReceiveACK
  <2>2. /\ Base(s) /\ Counted(s) /\ Steady(mac[n], s) /\ s.TXBuffer # <<>>
        /\ s.TXBuffer = b /\ s.txAddr = mac[n].txAddr
        /\ s.macState = mac[n].macState
    BY <1>3, CancelFront DEF Timer, Contending
  <2> HIDE DEF s
  <2>3. /\ t.TXBuffer = Tail(b) /\ EndOf(b, t.TXBuffer)
        /\ t.macState # "WAIT_FOR_ACK" /\ Steady(s, t) /\ Counted(t)
    BY <1>3, <2>2, PopReset
  <2> HIDE DEF t
  <2>4. Shrunk(mac[n], t) /\ Steady(mac[n], t)
    BY <2>2, <2>3 DEF Shrunk, Steady
  <2>5. /\ b \in Seq(Packet) /\ b # <<>> /\ Head(b) = b[1] /\ 1 \in DOMAIN b
        /\ Head(b).dst = m /\ sent[n] \in Seq(Address)
    <3>1. Base(mac[n]) /\ b \in Seq(Packet) /\ sent[n] \in Seq(Address)
      BY DEF IInv, MacInv, Good, Driven, Base, NodeState
    <3>2. Head(b).dst = m
      BY <1>3, <2>2, <3>1 DEF Base
    <3> QED
      BY <2>2, <3>1, <3>2, HeadTailProperties
  <2>6. Head(b).sn \in DOMAIN sent[n] /\ sent[n][Head(b).sn] = m
    BY <2>5 DEF LinkInv, BufferInv, Given
  <2>7. <<n, Head(b).sn>> \in Passed(m)
    BY <1>1, <1>3 DEF LinkInv, AckInv
  <2>8. acked' \in [Node -> SUBSET Nat]
    <3>1. Head(b).sn \in Nat
      BY <2>5, <2>6
    <3> QED
      BY <2>1, <3>1 DEF LinkInv
  <2>9. LinkInv'
    BY <1>1, <1>2, <2>1, <2>4, <2>8, ShrinkLink
  <2>10. \A a \in Node : mac'[a] = IF a = n THEN t ELSE mac[a]
    BY <2>1 DEF IInv, MacInv, Becomes
  <2>11. Head(b).sn \in acked'[n]
    BY <2>1 DEF LinkInv
  <2>12. ASSUME NEW a \in Node PROVE Kept(a)
    <3>1. CASE a = n
      BY <2>11, <3>1 DEF Kept
    <3>2. CASE a # n
      BY <2>10, <3>2 DEF Kept
    <3> QED
      BY <3>1, <3>2
  <2> HIDE DEF b
  <2> QED
    BY <1>1, <1>2, <2>1, <2>4, <2>6, <2>7, <2>9, <2>12
<1>4. CASE ~(mac[n].macState = "WAIT_FOR_ACK" /\ mac[n].txAddr = m)
  <2>1. mac' = mac /\ acked' = acked
    BY <1>4 DEF ReceiveACK
  <2>2. Becomes(n, mac[n]) /\ Quiet(mac[n], mac[n])
    <3>1. mac = [mac EXCEPT ![n] = mac[n]] /\ mac[n] \in NodeState
      BY DEF IInv, MacInv
    <3> QED
      BY <2>1, <3>1, TimersPlain, PlainIsQuiet DEF Becomes, Timer
  <2>3. QuietStep(n)
    BY <2>2 DEF QuietStep
  <2>4. LinkInv'
    BY <1>1, <1>2, <2>1, <2>3, QuietLink
  <2> QED
    BY <1>1, <1>2, <2>1, <2>2, <2>4, SameKept DEF Quiet
<1> QED
  BY <1>3, <1>4
\* A packet from the network layer is behind all others, in the buffer and in
\* the numbers any receiver has seen.
LEMMA NetworkStep ==
    ASSUME IInv, IInv', LinkInv, NEW n \in Node, NEW d \in Address, FromNetworkLayer(n, d)
    PROVE  /\ LinkInv' /\ \A a \in Node : Kept(a)
           /\ \E t : Becomes(n, t) /\ Steady(mac[n], t)
           /\ sent' = [sent EXCEPT ![n] = Append(@, d)]
           /\ UNCHANGED <<air, delivered, acked>>
<1>b. PICK b : b = mac[n].TXBuffer
  OBVIOUS
<1>l. PICK l : l = Len(sent[n])
  OBVIOUS
<1> DEFINE p == [dst |-> d, sn |-> l + 1]
           q == Append(b, p)
           s == [mac[n] EXCEPT !.TXBuffer = q]
           t == mac'[n]
<1>1. /\ sent' = [sent EXCEPT ![n] = Append(@, d)]
      /\ UNCHANGED <<par, pktHistory, air, delivered, acked>>
  BY DEF FromNetworkLayer
<1>2. /\ mac[n] \in NodeState /\ b \in Seq(Packet) /\ Good(mac[n]) /\ Counted(mac[n])
      /\ mac \in [Node -> NodeState]
  BY <1>b DEF IInv, MacInv, NodeState, LinkInv, RetriesInv
<1>3. /\ sent[n] \in Seq(Address) /\ sent \in [Node -> Seq(Address)] /\ l \in Nat
      /\ DOMAIN sent[n] = 1..l /\ l = Len(sent[n])
  BY <1>l DEF IInv
<1>4. /\ sent'[n] = Append(sent[n], d) /\ \A a \in Node : a # n => sent'[a] = sent[a]
      /\ DOMAIN sent'[n] = 1..(l + 1) /\ sent'[n][l + 1] = d
      /\ \A i \in 1..l : sent'[n][i] = sent[n][i]
  <2>1. sent'[n] = Append(sent[n], d) /\ \A a \in Node : a # n => sent'[a] = sent[a]
    BY <1>1, <1>3
  <2> QED
    BY <2>1, <1>3, AppendProperties
<1>5. ASSUME NEW a \in Node, NEW x, Given(a, x) PROVE Given(a, x)'
  BY <1>3, <1>4, <1>5 DEF Given
<1>6. p \in Packet /\ p.sn = l + 1 /\ p.dst = d
  BY <1>3 DEF Packet
<1> HIDE DEF p
<1>7. /\ q \in Seq(Packet) /\ q # <<>> /\ Len(b) \in Nat /\ DOMAIN b = 1..Len(b)
      /\ DOMAIN q = 1..(Len(b) + 1) /\ \A i \in DOMAIN b : q[i] = b[i]
      /\ q[Len(b) + 1] = p /\ (b # <<>> => Head(q) = Head(b))
  BY <1>2, <1>6, AppendProperties, HeadTailProperties
<1>8. /\ Becomes(n, t) /\ \A a \in Node : a # n => mac'[a] = mac[a]
      /\ t \in {mac[n], IF b = <<>> THEN checkTxBuffer(s) ELSE s}
  <2>1. \E u \in {mac[n], IF b = <<>> THEN checkTxBuffer(s) ELSE s} : Becomes(n, u)
    BY <1>b, <1>l DEF FromNetworkLayer, p
  <2> HIDE DEF s
  <2> QED
    BY <2>1, <1>2 DEF Becomes
<1> HIDE DEF q
<1>9. /\ s.TXBuffer = q /\ s.txAddr = mac[n].txAddr /\ s.txRetries = mac[n].txRetries
      /\ s.macState = mac[n].macState /\ s.scheduleTable = mac[n].scheduleTable
      /\ s.timers = mac[n].timers /\ s.syncPacket = mac[n].syncPacket /\ s \in NodeState
  BY <1>2, <1>7, <1>b DEF NodeState
<1> HIDE DEF s
<1>10. LET u == checkTxBuffer(s)
       IN  /\ u.TXBuffer = q /\ u.txRetries = maxTxRetries
           /\ u.macState = mac[n].macState /\ u.scheduleTable = mac[n].scheduleTable
           /\ u.timers = mac[n].timers /\ u.syncPacket = mac[n].syncPacket
  BY <1>7, <1>9 DEF checkTxBuffer, NodeState
<1>11. /\ t.macState = mac[n].macState /\ t.scheduleTable = mac[n].scheduleTable
       /\ t.timers = mac[n].timers /\ t.syncPacket = mac[n].syncPacket
       /\ t.TXBuffer \in {b, q}
       /\ b # <<>> => t.txAddr = mac[n].txAddr /\ t.txRetries = mac[n].txRetries
       /\ b = <<>> /\ t.TXBuffer # <<>> => t.txRetries = maxTxRetries
  BY <1>b, <1>8, <1>9, <1>10
<1> HIDE DEF t
<1>12. Steady(mac[n], t)
  BY <1>11 DEF Steady
<1>13. mac[n].macState \in Contending => b # <<>>
  BY <1>b, <1>2 DEF Good, Driven
<1>14. Counted(t)
  <2>1. CASE b # <<>>
    BY <1>b, <1>2, <1>11, <2>1 DEF Counted
  <2>2. CASE b = <<>>
    <3>1. mac[n].macState \notin Contending
      BY <1>13, <2>2
    <3> QED
      BY <1>11, <2>2, <3>1, TmacAssumption DEF Counted, Contending
  <2> QED
    BY <2>1, <2>2
<1>15. ASSUME NEW a \in Node PROVE BufferInv(a)'
  <2>1. BufferInv(a)
    BY DEF LinkInv
  <2>2. CASE a # n
    <3>1. mac'[a] = mac[a]
      BY <1>8, <2>2
    <3> QED
      BY <1>1, <1>5, <2>1, <3>1 DEF BufferInv
  <2>3. CASE a = n
    <3>1. ASSUME NEW i \in DOMAIN b
          PROVE  /\ Given(n, b[i])' /\ b[i].sn < p.sn /\ b[i].sn \in Nat
                 /\ \A m \in Node : pktHistory'[m][n] <= b[i].sn
      <4>1. Given(n, b[i]) /\ \A m \in Node : pktHistory[m][n] <= b[i].sn
        BY <1>b, <2>1, <2>3 DEF BufferInv
      <4>2. Given(n, b[i])'
        BY <1>5, <4>1
      <4>3. b[i].sn < p.sn /\ b[i].sn \in Nat
        BY <1>3, <1>6, <4>1 DEF Given
      <4> QED
        BY <1>1, <4>1, <4>2, <4>3
    <3>2. /\ Given(n, p)' /\ \A m \in Node : pktHistory'[m][n] <= p.sn
      <4>1. \A m \in Node : pktHistory[m][n] <= l /\ pktHistory[m][n] \in Nat
        BY <1>l DEF LinkInv, HistoryInv
      <4> QED
        BY <1>1, <1>3, <1>4, <1>6, <4>1 DEF Given
    <3>3. \A i, j \in DOMAIN b : i < j => b[i].sn < b[j].sn
      BY <1>b, <2>1, <2>3 DEF BufferInv
    <3>4. CASE t.TXBuffer = b
      BY <2>3, <3>1, <3>3, <3>4 DEF BufferInv, t
    <3>5. CASE t.TXBuffer = q
      <4>1. \A i \in DOMAIN q : i \in DOMAIN b \/ (i = Len(b) + 1 /\ q[i] = p)
        BY <1>7
      <4>2. \A i \in DOMAIN q : /\ Given(n, q[i])'
                                /\ \A m \in Node : pktHistory'[m][n] <= q[i].sn
        BY <1>7, <3>1, <3>2, <4>1
      <4>3. \A i, j \in DOMAIN q : i < j => q[i].sn < q[j].sn
        <5> SUFFICES ASSUME NEW i \in DOMAIN q, NEW j \in DOMAIN q, i < j
                     PROVE  q[i].sn < q[j].sn
          OBVIOUS
        <5>1. i \in DOMAIN b
          BY <1>7
        <5> QED
          BY <1>7, <3>1, <3>3, <4>1, <5>1
      <4> QED
        BY <2>3, <3>5, <4>2, <4>3 DEF BufferInv, t
    <3> QED
      BY <1>11, <3>4, <3>5
  <2> QED
    BY <2>2, <2>3
<1>16. ASSUME NEW a \in Node PROVE FramesInv(a)'
  <2>1. FramesInv(a)
    BY DEF LinkInv
  <2>2. CASE a # n
    <3>1. mac'[a] = mac[a]
      BY <1>8, <2>2
    <3> QED
      BY <1>1, <1>5, <2>1, <3>1 DEF FramesInv
  <2>3. CASE a = n
    <3> SUFFICES ASSUME NEW m \in Node, air[n][m].type = "DATA"
                 PROVE  /\ Given(n, air[n][m])' /\ pktHistory[m][n] <= air[n][m].sn
                        /\ \A i \in DOMAIN t.TXBuffer : air[n][m].sn <= t.TXBuffer[i].sn
      BY <1>1, <2>3 DEF FramesInv, t
    <3>1. /\ Given(n, air[n][m]) /\ pktHistory[m][n] <= air[n][m].sn
          /\ \A i \in DOMAIN b : air[n][m].sn <= b[i].sn
      BY <1>b, <2>1, <2>3 DEF FramesInv
    <3>2. air[n][m].sn <= p.sn
      BY <1>3, <1>6, <3>1 DEF Given
    <3>3. \A i \in DOMAIN t.TXBuffer : \/ i \in DOMAIN b /\ t.TXBuffer[i] = b[i]
                                       \/ t.TXBuffer[i] = p
      <4>1. \A i \in DOMAIN q : i \in DOMAIN b \/ (i = Len(b) + 1 /\ q[i] = p)
        BY <1>7
      <4> QED
        BY <1>7, <1>11, <4>1
    <3>4. PICK f : f = air[n][m]
      OBVIOUS
    <3>5. Given(n, f)'
      BY <1>5, <3>1, <3>4
    <3>6. Given(n, air[n][m])'
      BY <1>1, <3>4, <3>5 DEF Given
    <3> QED
      BY <3>1, <3>2, <3>3, <3>6
  <2> QED
    BY <2>2, <2>3
<1>17. ASSUME NEW a \in Node PROVE AckInv(a)'
  <2>1. AckInv(a) /\ \A m \in Node : Passed(m)' = Passed(m)
    BY <1>1 DEF LinkInv, Passed
  <2>2. CASE a # n
    <3>1. mac'[a] = mac[a]
      BY <1>8, <2>2
    <3> QED
      BY <1>1, <2>1, <3>1 DEF AckInv
  <2>3. CASE a = n
    <3>1. t.macState = "WAIT_FOR_ACK" =>
             /\ mac[n].macState = "WAIT_FOR_ACK" /\ t.txAddr = mac[n].txAddr
             /\ Head(t.TXBuffer) = Head(b)
      BY <1>7, <1>11, <1>13 DEF Contending
    <3> QED
      BY <1>b, <1>1, <2>1, <2>3, <3>1 DEF AckInv, t
  <2> QED
    BY <2>2, <2>3
<1>18. ASSUME NEW a \in Node PROVE RetriesInv(a)' /\ air'[a][a] = NoFrame
  <2>1. Counted(mac[a]) /\ air[a][a] = NoFrame
    BY DEF LinkInv, RetriesInv
  <2>2. CASE a # n
    <3>1. mac'[a] = mac[a]
      BY <1>8, <2>2
    <3> QED
      BY <1>1, <2>1, <3>1 DEF RetriesInv, Counted
  <2>3. CASE a = n
    BY <1>1, <1>14, <2>1, <2>3 DEF RetriesInv, Counted, t
  <2> QED
    BY <2>2, <2>3
<1>19. ASSUME NEW a \in Node, NEW m \in Node PROVE HistoryInv(m, a)'
  <2>1. HistoryInv(m, a) /\ Passed(m)' = Passed(m) /\ pktHistory[m][a] \in Nat
    BY <1>1 DEF LinkInv, Passed
  <2>2. Len(sent[a]) <= Len(sent'[a]) /\ Len(sent[a]) \in Nat /\ Len(sent'[a]) \in Nat
    <3>1. sent[a] \in Seq(Address) /\ sent'[a] \in Seq(Address)
      BY DEF IInv
    <3>2. CASE a = n
      BY <1>3, <1>4, <3>1, <3>2
    <3>3. CASE a # n
      BY <1>4, <3>1, <3>3
    <3> QED
      BY <3>2, <3>3
  <2>3. pktHistory[m][a] <= Len(sent'[a])
    BY <2>1, <2>2 DEF HistoryInv
  <2> QED
    BY <1>1, <2>1, <2>3 DEF HistoryInv
<1>20. LinkInv'
  <2>1. /\ pktHistory' \in [Node -> [Node -> Nat]]
        /\ delivered' \in [Node -> Seq(Node \X Nat)] /\ acked' \in [Node -> SUBSET Nat]
    BY <1>1 DEF LinkInv
  <2> QED
    BY <1>15, <1>16, <1>17, <1>18, <1>19, <2>1 DEF LinkInv
<1>21. ASSUME NEW a \in Node PROVE Kept(a)
  <2>1. CASE a # n
    BY <1>8, <2>1 DEF Kept
  <2>2. CASE a = n
    BY <1>b, <1>7, <1>11, <2>2 DEF Kept, t
  <2> QED
    BY <2>1, <2>2
<1> QED
  BY <1>1, <1>8, <1>12, <1>20, <1>21

-----------------------------------------------------------------------------
(* Schedules. *)

\* Tables only grow, and their entries only get newer.
TablesGrow ==
    \A a \in Node : \A j \in DOMAIN mac[a].scheduleTable :
        /\ j \in DOMAIN mac'[a].scheduleTable
        /\ mac'[a].scheduleTable[j].ID = mac[a].scheduleTable[j].ID
        /\ mac'[a].scheduleTable[j].SN >= mac[a].scheduleTable[j].SN

\* News that is followed after the step.
WillFollow(id, sn) ==
    \E j \in DOMAIN mac'[id].scheduleTable :
        mac'[id].scheduleTable[j].ID = id /\ sn <= mac'[id].scheduleTable[j].SN

\* What the invariant says of one node's table and packet.
LEMMA EntriesFollowed ==
    ASSUME IInv, SchedulesInv, NEW n \in Node
    PROVE  /\ \A i \in DOMAIN mac[n].scheduleTable :
                /\ mac[n].scheduleTable[i].ID \in Node /\ mac[n].scheduleTable[i].SN \in Nat
                /\ Followed(mac[n].scheduleTable[i].ID, mac[n].scheduleTable[i].SN)
           /\ mac[n].syncPacket.ID \in Node /\ mac[n].syncPacket.SN \in Nat
<1>1. mac[n].scheduleTable \in Seq(Entry) /\ mac[n].syncPacket \in Entry
  BY DEF IInv, MacInv, NodeState
<1>2. \A i \in DOMAIN mac[n].scheduleTable : mac[n].scheduleTable[i] \in Entry
  BY <1>1
<1> QED
  BY <1>1, <1>2 DEF Entry, SchedulesInv, ScheduleInv

\* If tables grow, news stays at most as new as its author's entry.
LEMMA FollowedGrows ==
    ASSUME IInv, IInv', TablesGrow, NEW id \in Node, NEW sn \in Nat, Followed(id, sn)
    PROVE  WillFollow(id, sn)
<1>1. PICK j \in DOMAIN mac[id].scheduleTable :
         mac[id].scheduleTable[j].ID = id /\ sn <= mac[id].scheduleTable[j].SN
  BY DEF Followed
<1>2. /\ j \in DOMAIN mac'[id].scheduleTable
      /\ mac'[id].scheduleTable[j].ID = id
      /\ mac'[id].scheduleTable[j].SN >= mac[id].scheduleTable[j].SN
  BY <1>1 DEF TablesGrow
<1>3. mac[id].scheduleTable[j].SN \in Nat /\ mac'[id].scheduleTable[j].SN \in Nat
  <2>1. mac[id].scheduleTable \in Seq(Entry) /\ mac'[id].scheduleTable \in Seq(Entry)
    BY DEF IInv, MacInv, NodeState
  <2>2. mac[id].scheduleTable[j] \in Entry /\ mac'[id].scheduleTable[j] \in Entry
    BY <1>1, <1>2, <2>1
  <2> QED
    BY <2>2 DEF Entry
<1> QED
  BY <1>1, <1>2, <1>3 DEF WillFollow

\* No frame brings news that is not followed.
FramesFollowed ==
    \A a, b \in Node : \/ air'[a][b] = air[a][b]
                       \/ air'[a][b].type # "SYNC"
                       \/ /\ air'[a][b].id \in Node /\ air'[a][b].sn \in Nat
                          /\ Followed(air'[a][b].id, air'[a][b].sn)

\* If no new frame brings unfollowed news, no SYNC on its way does.
LEMMA SyncFrames ==
    ASSUME IInv, IInv', SchedulesInv, TablesGrow, FramesFollowed,
           NEW a \in Node, NEW b \in Node, air'[a][b].type = "SYNC"
    PROVE  WillFollow(air'[a][b].id, air'[a][b].sn)
<1>1. CASE air'[a][b] = air[a][b]
  <2>1. air[a][b] \in AnyFrame /\ air[a][b].id \in Node
    BY <1>1 DEF IInv, AirInv
  <2>2. air[a][b].sn \in Nat
    BY <2>1 DEF AnyFrame
  <2>3. Followed(air[a][b].id, air[a][b].sn)
    BY <1>1 DEF SchedulesInv
  <2> QED
    BY <1>1, <2>1, <2>2, <2>3, FollowedGrows
<1>2. CASE air'[a][b] # air[a][b]
  BY <1>2, FollowedGrows DEF FramesFollowed
<1> QED
  BY <1>1, <1>2

\* The parts of the invariant after a step in which tables grow: one condition
\* for the frames, and one for the node whose step it is.
LEMMA GrowSchedules ==
    ASSUME IInv, IInv', SchedulesInv, TablesGrow, FramesFollowed,
           NEW n \in Node, NEW t, Becomes(n, t),
           t.macState = "SETUP" => t.scheduleTable = <<>>,
           "SYNC_RENEW" \in t.timers => t.scheduleTable[1].ID = n,
           \A i, j \in DOMAIN t.scheduleTable :
              t.scheduleTable[i].ID = t.scheduleTable[j].ID => i = j,
           \A i \in DOMAIN t.scheduleTable :
              WillFollow(t.scheduleTable[i].ID, t.scheduleTable[i].SN),
           t.macState = "CS_SYNC" => WillFollow(t.syncPacket.ID, t.syncPacket.SN)
    PROVE  SchedulesInv'
<1>1. \A a \in Node : mac'[a] = IF a = n THEN t ELSE mac[a]
  BY DEF IInv, MacInv, Becomes
<1>2. ASSUME NEW a \in Node, a # n PROVE ScheduleInv(a)'
  <2>1. mac'[a] = mac[a] /\ ScheduleInv(a)
    BY <1>1, <1>2 DEF SchedulesInv
  <2>2. \A i \in DOMAIN mac[a].scheduleTable :
           WillFollow(mac[a].scheduleTable[i].ID, mac[a].scheduleTable[i].SN)
    BY EntriesFollowed, FollowedGrows
  <2>3. mac[a].macState = "CS_SYNC" => WillFollow(mac[a].syncPacket.ID, mac[a].syncPacket.SN)
    BY <2>1, EntriesFollowed, FollowedGrows DEF ScheduleInv
  <2>4. /\ mac[a].macState = "SETUP" => mac[a].scheduleTable = <<>>
        /\ "SYNC_RENEW" \in mac[a].timers => mac[a].scheduleTable[1].ID = a
        /\ \A i, j \in DOMAIN mac[a].scheduleTable :
              mac[a].scheduleTable[i].ID = mac[a].scheduleTable[j].ID => i = j
    BY <2>1, Zenon DEF ScheduleInv
  <2>5. mac'[a] = mac[a]
    BY <2>1
  <2>6. \A id, sn : WillFollow(id, sn) => Followed(id, sn)'
    BY DEF WillFollow, Followed
  <2>7. \A i \in DOMAIN mac'[a].scheduleTable :
           WillFollow(mac'[a].scheduleTable[i].ID, mac'[a].scheduleTable[i].SN)
    BY <2>2, <2>5, Zenon
  <2>8. mac'[a].macState = "CS_SYNC"
           => WillFollow(mac'[a].syncPacket.ID, mac'[a].syncPacket.SN)
    BY <2>3, <2>5, Zenon
  <2>9. (/\ mac[a].macState = "SETUP" => mac[a].scheduleTable = <<>>
         /\ "SYNC_RENEW" \in mac[a].timers => mac[a].scheduleTable[1].ID = a
         /\ \A i, j \in DOMAIN mac[a].scheduleTable :
               mac[a].scheduleTable[i].ID = mac[a].scheduleTable[j].ID => i = j)'
    BY <2>4, <2>5
  <2> QED
    BY <2>6, <2>7, <2>8, <2>9, Zenon DEF ScheduleInv
<1>3. ScheduleInv(n)'
  BY <1>1 DEF ScheduleInv, Followed, WillFollow
<1>4. \A a, b \in Node : (air[a][b].type = "SYNC" => Followed(air[a][b].id, air[a][b].sn))'
  BY SyncFrames DEF Followed, WillFollow
<1> QED
  BY <1>2, <1>3, <1>4 DEF SchedulesInv

\* A step that touches no schedule.
LEMMA SteadySchedules ==
    ASSUME IInv, IInv', SchedulesInv, FramesFollowed,
           NEW n \in Node, NEW t, Becomes(n, t), Steady(mac[n], t)
    PROVE  SchedulesInv'
<1> DEFINE s == mac[n]
<1>1. \A a \in Node : mac'[a].scheduleTable = mac[a].scheduleTable
  BY DEF IInv, MacInv, Becomes, Steady
<1>2. TablesGrow
  <2>1. \A a \in Node : \A j \in DOMAIN mac[a].scheduleTable : mac[a].scheduleTable[j].SN \in Nat
    BY EntriesFollowed
  <2> QED
    BY <1>1, <2>1 DEF TablesGrow
<1>3. ScheduleInv(n)
  BY DEF SchedulesInv
<1>4. \A i \in DOMAIN s.scheduleTable : WillFollow(s.scheduleTable[i].ID, s.scheduleTable[i].SN)
  BY <1>2, EntriesFollowed, FollowedGrows
<1>5. s.macState = "CS_SYNC" => WillFollow(s.syncPacket.ID, s.syncPacket.SN)
  BY <1>2, <1>3, EntriesFollowed, FollowedGrows DEF ScheduleInv
<1>6. s.scheduleTable # <<>> => 1 \in DOMAIN s.scheduleTable
  <2>1. s.scheduleTable \in Seq(Entry)
    BY DEF IInv, MacInv, NodeState
  <2> QED
    BY <2>1
<1>7. t.macState = "CS_SYNC" => WillFollow(t.syncPacket.ID, t.syncPacket.SN)
  BY <1>4, <1>5, <1>6 DEF Steady
<1>8. /\ t.macState = "SETUP" => t.scheduleTable = <<>>
      /\ "SYNC_RENEW" \in t.timers => t.scheduleTable[1].ID = n
      /\ \A i, j \in DOMAIN t.scheduleTable :
            t.scheduleTable[i].ID = t.scheduleTable[j].ID => i = j
      /\ \A i \in DOMAIN t.scheduleTable :
            WillFollow(t.scheduleTable[i].ID, t.scheduleTable[i].SN)
  BY <1>3, <1>4 DEF ScheduleInv, Steady
<1> QED
  BY <1>2, <1>7, <1>8, GrowSchedules
\* NewSchedule adds one entry, and keeps the packets.
LEMMA NewScheduleFacts ==
    ASSUME NEW s, Good(s), NEW id \in Node, NEW sn \in Nat
    PROVE  LET t == NewSchedule(s, id, sn)
           IN  /\ t.scheduleTable = Append(s.scheduleTable, [ID |-> id, SN |-> sn])
               /\ Calm(s, t)
               /\ "SYNC_RENEW" \in t.timers => "SYNC_RENEW" \in s.timers
               /\ t.macState = "SETUP" => s.macState = "SETUP" /\ s.scheduleTable # <<>>
               /\ t.macState = "CS_SYNC" =>
                     \/ s.macState = "CS_SYNC" /\ t.syncPacket = s.syncPacket
                     \/ s.scheduleTable = <<>> /\ t.syncPacket = t.scheduleTable[1]
<1> DEFINE e == [ID |-> id, SN |-> sn]
           c == Append(s.scheduleTable, e)
           t == [s EXCEPT !.scheduleTable = Append(@, e)]
           v == NewSchedule(s, id, sn)
<1>1. s \in NodeState
  BY DEF Good, Driven, Base
<1>2. c \in Seq(Entry) /\ c # <<>>
  <2>1. s.scheduleTable \in Seq(Entry) /\ e \in Entry
    BY <1>1 DEF NodeState, Entry
  <2> HIDE DEF e
  <2> QED
    BY <2>1, AppendProperties
<1>3. CASE s.scheduleTable # <<>>
  <2>1. v = t
    BY <1>3 DEF NewSchedule
  <2> HIDE DEF e, v
  <2>2. /\ t.scheduleTable = c /\ t.timers = s.timers /\ t.macState = s.macState
        /\ t.syncPacket = s.syncPacket /\ t.TXBuffer = s.TXBuffer
        /\ t.txAddr = s.txAddr /\ t.txRetries = s.txRetries
    BY <1>1 DEF NodeState
  <2> HIDE DEF t
  <2>3. Calm(s, t)
    BY <1>1, <2>2, LightCalm DEF Light
  <2> QED
    BY <1>3, <2>1, <2>2, <2>3 DEF v, e
<1>4. CASE s.scheduleTable = <<>>
  <2> DEFINE u == [s EXCEPT !.scheduleTable = c,
                            !.timers = s.timers \cup {"CHECK_TA", "FRAME_START"},
                            !.needResync = TRUE, !.primaryWakeup = TRUE]
  <2>1. v = resetDefaultState(u)
    <3>1. [Arm(extendActivePeriod(t), "FRAME_START")
              EXCEPT !.needResync = TRUE, !.primaryWakeup = TRUE] = u
      BY <1>1 DEF Arm, extendActivePeriod, NodeState
    <3> QED
      BY <3>1, <1>4 DEF NewSchedule
  <2> HIDE DEF c
  <2>2. /\ Base(u) /\ u.scheduleTable = c /\ u.macState = s.macState
        /\ u.timers = s.timers \cup {"CHECK_TA", "FRAME_START"}
        /\ u.TXBuffer = s.TXBuffer /\ u.txAddr = s.txAddr /\ u.txRetries = s.txRetries
    BY <1>1, <1>2 DEF Good, Driven, Base, NodeState, Timer
  <2> HIDE DEF u, v
  <2>3. Calm(u, v) /\ Steady(u, v) /\ v.macState # "SETUP"
    BY <2>1, <2>2, ResetQuiet DEF Quiet
  <2>4. Calm(s, v)
    BY <2>2, <2>3, LightThenCalm DEF Light
  <2>5. v.macState = "CS_SYNC" =>
           (s.macState = "CS_SYNC" /\ v.syncPacket = u.syncPacket) \/ v.syncPacket = c[1]
    BY <2>2, <2>3 DEF Steady
  <2>6. s.macState = "CS_SYNC" /\ v.syncPacket = u.syncPacket => v.syncPacket = s.syncPacket
    BY <1>1 DEF u, NodeState
  <2> QED
    BY <1>4, <2>2, <2>3, <2>4, <2>5, <2>6 DEF v, c, Steady
<1> QED
  BY <1>3, <1>4

\* After a quiet step the invariants hold.
LEMMA QuietStepOK ==
    ASSUME IInv, IInv', LinkInv, SchedulesInv, NEW n \in Node, QuietStep(n),
           NoNew({"DATA", "ACK"}), FramesFollowed,
           UNCHANGED <<par, sent, pktHistory, delivered, acked>>
    PROVE  LinkInv' /\ SchedulesInv' /\ \A a \in Node : Kept(a)
<1>1. PICK t : Becomes(n, t) /\ Calm(mac[n], t) /\ Steady(mac[n], t)
  BY DEF QuietStep, Quiet
<1>2. LinkInv'
  BY QuietLink
<1>3. SchedulesInv'
  BY <1>1, SteadySchedules
<1>4. \A a \in Node : Kept(a)
  BY <1>1, CalmKept
<1> QED
  BY <1>2, <1>3, <1>4

\* Frames that are no SYNC, or none at all, are no news.
LEMMA NoNews == ASSUME NoNew({"SYNC"}) PROVE FramesFollowed
BY DEF NoNew, FramesFollowed

\* The node makes its own schedule, or renews it.
LEMMA SyncRenewOK ==
    ASSUME IInv, IInv', LinkInv, SchedulesInv, NEW n \in Node, SyncRenew(n)
    PROVE  LinkInv' /\ SchedulesInv' /\ \A a \in Node : Kept(a)
<1> DEFINE s == mac[n]
           k == s.scheduleTable[1].SN + 1
           tab == [s.scheduleTable EXCEPT ![1].SN = k]
           t == [s EXCEPT !.scheduleTable = tab, !.needResync = TRUE]
<1>1. /\ "SYNC_RENEW" \in s.timers /\ Becomes(n, t)
      /\ UNCHANGED <<par, sent, pktHistory, air, delivered, acked>>
  BY DEF SyncRenew, Fires
<1>2. Base(s) /\ s \in NodeState /\ s.scheduleTable \in Seq(Entry) /\ s.scheduleTable # <<>>
  BY <1>1 DEF IInv, MacInv, Good, Driven, Base, NodeState
<1>3. 1 \in DOMAIN s.scheduleTable /\ s.scheduleTable[1].SN \in Nat
  <2>1. 1 \in DOMAIN s.scheduleTable
    BY <1>2
  <2> QED
    BY <2>1, EntriesFollowed
<1>4. /\ DOMAIN tab = DOMAIN s.scheduleTable
      /\ \A i \in DOMAIN tab : tab[i].ID = s.scheduleTable[i].ID
      /\ \A i \in DOMAIN tab : i # 1 => tab[i] = s.scheduleTable[i]
      /\ tab[1].SN = k
  <2>1. \A i \in DOMAIN s.scheduleTable : s.scheduleTable[i] \in Entry
    BY <1>2
  <2> HIDE DEF k
  <2> QED
    BY <1>2, <1>3, <2>1 DEF Entry
<1> HIDE DEF tab
<1>5. /\ t.scheduleTable = tab /\ t.timers = s.timers /\ t.macState = s.macState
      /\ t.syncPacket = s.syncPacket /\ t.TXBuffer = s.TXBuffer
      /\ t.txAddr = s.txAddr /\ t.txRetries = s.txRetries
  BY <1>2 DEF NodeState
<1> HIDE DEF t
<1>6. Calm(s, t)
  BY <1>2, <1>5, LightCalm DEF Light
<1>7. NoNew({"DATA", "ACK"}) /\ FramesFollowed
  BY <1>1 DEF NoNew, FramesFollowed
<1>8. LinkInv'
  <2>1. Shrunk(s, t) /\ acked' \in [Node -> SUBSET Nat]
    BY <1>1, <1>6 DEF Calm, LinkInv
  <2> QED
    BY <1>1, <1>7, <2>1, ShrinkLink
<1>9. ScheduleInv(n)
  BY DEF SchedulesInv
<1>10. TablesGrow
  <2>1. \A a \in Node : mac'[a] = IF a = n THEN t ELSE mac[a]
    BY <1>1 DEF IInv, MacInv, Becomes
  <2>2. \A a \in Node : \A j \in DOMAIN mac[a].scheduleTable : mac[a].scheduleTable[j].SN \in Nat
    BY EntriesFollowed
  <2>3. \A j \in DOMAIN s.scheduleTable : tab[j].SN >= s.scheduleTable[j].SN
    BY <1>3, <1>4, <2>2
  <2> QED
    BY <1>4, <1>5, <2>1, <2>2, <2>3 DEF TablesGrow
<1>11. \A i \in DOMAIN tab : WillFollow(tab[i].ID, tab[i].SN)
  <2>1. \A i \in DOMAIN s.scheduleTable :
           WillFollow(s.scheduleTable[i].ID, s.scheduleTable[i].SN)
    BY <1>10, EntriesFollowed, FollowedGrows
  <2>2. tab[1].ID = n
    BY <1>1, <1>3, <1>4, <1>9 DEF ScheduleInv
  <2>3. mac'[n].scheduleTable = tab
    BY <1>1, <1>5 DEF IInv, MacInv, Becomes
  <2>4. WillFollow(tab[1].ID, tab[1].SN)
    BY <1>3, <1>4, <2>2, <2>3 DEF WillFollow
  <2> QED
    BY <1>4, <2>1, <2>4
<1>12. s.macState = "CS_SYNC" => WillFollow(s.syncPacket.ID, s.syncPacket.SN)
  BY <1>9, <1>10, EntriesFollowed, FollowedGrows DEF ScheduleInv
<1>13. /\ t.macState = "SETUP" => t.scheduleTable = <<>>
       /\ "SYNC_RENEW" \in t.timers => t.scheduleTable[1].ID = n
       /\ \A i, j \in DOMAIN t.scheduleTable :
             t.scheduleTable[i].ID = t.scheduleTable[j].ID => i = j
  BY <1>2, <1>3, <1>4, <1>5, <1>9 DEF ScheduleInv
<1>14. SchedulesInv'
  BY <1>1, <1>5, <1>7, <1>10, <1>11, <1>12, <1>13, GrowSchedules
<1> QED
  BY <1>1, <1>6, <1>8, <1>14, CalmKept
\* A schedule that is new to n, its own or one that is followed.
LEMMA AddSchedule ==
    ASSUME IInv, IInv', SchedulesInv, FramesFollowed, NEW n \in Node,
           NEW id \in Node, NEW sn \in Nat, Known(mac[n], id) = {},
           Followed(id, sn) \/ id = n,
           NEW t, Becomes(n, t),
           t.scheduleTable = Append(mac[n].scheduleTable, [ID |-> id, SN |-> sn]),
           "SYNC_RENEW" \in t.timers =>
              \/ "SYNC_RENEW" \in mac[n].timers
              \/ mac[n].scheduleTable = <<>> /\ id = n,
           t.macState = "SETUP" => mac[n].macState = "SETUP" /\ mac[n].scheduleTable # <<>>,
           t.macState = "CS_SYNC" =>
              \/ mac[n].macState = "CS_SYNC" /\ t.syncPacket = mac[n].syncPacket
              \/ mac[n].scheduleTable = <<>> /\ t.syncPacket = t.scheduleTable[1]
    PROVE  SchedulesInv'
<1> DEFINE s == mac[n]
           e == [ID |-> id, SN |-> sn]
           c == t.scheduleTable
<1>1. s.scheduleTable \in Seq(Entry) /\ e \in Entry /\ Base(s) /\ ScheduleInv(n)
  BY DEF IInv, MacInv, NodeState, Entry, Good, Driven, SchedulesInv
<1>2. e.ID = id /\ e.SN = sn /\ c = Append(s.scheduleTable, e)
  OBVIOUS
<1> HIDE DEF e
<1>3. /\ \A i \in DOMAIN c : i \in DOMAIN s.scheduleTable \/ (i = Len(s.scheduleTable) + 1 /\ c[i] = e)
      /\ \A i \in DOMAIN s.scheduleTable : i \in DOMAIN c /\ c[i] = s.scheduleTable[i]
      /\ Len(s.scheduleTable) + 1 \in DOMAIN c /\ c[Len(s.scheduleTable) + 1] = e
      /\ s.scheduleTable = <<>> => c[1] = e /\ 1 \in DOMAIN c
      /\ s.scheduleTable # <<>> => 1 \in DOMAIN s.scheduleTable
  BY <1>1, <1>2, AppendProperties
<1>4. mac'[n] = t /\ \A a \in Node : a # n => mac'[a] = mac[a]
  BY DEF IInv, MacInv, Becomes
<1>5. TablesGrow
  <2>1. \A a \in Node : \A j \in DOMAIN mac[a].scheduleTable : mac[a].scheduleTable[j].SN \in Nat
    BY EntriesFollowed
  <2>2. ASSUME NEW a \in Node, NEW j \in DOMAIN mac[a].scheduleTable
        PROVE  /\ j \in DOMAIN mac'[a].scheduleTable
               /\ mac'[a].scheduleTable[j] = mac[a].scheduleTable[j]
    <3>1. CASE a = n
      BY <1>3, <1>4, <3>1
    <3>2. CASE a # n
      BY <1>4, <3>2
    <3> QED
      BY <3>1, <3>2
  <2> QED
    BY <2>1, <2>2 DEF TablesGrow
<1>6. WillFollow(e.ID, e.SN)
  <2>1. CASE Followed(id, sn)
    BY <1>2, <1>5, <2>1, FollowedGrows
  <2>2. CASE id = n
    BY <1>2, <1>3, <1>4, <2>2 DEF WillFollow
  <2> QED
    BY <2>1, <2>2
<1>7. \A i \in DOMAIN c : WillFollow(c[i].ID, c[i].SN)
  <2>1. \A i \in DOMAIN s.scheduleTable :
           WillFollow(s.scheduleTable[i].ID, s.scheduleTable[i].SN)
    BY <1>5, EntriesFollowed, FollowedGrows
  <2> QED
    BY <1>3, <1>6, <2>1
<1>8. \A i, j \in DOMAIN c : c[i].ID = c[j].ID => i = j
  <2>1. \A i, j \in DOMAIN s.scheduleTable :
           s.scheduleTable[i].ID = s.scheduleTable[j].ID => i = j
    BY <1>1 DEF ScheduleInv
  <2>2. \A i \in DOMAIN s.scheduleTable : s.scheduleTable[i].ID # id
    BY DEF Known
  <2> SUFFICES ASSUME NEW i \in DOMAIN c, NEW j \in DOMAIN c, c[i].ID = c[j].ID
               PROVE  i = j
    OBVIOUS
  <2>3. CASE i \in DOMAIN s.scheduleTable /\ j \in DOMAIN s.scheduleTable
    BY <1>3, <2>1, <2>3
  <2>4. CASE i \notin DOMAIN s.scheduleTable \/ j \notin DOMAIN s.scheduleTable
    <3>1. c[i].ID = id /\ c[j].ID = id
      BY <1>2, <1>3, <2>4
    <3> QED
      BY <1>3, <2>2, <3>1
  <2> QED
    BY <2>3, <2>4
<1>9. t.macState = "CS_SYNC" => WillFollow(t.syncPacket.ID, t.syncPacket.SN)
  <2>1. s.macState = "CS_SYNC" => WillFollow(s.syncPacket.ID, s.syncPacket.SN)
    BY <1>1, <1>5, EntriesFollowed, FollowedGrows DEF ScheduleInv
  <2> QED
    BY <1>3, <1>6, <2>1
<1>10. "SYNC_RENEW" \in t.timers => c[1].ID = n
  <2>1. CASE "SYNC_RENEW" \in s.timers
    BY <1>1, <1>3, <2>1 DEF Base, ScheduleInv
  <2>2. CASE s.scheduleTable = <<>> /\ id = n
    BY <1>2, <1>3, <2>2
  <2> QED
    BY <2>1, <2>2
<1>11. t.macState # "SETUP"
  BY <1>1 DEF ScheduleInv
<1> QED
  BY <1>5, <1>7, <1>8, <1>9, <1>10, <1>11, GrowSchedules

\* SYNC_CREATE for a node that is still without a schedule.
LEMMA SyncCreateOK ==
    ASSUME IInv, IInv', LinkInv, SchedulesInv, NEW n \in Node, SyncCreate(n)
    PROVE  LinkInv' /\ SchedulesInv' /\ \A a \in Node : Kept(a)
<1> DEFINE s == mac[n]
           c == Cancel(s, "SYNC_CREATE")
           v == NewSchedule(c, n, 0)
           t == Arm(v, "SYNC_RENEW")
<1>1. /\ UNCHANGED <<par, sent, pktHistory, air, delivered, acked>>
      /\ Becomes(n, IF c.macState = "SETUP" THEN t ELSE c)
  BY DEF SyncCreate, After
<1>2. Good(s) /\ s \in NodeState /\ ScheduleInv(n)
  BY DEF IInv, MacInv, Good, Driven, Base, SchedulesInv
<1>3. /\ Good(c) /\ c.macState = s.macState /\ c.scheduleTable = s.scheduleTable
      /\ c.syncPacket = s.syncPacket /\ c.timers \subseteq s.timers
      /\ Plain(s, c)
  BY <1>2, DropOK, TimersPlain DEF Cancel, NodeState, Timer
<1> HIDE DEF c
<1>4. NoNew({"DATA", "ACK"}) /\ FramesFollowed
  BY <1>1 DEF NoNew, FramesFollowed
<1>5. CASE c.macState # "SETUP"
  <2>1. QuietStep(n)
    BY <1>1, <1>2, <1>3, <1>5, PlainIsQuiet DEF QuietStep
  <2> QED
    BY <1>1, <1>4, <2>1, QuietStepOK
<1>6. CASE c.macState = "SETUP"
  <2>1. s.scheduleTable = <<>> /\ Becomes(n, t)
    BY <1>1, <1>2, <1>3, <1>6 DEF ScheduleInv
  <2>2. /\ v.scheduleTable = Append(c.scheduleTable, [ID |-> n, SN |-> 0])
        /\ Calm(c, v)
        /\ "SYNC_RENEW" \in v.timers => "SYNC_RENEW" \in c.timers
        /\ v.macState = "SETUP" => c.macState = "SETUP" /\ c.scheduleTable # <<>>
        /\ v.macState = "CS_SYNC" =>
              \/ c.macState = "CS_SYNC" /\ v.syncPacket = c.syncPacket
              \/ c.scheduleTable = <<>> /\ v.syncPacket = v.scheduleTable[1]
    BY <1>3, NewScheduleFacts
  <2>3. v \in NodeState
    BY <1>3, NewScheduleOK DEF Good, Driven, Base
  <2> HIDE DEF v
  <2>4. /\ t.scheduleTable = v.scheduleTable /\ t.macState = v.macState
        /\ t.syncPacket = v.syncPacket /\ t.TXBuffer = v.TXBuffer
        /\ t.txAddr = v.txAddr /\ t.txRetries = v.txRetries
    BY <2>3 DEF Arm, NodeState
  <2> HIDE DEF t
  <2>5. Calm(s, t)
    <3>1. Calm(s, v)
      BY <1>3, <2>2, LightThenCalm DEF Plain
    <3> QED
      BY <2>4, <3>1 DEF Calm, Shrunk, Counted
  <2>6. LinkInv'
    <3>1. Shrunk(s, t) /\ acked' \in [Node -> SUBSET Nat]
      BY <1>1, <2>5 DEF Calm, LinkInv
    <3> QED
      BY <1>1, <1>4, <2>1, <3>1, ShrinkLink
  <2>7. Known(s, n) = {}
    BY <2>1 DEF Known
  <2>8. SchedulesInv'
    BY <1>3, <1>4, <2>1, <2>2, <2>4, <2>7, AddSchedule
  <2> QED
    BY <2>1, <2>5, <2>6, <2>8, CalmKept
<1> QED
  BY <1>5, <1>6
\* News of a schedule the node knows.
LEMMA RenewEntry ==
    ASSUME IInv, IInv', LinkInv, SchedulesInv, FramesFollowed, NEW n \in Node,
           NEW id \in Node, NEW sn \in Nat, Followed(id, sn),
           NEW i \in Known(mac[n], id), mac[n].scheduleTable[i].SN < sn, NEW b \in BOOLEAN,
           Becomes(n, [mac[n] EXCEPT !.scheduleTable[i].SN = sn, !.shifted = b])
    PROVE  SchedulesInv' /\ Calm(mac[n], mac'[n])
<1> DEFINE s == mac[n]
           tab == [s.scheduleTable EXCEPT ![i].SN = sn]
           t == [s EXCEPT !.scheduleTable = tab, !.shifted = b]
<1>1. Becomes(n, t)
  OBVIOUS
<1>2. s \in NodeState /\ s.scheduleTable \in Seq(Entry) /\ ScheduleInv(n) /\ Base(s)
  BY DEF IInv, MacInv, NodeState, SchedulesInv, Good, Driven
<1>3. i \in DOMAIN s.scheduleTable /\ s.scheduleTable[i].ID = id
  BY DEF Known
<1>4. /\ DOMAIN tab = DOMAIN s.scheduleTable
      /\ \A j \in DOMAIN tab : tab[j].ID = s.scheduleTable[j].ID
      /\ \A j \in DOMAIN tab : j # i => tab[j] = s.scheduleTable[j]
      /\ tab[i].SN = sn
  <2>1. \A j \in DOMAIN s.scheduleTable : s.scheduleTable[j] \in Entry
    BY <1>2
  <2> QED
    BY <1>2, <1>3, <2>1 DEF Entry
<1> HIDE DEF tab
<1>5. /\ t.scheduleTable = tab /\ t.timers = s.timers /\ t.macState = s.macState
      /\ t.syncPacket = s.syncPacket /\ t.TXBuffer = s.TXBuffer
      /\ t.txAddr = s.txAddr /\ t.txRetries = s.txRetries
  BY <1>2 DEF NodeState
<1> HIDE DEF t
<1>6. mac'[n] = t /\ \A a \in Node : a # n => mac'[a] = mac[a]
  BY <1>1 DEF IInv, MacInv, Becomes
<1>7. TablesGrow
  <2>1. \A a \in Node : \A j \in DOMAIN mac[a].scheduleTable : mac[a].scheduleTable[j].SN \in Nat
    BY EntriesFollowed
  <2>2. \A j \in DOMAIN s.scheduleTable : tab[j].SN >= s.scheduleTable[j].SN
    BY <1>3, <1>4, <2>1
  <2>3. ASSUME NEW a \in Node, NEW j \in DOMAIN mac[a].scheduleTable
        PROVE  /\ j \in DOMAIN mac'[a].scheduleTable
               /\ mac'[a].scheduleTable[j].ID = mac[a].scheduleTable[j].ID
               /\ mac'[a].scheduleTable[j].SN >= mac[a].scheduleTable[j].SN
    <3>1. CASE a = n
      BY <1>4, <1>5, <1>6, <2>2, <3>1
    <3>2. CASE a # n
      BY <1>6, <2>1, <3>2
    <3> QED
      BY <3>1, <3>2
  <2> QED
    BY <2>3 DEF TablesGrow
<1>8. \A j \in DOMAIN tab : WillFollow(tab[j].ID, tab[j].SN)
  <2>1. \A j \in DOMAIN s.scheduleTable :
           WillFollow(s.scheduleTable[j].ID, s.scheduleTable[j].SN)
    BY <1>7, EntriesFollowed, FollowedGrows
  <2>2. WillFollow(id, sn)
    BY <1>7, FollowedGrows
  <2>3. WillFollow(tab[i].ID, tab[i].SN)
    BY <1>3, <1>4, <2>2
  <2> QED
    BY <1>4, <2>1, <2>3
<1>9. s.macState = "CS_SYNC" => WillFollow(s.syncPacket.ID, s.syncPacket.SN)
  BY <1>2, <1>7, EntriesFollowed, FollowedGrows DEF ScheduleInv
<1>10. s.scheduleTable # <<>> => 1 \in DOMAIN s.scheduleTable
  BY <1>2
<1>11. /\ t.macState = "SETUP" => t.scheduleTable = <<>>
       /\ "SYNC_RENEW" \in t.timers => t.scheduleTable[1].ID = n
       /\ \A j, k \in DOMAIN t.scheduleTable :
             t.scheduleTable[j].ID = t.scheduleTable[k].ID => j = k
  BY <1>2, <1>3, <1>4, <1>5, <1>10 DEF ScheduleInv, Base
<1>12. SchedulesInv'
  BY <1>1, <1>5, <1>7, <1>8, <1>9, <1>11, GrowSchedules
<1> QED
  BY <1>2, <1>5, <1>6, <1>12, LightCalm DEF Light

\* A SYNC frame arrives.
LEMMA ReceiveSYNCOK ==
    ASSUME IInv, IInv', LinkInv, SchedulesInv, NEW m \in Node, NEW n \in Node,
           ReceiveSYNC(m, n)
    PROVE  LinkInv' /\ SchedulesInv' /\ \A a \in Node : Kept(a)
<1> DEFINE s == mac[n]
           f == air[m][n]
<1>1. /\ UNCHANGED <<par, sent, pktHistory, delivered, acked>> /\ Silently(m, n)
      /\ f.type = "SYNC" /\ \E t \in updateScheduleTable(s, f.id, f.sn) : Becomes(n, t)
  BY DEF ReceiveSYNC, Arrives
<1>2. f.id \in Node /\ f.sn \in Nat /\ Followed(f.id, f.sn)
  BY <1>1 DEF IInv, AirInv, AnyFrame, SchedulesInv
<1>3. NoNew({"DATA", "ACK"}) /\ FramesFollowed
  BY <1>1, SilentAir, NoNews
<1>4. Good(s) /\ s \in NodeState
  BY DEF IInv, MacInv
<1>5. PICK id, sn : id = f.id /\ sn = f.sn
  OBVIOUS
<1>6. /\ id \in Node /\ sn \in Nat /\ Followed(id, sn)
      /\ \E t \in updateScheduleTable(s, id, sn) : Becomes(n, t)
  BY <1>1, <1>2, <1>5
<1> HIDE DEF f
<1>7. \E t : Becomes(n, t) /\ Calm(s, t) /\ SchedulesInv'
  <2>1. CASE Known(s, id) = {}
    <3> DEFINE t == NewSchedule(s, id, sn)
    <3>1. Becomes(n, t)
      BY <1>6, <2>1 DEF updateScheduleTable
    <3>2. /\ t.scheduleTable = Append(s.scheduleTable, [ID |-> id, SN |-> sn])
          /\ Calm(s, t)
          /\ "SYNC_RENEW" \in t.timers => "SYNC_RENEW" \in s.timers
          /\ t.macState = "SETUP" => s.macState = "SETUP" /\ s.scheduleTable # <<>>
          /\ t.macState = "CS_SYNC" =>
                \/ s.macState = "CS_SYNC" /\ t.syncPacket = s.syncPacket
                \/ s.scheduleTable = <<>> /\ t.syncPacket = t.scheduleTable[1]
      BY <1>4, <1>6, NewScheduleFacts
    <3> HIDE DEF t
    <3>3. SchedulesInv'
      BY <1>3, <1>6, <2>1, <3>1, <3>2, AddSchedule
    <3> QED
      BY <3>1, <3>2, <3>3
  <2>2. CASE Known(s, id) # {}
    <3> DEFINE i == CHOOSE j \in Known(s, id) : TRUE
    <3>1. i \in Known(s, id)
      BY <2>2
    <3>2. \/ s.scheduleTable[i].SN >= sn /\ Becomes(n, s)
          \/ /\ ~(s.scheduleTable[i].SN >= sn)
             /\ \E c \in BOOLEAN :
                   Becomes(n, [s EXCEPT !.scheduleTable[i].SN = sn,
                                        !.shifted = IF i = 1 THEN c ELSE s.shifted])
      BY <1>6, <2>2 DEF updateScheduleTable
    <3> HIDE DEF i
    <3>3. s.shifted \in BOOLEAN /\ s.scheduleTable[i].SN \in Nat
      BY <1>4, <3>1, EntriesFollowed DEF NodeState, Known
    <3>4. CASE s.scheduleTable[i].SN >= sn /\ Becomes(n, s)
      <4>1. Calm(s, s) /\ Steady(s, s)
        BY <1>4, TimersPlain, PlainIsQuiet DEF Quiet, Timer
      <4> QED
        BY <1>3, <3>4, <4>1, SteadySchedules
    <3>5. ASSUME s.scheduleTable[i].SN < sn, NEW c \in BOOLEAN,
                 Becomes(n, [s EXCEPT !.scheduleTable[i].SN = sn,
                                      !.shifted = IF i = 1 THEN c ELSE s.shifted])
          PROVE  \E t : Becomes(n, t) /\ Calm(s, t) /\ SchedulesInv'
      <4>1. PICK d \in BOOLEAN : d = IF i = 1 THEN c ELSE s.shifted
        BY <3>3
      <4>2. Becomes(n, [s EXCEPT !.scheduleTable[i].SN = sn, !.shifted = d])
        BY <3>5, <4>1
      <4>3. SchedulesInv' /\ Calm(s, mac'[n])
        BY <1>3, <1>6, <3>1, <3>5, <4>2, RenewEntry
      <4>4. Becomes(n, mac'[n])
        BY <4>2 DEF IInv, MacInv, Becomes
      <4> QED
        BY <4>3, <4>4
    <3>6. s.scheduleTable[i].SN >= sn \/ s.scheduleTable[i].SN < sn
      BY <1>6, <3>3
    <3> QED
      BY <3>2, <3>4, <3>5, <3>6
  <2> QED
    BY <2>1, <2>2
<1>8. LinkInv'
  <2>1. PICK t : Becomes(n, t) /\ Shrunk(s, t)
    BY <1>7 DEF Calm
  <2>2. acked' \in [Node -> SUBSET Nat]
    BY <1>1 DEF LinkInv
  <2> QED
    BY <1>1, <1>3, <2>1, <2>2, ShrinkLink
<1> QED
  BY <1>7, <1>8, CalmKept
-----------------------------------------------------------------------------
(* All steps together, and what a network layer sees of them. *)

\* The histories do not change.
Unseen == UNCHANGED <<sent, delivered, acked>>

\* A step of the link.
LinkStep == Unseen \/ LinkLayer!Next

Done == LinkInv' /\ SchedulesInv' /\ (\A a \in Node : Kept(a)) /\ LinkStep

\* Quiet steps that put nothing, or nothing that matters, on the air.
LEMMA UnseenOK ==
    ASSUME IInv, IInv', LinkInv, SchedulesInv, NEW n \in Node, QuietStep(n),
           NoNew({"DATA", "ACK"}), FramesFollowed,
           UNCHANGED <<par, sent, pktHistory, delivered, acked>>
    PROVE  Done
BY QuietStepOK DEF Done, LinkStep, Unseen

\* Every timer of a node keeps the invariants and is a step of the link.
LEMMA TimersDone ==
    ASSUME IInv, IInv', LinkInv, SchedulesInv, NEW n \in Node, Timers(n)
    PROVE  Done
<1>1. CASE UNCHANGED air /\ QuietStep(n)
            /\ UNCHANGED <<par, sent, pktHistory, delivered, acked>>
  <2>1. NoNew({"DATA", "ACK"}) /\ FramesFollowed
    BY <1>1 DEF NoNew, FramesFollowed
  <2> QED
    BY <1>1, <2>1, UnseenOK
<1>2. CASE SyncSetup(n) \/ FrameStart(n) \/ Wakeup(n) \/ CheckTA(n) \/ TransmissionTimeout(n)
  <2>1. QuietStep(n)
    BY <1>2, TimersQuiet
  <2> QED
    BY <1>1, <1>2, <2>1
       DEF SyncSetup, FrameStart, Wakeup, CheckTA, TransmissionTimeout
<1>3. CASE SenseInVain(n) \/ SenseNotValid(n) \/ SenseBusy(n) \/ CarrierInterrupt(n)
           \/ GoToSleep(n)
  <2>1. QuietStep(n)
    BY <1>3, SenseQuiet
  <2> QED
    BY <1>1, <1>3, <2>1
       DEF SenseInVain, SenseNotValid, SenseBusy, CarrierInterrupt, GoToSleep, Clear
<1>4. CASE SyncCreate(n)
  BY <1>4, SyncCreateOK DEF Done, LinkStep, Unseen, SyncCreate
<1>5. CASE SyncRenew(n)
  BY <1>5, SyncRenewOK DEF Done, LinkStep, Unseen, SyncRenew
<1>6. CASE SendRTS(n)
  <2> DEFINE f == Frame("RTS", mac[n].txAddr, 0)
  <2>1. air' = [air EXCEPT ![n] = Cast(n, f)]
        /\ UNCHANGED <<par, sent, pktHistory, delivered, acked>>
    BY <1>6 DEF SendRTS, Clear
  <2>2. f \in AnyFrame /\ f.type = "RTS"
    BY FrameOK DEF IInv, MacInv, NodeState, Frame
  <2> HIDE DEF f
  <2>3. NoNew({"DATA", "ACK"}) /\ FramesFollowed
    BY <2>1, <2>2, CastAir, NoNews
  <2>4. QuietStep(n)
    BY <1>6, SenseQuiet
  <2> QED
    BY <2>1, <2>3, <2>4, UnseenOK
<1>7. CASE SendSYNC(n)
  <2> DEFINE p == mac[n].syncPacket
             f == [type |-> "SYNC", dst |-> BROADCAST, id |-> p.ID, sn |-> p.SN]
  <2>1. air' = [air EXCEPT ![n] = Cast(n, f)] /\ mac[n].macState = "CS_SYNC"
        /\ UNCHANGED <<par, sent, pktHistory, delivered, acked>>
    BY <1>7 DEF SendSYNC, Clear, Senses
  <2>2. p.ID \in Node /\ p.SN \in Nat /\ Followed(p.ID, p.SN)
    BY <2>1, EntriesFollowed DEF SchedulesInv, ScheduleInv
  <2>3. f \in AnyFrame /\ f.type = "SYNC" /\ f.id = p.ID /\ f.sn = p.SN
    BY <2>2 DEF AnyFrame, Address
  <2> HIDE DEF f, p
  <2>4. OnlyNew(n, f) /\ NoNew({"DATA", "ACK"})
    BY <2>1, <2>3, CastAir
  <2>5. FramesFollowed
    <3>1. NoFrame.type = "none"
      BY DEF NoFrame
    <3> QED
      BY <2>2, <2>3, <2>4, <3>1 DEF FramesFollowed, OnlyNew
  <2>6. QuietStep(n)
    BY <1>7, SenseQuiet
  <2> QED
    BY <2>1, <2>4, <2>5, <2>6, UnseenOK
<1>8. CASE SendDATA(n)
  <2>1. Unseen
    BY <1>8 DEF SendDATA, Clear, Unseen
  <2>2. LinkInv' /\ (\A a \in Node : Kept(a)) /\ FramesFollowed
        /\ \E t : Becomes(n, t) /\ Steady(mac[n], t)
    BY <1>8, SendDATAStep, NoNews
  <2> QED
    BY <2>1, <2>2, SteadySchedules DEF Done, LinkStep
<1> QED
  BY <1>2, <1>3, <1>4, <1>5, <1>6, <1>7, <1>8 DEF Timers, Sense, SenseClear

\* A packet is delivered at most once, in order, to whom it was sent.
LEMMA DeliverOK ==
    ASSUME IInv, LinkInv, NEW m \in Node, NEW n \in Node, ReceiveDATA(m, n)
    PROVE  LinkStep
<1> DEFINE k == air[m][n].sn
<1>1. /\ Given(m, air[m][n]) /\ air[m][n].dst \in {n, BROADCAST} /\ k \in Nat
      /\ \/ pktHistory[n][m] < k
            /\ delivered' = [delivered EXCEPT ![n] = Append(@, <<m, k>>)]
         \/ delivered' = delivered
      /\ UNCHANGED <<sent, acked>>
  BY ReceiveDATAFacts
<1>2. k \in DOMAIN sent[m] /\ sent[m][k] \in {n, BROADCAST}
  BY <1>1 DEF Given
<1> HIDE DEF k
<1>3. CASE delivered' = delivered
  BY <1>1, <1>3 DEF LinkStep, Unseen
<1>4. CASE pktHistory[n][m] < k /\ delivered' = [delivered EXCEPT ![n] = Append(@, <<m, k>>)]
  <2>1. \A j \in DOMAIN sent[m] : <<m, j>> \in LinkLayer!ToSet(delivered[n]) => j < k
    <3> SUFFICES ASSUME NEW j \in DOMAIN sent[m], <<m, j>> \in LinkLayer!ToSet(delivered[n])
                 PROVE  j < k
      OBVIOUS
    <3>1. <<m, j>> \in Passed(n)
      BY DEF LinkLayer!ToSet, Passed
    <3>2. j \in Nat
      BY DEF IInv
    <3>3. j <= pktHistory[n][m] /\ pktHistory[n][m] \in Nat
      BY <3>1, <3>2 DEF LinkInv, HistoryInv
    <3> QED
      BY <1>1, <1>4, <3>2, <3>3
  <2>2. LinkLayer!Deliver(m, n)
    BY <1>1, <1>2, <1>4, <2>1 DEF LinkLayer!Deliver
  <2> QED
    BY <2>2 DEF LinkStep, LinkLayer!Next
<1> QED
  BY <1>1, <1>3, <1>4

\* So does every frame that is received ...
LEMMA ReceiveDone ==
    ASSUME IInv, IInv', LinkInv, SchedulesInv, NEW m \in Node, NEW n \in Node, Receive(m, n)
    PROVE  Done
<1>1. CASE Overhear(m, n) \/ (ReceiveCTS(m, n)
                              /\ ~(mac[n].macState = "WAIT_FOR_CTS" /\ mac[n].txAddr = m))
  <2>1. Silently(m, n) /\ UNCHANGED <<par, sent, pktHistory, delivered, acked>>
    BY <1>1 DEF Overhear, ReceiveCTS, Arrives
  <2>2. NoNew({"DATA", "ACK"}) /\ FramesFollowed
    BY <2>1, SilentAir, NoNews
  <2>3. QuietStep(n)
    BY <1>1, ReceiveQuiet
  <2> QED
    BY <2>1, <2>2, <2>3, UnseenOK
<1>2. CASE ReceiveRTS(m, n)
  <2> DEFINE f == Frame("CTS", m, 0)
  <2>1. Replying(m, n, f) /\ UNCHANGED <<par, sent, pktHistory, delivered, acked>>
    BY <1>2 DEF ReceiveRTS, Arrives
  <2>2. f \in AnyFrame /\ f.type = "CTS" /\ m # n
    BY <1>2, FrameOK DEF Address, Frame, ReceiveRTS, Arrives, LinkInv, NoFrame
  <2> HIDE DEF f
  <2>3. NoNew({"DATA", "ACK"}) /\ FramesFollowed
    BY <2>1, <2>2, CastAir, NoNews
  <2>4. QuietStep(n)
    BY <1>2, ReceiveQuiet
  <2> QED
    BY <2>1, <2>3, <2>4, UnseenOK
<1>3. CASE ReceiveCTS(m, n) /\ mac[n].macState = "WAIT_FOR_CTS" /\ mac[n].txAddr = m
  <2>1. Unseen
    BY <1>3 DEF ReceiveCTS, Arrives, Unseen
  <2>2. LinkInv' /\ (\A a \in Node : Kept(a)) /\ FramesFollowed
        /\ \E t : Becomes(n, t) /\ Steady(mac[n], t)
    BY <1>3, ReceiveCTSStep, NoNews
  <2> QED
    BY <2>1, <2>2, SteadySchedules DEF Done, LinkStep
<1>4. CASE ReceiveDATA(m, n)
  <2>1. LinkInv' /\ (\A a \in Node : Kept(a)) /\ LinkStep
    BY <1>4, ReceiveDATALink, DeliverOK
  <2>2. PICK t : Becomes(n, t) /\ Steady(mac[n], t)
    BY <1>4, ReceiveQuiet DEF QuietStep, Quiet
  <2>3. FramesFollowed
    <3>1. CASE OnlyNew(n, Frame("ACK", m, 0))
      BY <3>1 DEF OnlyNew, FramesFollowed, NoFrame, Frame
    <3>2. CASE \A a, b \in Node : air'[a][b] \in {air[a][b], NoFrame}
      BY <3>2 DEF FramesFollowed, NoFrame
    <3> QED
      BY <1>4, <3>1, <3>2, ReceiveDATAFacts
  <2> QED
    BY <2>1, <2>2, <2>3, SteadySchedules DEF Done
<1>5. CASE ReceiveACK(m, n)
  <2>1. LinkInv' /\ (\A a \in Node : Kept(a)) /\ FramesFollowed
        /\ \E t : Becomes(n, t) /\ Steady(mac[n], t)
    BY <1>5, ReceiveACKStep, NoNews
  <2>2. /\ UNCHANGED <<sent, delivered>>
        /\ \/ acked' = acked
           \/ \E k \in DOMAIN sent[n] :
                 /\ sent[n][k] = m /\ <<n, k>> \in Passed(m)
                 /\ acked' = [acked EXCEPT ![n] = @ \cup {k}]
    BY <1>5, ReceiveACKStep
  <2>3. LinkStep
    <3>1. CASE acked' = acked
      BY <2>2, <3>1 DEF LinkStep, Unseen
    <3>2. ASSUME NEW k \in DOMAIN sent[n], sent[n][k] = m, <<n, k>> \in Passed(m),
                 acked' = [acked EXCEPT ![n] = @ \cup {k}]
          PROVE  LinkStep
      <4>1. <<n, k>> \in LinkLayer!ToSet(delivered[sent[n][k]])
        BY <3>2 DEF LinkLayer!ToSet, Passed
      <4>2. LinkLayer!Acknowledge(n)
        BY <2>2, <3>2, <4>1 DEF LinkLayer!Acknowledge
      <4> QED
        BY <4>2 DEF LinkStep, LinkLayer!Next
    <3> QED
      BY <2>2, <3>1, <3>2
  <2> QED
    BY <2>1, <2>3, SteadySchedules DEF Done
<1>6. CASE ReceiveSYNC(m, n)
  BY <1>6, ReceiveSYNCOK DEF Done, LinkStep, Unseen, ReceiveSYNC, Arrives
<1> QED
  BY <1>1, <1>2, <1>3, <1>4, <1>5, <1>6 DEF Receive

\* ... and so does every step of the network, lost frames and new packets included,
LEMMA StepDone == IInv /\ LinkInv /\ SchedulesInv /\ Next => Done
<1> SUFFICES ASSUME IInv, LinkInv, SchedulesInv, Next PROVE Done
  OBVIOUS
<1>1. IInv'
  BY StepOK
<1>2. ASSUME NEW n \in Node, Timers(n) PROVE Done
  BY <1>1, <1>2, TimersDone
<1>3. ASSUME NEW n \in Node, NEW m \in Node, Receive(m, n) PROVE Done
  BY <1>1, <1>3, ReceiveDone
<1>4. ASSUME NEW n \in Node, NEW m \in Node, Lose(m, n) PROVE Done
  <2>1. UNCHANGED <<par, mac, sent, pktHistory, delivered, acked>> /\ Silently(m, n)
    BY <1>4 DEF Lose
  <2>2. Becomes(n, mac[n]) /\ mac[n] \in NodeState
    BY <2>1 DEF IInv, MacInv, Becomes
  <2>3. QuietStep(n)
    BY <2>2, TimersPlain, PlainIsQuiet DEF QuietStep, Timer
  <2>4. NoNew({"DATA", "ACK"}) /\ FramesFollowed
    BY <2>1, SilentAir, NoNews
  <2> QED
    BY <1>1, <2>1, <2>3, <2>4, UnseenOK
<1>5. ASSUME NEW n \in Node, NEW d \in Address, FromNetworkLayer(n, d) PROVE Done
  <2>1. /\ LinkInv' /\ \A a \in Node : Kept(a)
        /\ \E t : Becomes(n, t) /\ Steady(mac[n], t)
        /\ sent' = [sent EXCEPT ![n] = Append(@, d)]
        /\ UNCHANGED <<air, delivered, acked>>
    BY <1>1, <1>5, NetworkStep
  <2>2. FramesFollowed
    BY <2>1 DEF FramesFollowed
  <2>3. SchedulesInv'
    BY <1>1, <2>1, <2>2, SteadySchedules
  <2>4. LinkLayer!Submit(n)
    BY <2>1 DEF LinkLayer!Submit
  <2>5. LinkStep
    BY <2>4 DEF LinkStep, LinkLayer!Next
  <2> QED
    BY <2>1, <2>3, <2>5 DEF Done
<1>6. ASSUME NEW n \in Node, NEW t \in par.traffic, FromNetworkLayer(n, t[2]) PROVE Done
  <2>1. par.traffic \in SUBSET (Node \X Address)
    BY TmacAssumption DEF IInv, Parameters
  <2>2. t[2] \in Address
    BY <2>1
  <2> QED
    BY <1>5, <1>6, <2>2
<1> QED
  BY <1>2, <1>3, <1>4, <1>6 DEF Next

\* and a step that changes nothing.
LEMMA StutterDone == IInv /\ LinkInv /\ SchedulesInv /\ UNCHANGED vars => Done
<1> SUFFICES ASSUME IInv, LinkInv, SchedulesInv, UNCHANGED vars PROVE Done
  OBVIOUS
<1>1. IInv'
  BY StepOK
<1>2. UNCHANGED <<par, mac, sent, pktHistory, air, delivered, acked>>
  BY DEF vars
<1>3. PICK n : n \in Node
  BY TmacAssumption
<1>4. Becomes(n, mac[n]) /\ mac[n] \in NodeState
  BY <1>2, <1>3 DEF IInv, MacInv, Becomes
<1>5. QuietStep(n)
  BY <1>4, TimersPlain, PlainIsQuiet DEF QuietStep, Timer
<1>6. NoNew({"DATA", "ACK"}) /\ FramesFollowed
  BY <1>2 DEF NoNew, FramesFollowed
<1> QED
  BY <1>1, <1>2, <1>3, <1>5, <1>6, UnseenOK

\* The invariants hold at the start, whether the nodes are synchronised or not.
LEMMA InitLink == Init => LinkInv /\ SchedulesInv
<1> SUFFICES ASSUME Init PROVE LinkInv /\ SchedulesInv
  OBVIOUS
<1>1. /\ mac = [n \in Node |-> Started(n)]
      /\ sent = [n \in Node |-> <<>>]
      /\ pktHistory = [n \in Node |-> [m \in Node |-> 0]]
      /\ air = [n \in Node |-> [m \in Node |-> NoFrame]]
      /\ delivered = [n \in Node |-> <<>>] /\ acked = [n \in Node |-> {}]
  BY DEF Init
<1>2. par.synced \in BOOLEAN /\ NoFrame.type = "none"
  BY TmacAssumption DEF Init, Parameters, NoFrame
<1>3. ASSUME NEW n \in Node
      PROVE  LET s == Started(n)
             IN  /\ s.TXBuffer = <<>> /\ s.macState \in {"SETUP", "SLEEP"}
                 /\ s.macState = "SETUP" => ~par.synced
                 /\ "SYNC_RENEW" \in s.timers => par.synced /\ n = Sink
                 /\ s.scheduleTable = IF par.synced THEN <<[ID |-> Sink, SN |-> 0]>> ELSE <<>>
  BY <1>2 DEF Started
<1>4. ASSUME NEW n \in Node
      PROVE  /\ BufferInv(n) /\ FramesInv(n) /\ AckInv(n) /\ RetriesInv(n)
             /\ \A m \in Node : HistoryInv(m, n)
  <2>1. \A m \in Node : Passed(m) = {}
    BY <1>1 DEF Passed
  <2>2. /\ mac[n].TXBuffer = <<>> /\ mac[n].macState \in {"SETUP", "SLEEP"}
        /\ \A m \in Node : air[n][m].type = "none" /\ pktHistory[m][n] = 0
        /\ sent[n] = <<>>
    BY <1>1, <1>2, <1>3
  <2>3. BufferInv(n) /\ FramesInv(n) /\ AckInv(n)
    BY <2>2 DEF BufferInv, FramesInv, AckInv
  <2>4. RetriesInv(n)
    BY <2>2 DEF RetriesInv, Counted
  <2>5. \A m \in Node : HistoryInv(m, n)
    BY <2>1, <2>2 DEF HistoryInv
  <2> QED
    BY <2>3, <2>4, <2>5
<1>5. LinkInv
  BY <1>1, <1>4 DEF LinkInv
<1>6. par.synced => Followed(Sink, 0)
  BY <1>1, <1>3, TmacAssumption DEF Followed
<1>7. ASSUME NEW n \in Node PROVE ScheduleInv(n)
  <2>1. CASE par.synced
    BY <1>1, <1>3, <1>6, <2>1 DEF ScheduleInv
  <2>2. CASE ~par.synced
    BY <1>1, <1>3, <2>2 DEF ScheduleInv
  <2> QED
    BY <2>1, <2>2
<1>8. SchedulesInv
  BY <1>1, <1>2, <1>7 DEF SchedulesInv
<1> QED
  BY <1>5, <1>8

\* The invariants of packets and schedules hold of every behaviour of TMAC.
THEOREM LinkInductive == Spec => [](LinkInv /\ SchedulesInv)
<1>1. IInv /\ LinkInv /\ SchedulesInv /\ [Next]_vars => (LinkInv /\ SchedulesInv)'
  BY StepDone, StutterDone DEF Done
<1> QED
  BY <1>1, InitLink, Inductive, PTL DEF Spec

\* TMAC keeps the promise of a link, whatever frames are lost or overheard and
\* whenever the timers fire: each packet is passed up at most once, in the order
\* it was handed down and only where it was sent, and an ACK that takes a packet
\* from the buffer is always one for a packet its addressee has passed up.
THEOREM ImplementsLink == Spec => KeepsPromise
<1>1. Init => LinkLayer!Init
  BY DEF Init, LinkLayer!Init
<1>2. IInv /\ LinkInv /\ SchedulesInv /\ [Next]_vars => [LinkLayer!Next]_(LinkLayer!vars)
  BY StepDone, StutterDone DEF Done, LinkStep, Unseen, LinkLayer!vars
<1> QED
  BY <1>1, <1>2, LinkInductive, Inductive, PTL DEF Spec, KeepsPromise, LinkLayer!Spec

\* A unicast packet leaves the buffer acknowledged or after maxTxRetries attempts
\* of its own: no timeout, busy channel or frame of others makes the node drop it
\* while retries are left.
THEOREM GivesUpLate == Spec => NotGivenUpEarly
<1>1. IInv /\ LinkInv /\ SchedulesInv /\ [Next]_vars =>
        [\A n \in Node :
           LET b == mac[n].TXBuffer
           IN  b # <<>> /\ (mac'[n].TXBuffer = <<>> \/ Head(mac'[n].TXBuffer) # Head(b)) =>
                  \/ Head(b).dst = BROADCAST
                  \/ mac[n].tried = maxTxRetries
                  \/ Head(b).sn \in acked'[n]]_vars
  BY StepDone DEF Done, Kept
<1> QED
  BY <1>1, LinkInductive, Inductive, PTL DEF Spec, NotGivenUpEarly

\* Every schedule a node knows is one its author has, at least as new: a SYNC
\* frame late, lost or sent with an old number never puts a node ahead.
THEOREM AuthorsAreAhead == Spec => []SchedulesFollowAuthor
<1>1. IInv /\ SchedulesInv => SchedulesFollowAuthor
  <2> SUFFICES ASSUME IInv, SchedulesInv, NEW n \in Node, NEW i \in DOMAIN mac[n].scheduleTable
               PROVE  LET e == mac[n].scheduleTable[i]
                      IN  /\ Known(mac[n], e.ID) = {i}
                          /\ \E j \in Known(mac[e.ID], e.ID) :
                                e.SN <= mac[e.ID].scheduleTable[j].SN
    BY DEF SchedulesFollowAuthor
  <2>1. ScheduleInv(n)
    BY DEF SchedulesInv
  <2> QED
    BY <2>1 DEF ScheduleInv, Known, Followed
<1> QED
  BY <1>1, LinkInductive, Inductive, PTL

-----------------------------------------------------------------------------
(* The bounds of TypeOK: retries are counted from maxTxRetries down to zero    *)
(* and no further, and no schedule is renewed beyond the bound of the model.   *)

\* A node's counters, buffer and schedules are within bounds.
Bounds(s) ==
    /\ s.txRetries \in 0..maxTxRetries /\ s.tried \in 0..maxTxRetries
    /\ Len(s.TXBuffer) <= macBufferSize
    /\ s.syncPacket.SN <= par.maxSN
    /\ \A i \in DOMAIN s.scheduleTable : s.scheduleTable[i].SN <= par.maxSN

\* From s to t nothing that has a bound is touched.
Same(s, t) ==
    /\ t.TXBuffer = s.TXBuffer /\ t.txRetries = s.txRetries /\ t.tried = s.tried
    /\ t.syncPacket = s.syncPacket /\ t.scheduleTable = s.scheduleTable

\* Neither is the bound then lost.
LEMMA SameBounds ==
    ASSUME NEW s, NEW t, Same(s, t), Bounds(s)
    PROVE  Bounds(t)
BY DEF Same, Bounds

\* What comes after nothing is all there is.
LEMMA SameSame ==
    ASSUME NEW s, NEW t, NEW u, Same(s, t), Same(t, u)
    PROVE  Same(s, u)
BY DEF Same

\* Timers and states have nothing to do with bounds.
LEMMA HelpersSame ==
    ASSUME NEW s, s \in NodeState, NEW x, NEW st
    PROVE  /\ Same(s, s) /\ Same(s, Arm(s, x)) /\ Same(s, Cancel(s, x))
           /\ Same(s, extendActivePeriod(s)) /\ Same(s, Asleep(s))
           /\ Same(s, setMacState(s, st)) /\ Same(s, Wait(s, st))
           /\ Same(s, performCarrierSense(s, st))
BY DEF Same, Arm, Cancel, extendActivePeriod, Asleep, setMacState, Wait,
       performCarrierSense, NodeState

\* Nor have the flags.
LEMMA FlagsSame ==
    ASSUME NEW s, s \in NodeState, NEW a, NEW p, NEW q, NEW r
    PROVE  /\ Same(s, [s EXCEPT !.awake = a]) /\ Same(s, [s EXCEPT !.primaryWakeup = p])
           /\ Same(s, [s EXCEPT !.needResync = r])
           /\ Same(s, [s EXCEPT !.primaryWakeup = p, !.shifted = q,
                                !.needResync = r, !.awake = a])
BY DEF Same, NodeState

\* popTxBuffer makes the buffer shorter and gives all retries to what is next.
LEMMA PopBounds ==
    ASSUME NEW s, Base(s), Bounds(s), s.TXBuffer # <<>>
    PROVE  Bounds(popTxBuffer(s))
<1> DEFINE t == popTxBuffer(s)
<1>1. s.TXBuffer \in Seq(Packet) /\ maxTxRetries \in Nat /\ macBufferSize \in Nat
  BY TmacAssumption DEF Base, NodeState
<1>2. Len(Tail(s.TXBuffer)) <= Len(s.TXBuffer) /\ Len(Tail(s.TXBuffer)) \in Nat
  BY <1>1, HeadTailProperties
<1>3. /\ t.TXBuffer = Tail(s.TXBuffer) /\ t.syncPacket = s.syncPacket
      /\ t.scheduleTable = s.scheduleTable
      /\ t.txRetries \in {s.txRetries, maxTxRetries} /\ t.tried \in {s.tried, 0}
  BY DEF popTxBuffer, checkTxBuffer, Base, NodeState
<1> HIDE DEF t
<1>4. Len(s.TXBuffer) \in Nat
  BY <1>1
<1>5. Len(t.TXBuffer) <= macBufferSize
  BY <1>1, <1>2, <1>3, <1>4 DEF Bounds
<1> QED
  BY <1>1, <1>3, <1>5 DEF t, Bounds

\* resetDefaultState at most gives a packet up.
LEMMA ResetBounds ==
    ASSUME NEW s, Base(s), Bounds(s)
    PROVE  Bounds(resetDefaultState(s))
<1>1. s \in NodeState /\ s.scheduleTable \in Seq(Entry)
  BY DEF Base, NodeState
<1>2. CASE "CHECK_TA" \notin s.timers \/ ("CHECK_TA" \in s.timers /\ ~s.primaryWakeup)
  <2>1. \/ resetDefaultState(s) = Asleep(s)
        \/ resetDefaultState(s) = performCarrierSense(s, "CS_BEFORE_SLEEP")
        \/ resetDefaultState(s) = setMacState(s, "ACTIVE_SILENT")
    BY <1>2 DEF resetDefaultState
  <2> QED
    BY <1>1, <2>1, HelpersSame, SameBounds
<1>3. CASE "CHECK_TA" \in s.timers /\ s.primaryWakeup /\ s.needResync
  <2> DEFINE p == performCarrierSense(s, "CS_SYNC")
             t == [p EXCEPT !.syncPacket = s.scheduleTable[1]]
  <2>1. resetDefaultState(s) = t
    BY <1>3 DEF resetDefaultState
  <2>2. 1 \in DOMAIN s.scheduleTable
    BY <1>1, <1>3 DEF Base
  <2>3. /\ t.TXBuffer = s.TXBuffer /\ t.txRetries = s.txRetries /\ t.tried = s.tried
        /\ t.scheduleTable = s.scheduleTable /\ t.syncPacket = s.scheduleTable[1]
    BY <1>1 DEF performCarrierSense, setMacState, Arm, NodeState
  <2> HIDE DEF t
  <2> QED
    BY <2>1, <2>2, <2>3 DEF Bounds
<1>4. CASE "CHECK_TA" \in s.timers /\ s.primaryWakeup /\ ~s.needResync
  <2> DEFINE g == GiveUp(s)
  <2>1. resetDefaultState(s) = Contend(g)
    BY <1>4 DEF resetDefaultState
  <2>2. Base(g) /\ g \in NodeState
    BY GiveUpOK DEF Base
  <2>3. Bounds(g)
    BY PopBounds DEF GiveUp
  <2> HIDE DEF g
  <2>4. \/ Contend(g) = setMacState(g, "ACTIVE")
        \/ \E st \in {"CS_RTS", "CS_DATA"} : Contend(g) = performCarrierSense(g, st)
    BY DEF Contend
  <2> QED
    BY <2>1, <2>2, <2>3, <2>4, HelpersSame, SameBounds
<1>5. s.primaryWakeup \in BOOLEAN /\ s.needResync \in BOOLEAN
  BY <1>1 DEF NodeState
<1> QED
  BY <1>2, <1>3, <1>4, <1>5

\* A busy channel keeps to the bounds.
LEMMA BusyBounds ==
    ASSUME NEW s, Base(s), Bounds(s)
    PROVE  Bounds(carrierIsBusy(s))
<1> DEFINE t == IF par.disableTAextension THEN s ELSE extendActivePeriod(s)
<1>1. Base(t) /\ Same(s, t)
  BY ArmOK, HelpersSame DEF extendActivePeriod, Timer, Base
<1> HIDE DEF t
<1>2. carrierIsBusy(s) \in {s, t, resetDefaultState(t), setMacState(t, "ACTIVE_SILENT")}
  BY DEF carrierIsBusy, t
<1>3. Bounds(t) /\ t \in NodeState
  BY <1>1, SameBounds DEF Base
<1>4. Bounds(setMacState(t, "ACTIVE_SILENT"))
  BY <1>3, HelpersSame, SameBounds
<1> QED
  BY <1>1, <1>2, <1>3, <1>4, ResetBounds

\* An attempt takes one of the retries that are left.
LEMMA AttemptBounds ==
    ASSUME NEW s, Base(s), Bounds(s), s.TXBuffer # <<>>, s.txRetries > 0
    PROVE  Bounds(Attempt(s))
<1> DEFINE t == Attempt(s)
<1>1. /\ t.TXBuffer = s.TXBuffer /\ t.syncPacket = s.syncPacket
      /\ t.scheduleTable = s.scheduleTable
      /\ t.txRetries = s.txRetries - 1 /\ t.tried = s.tried + 1
  BY DEF Attempt, Base, NodeState
<1>2. s.tried + s.txRetries = maxTxRetries /\ maxTxRetries \in Nat
  BY TmacAssumption DEF Base
<1> HIDE DEF t
<1> QED
  BY <1>1, <1>2 DEF Bounds, t

\* sendDataPacket counts an attempt, unless the RTS was it.
LEMMA SendDataBounds ==
    ASSUME NEW s, Base(s), Bounds(s), s.TXBuffer # <<>>, par.useRtsCts \/ s.txRetries > 0
    PROVE  Bounds(sendDataPacket(s))
<1>1. CASE s.txAddr = BROADCAST
  <2> DEFINE p == popTxBuffer(s)
             w == Wait(p, "IN_TX")
  <2>1. sendDataPacket(s) = extendActivePeriod(w)
    BY <1>1 DEF sendDataPacket
  <2>2. Base(p) /\ Bounds(p)
    BY PopOK, PopBounds
  <2> HIDE DEF p
  <2>3. w \in NodeState /\ Bounds(w)
    BY <2>2, WaitOK, HelpersSame, SameBounds DEF Waiting, Driven, Base
  <2> HIDE DEF w
  <2> QED
    BY <2>1, <2>3, HelpersSame, SameBounds
<1>2. CASE s.txAddr # BROADCAST
  <2> DEFINE w == Wait(s, "WAIT_FOR_ACK")
             t == IF par.useRtsCts THEN w ELSE Attempt(w)
  <2>1. sendDataPacket(s) = extendActivePeriod(t)
    BY <1>2 DEF sendDataPacket, Attempt
  <2>2. Base(w) /\ Same(s, w)
    BY WaitOK, HelpersSame DEF Waiting, Driven, Base
  <2> HIDE DEF w
  <2>3. Base(t) /\ Bounds(t)
    <3>1. Bounds(w) /\ w.TXBuffer # <<>> /\ w.txRetries = s.txRetries
      BY <2>2, SameBounds DEF Same
    <3> QED
      BY <2>2, <3>1, AttemptOK, AttemptBounds
  <2> HIDE DEF t
  <2> QED
    BY <2>1, <2>3, HelpersSame, SameBounds DEF Base
<1> QED
  BY <1>1, <1>2

\* A schedule with a number in bounds is added.
LEMMA NewBounds ==
    ASSUME NEW s, Good(s), Bounds(s), NEW id \in Node, NEW sn \in Nat, sn <= par.maxSN
    PROVE  Bounds(NewSchedule(s, id, sn))
<1> DEFINE e == [ID |-> id, SN |-> sn]
           c == Append(s.scheduleTable, e)
           t == [s EXCEPT !.scheduleTable = Append(@, e)]
           v == NewSchedule(s, id, sn)
<1>1. s \in NodeState /\ s.scheduleTable \in Seq(Entry) /\ e \in Entry /\ e.SN = sn
  BY DEF Good, Driven, Base, NodeState, Entry
<1> HIDE DEF e
<1>2. c \in Seq(Entry) /\ c # <<>>
  BY <1>1, AppendProperties
<1>3. \A i \in DOMAIN c : c[i].SN <= par.maxSN
  <2>1. \A i \in DOMAIN c : c[i] = e \/ (i \in DOMAIN s.scheduleTable /\ c[i] = s.scheduleTable[i])
    BY <1>1, AppendProperties
  <2> QED
    BY <1>1, <2>1 DEF Bounds
<1>4. CASE s.scheduleTable # <<>>
  <2>1. v = t
    BY <1>4 DEF NewSchedule, e
  <2> HIDE DEF v
  <2>2. /\ t.scheduleTable = c /\ t.syncPacket = s.syncPacket /\ t.TXBuffer = s.TXBuffer
        /\ t.txRetries = s.txRetries /\ t.tried = s.tried
    BY <1>1 DEF NodeState
  <2> HIDE DEF t, c
  <2> QED
    BY <1>3, <2>1, <2>2 DEF Bounds, v
<1>5. CASE s.scheduleTable = <<>>
  <2> DEFINE u == [s EXCEPT !.scheduleTable = c,
                            !.timers = s.timers \cup {"CHECK_TA", "FRAME_START"},
                            !.needResync = TRUE, !.primaryWakeup = TRUE]
  <2>1. v = resetDefaultState(u)
    <3>1. [Arm(extendActivePeriod(t), "FRAME_START")
              EXCEPT !.needResync = TRUE, !.primaryWakeup = TRUE] = u
      BY <1>1 DEF Arm, extendActivePeriod, NodeState
    <3> QED
      BY <3>1, <1>5 DEF NewSchedule, e
  <2> HIDE DEF c, v
  <2>2. /\ Base(u) /\ u.scheduleTable = c /\ u.syncPacket = s.syncPacket
        /\ u.TXBuffer = s.TXBuffer /\ u.txRetries = s.txRetries /\ u.tried = s.tried
    BY <1>1, <1>2 DEF Good, Driven, Base, NodeState, Timer
  <2> HIDE DEF u
  <2>3. Bounds(u)
    BY <1>3, <2>2 DEF Bounds
  <2> QED
    BY <2>1, <2>2, <2>3, ResetBounds DEF v
<1> QED
  BY <1>4, <1>5

\* An entry is given a number in bounds.
LEMMA EntryBounds ==
    ASSUME NEW s, s \in NodeState, Bounds(s), NEW i \in DOMAIN s.scheduleTable,
           NEW sn \in Nat, sn <= par.maxSN, NEW b, NEW r
    PROVE  /\ Bounds([s EXCEPT !.scheduleTable[i].SN = sn, !.shifted = b])
           /\ Bounds([s EXCEPT !.scheduleTable[i].SN = sn, !.needResync = r])
<1> DEFINE tab == [s.scheduleTable EXCEPT ![i].SN = sn]
<1>1. s.scheduleTable \in Seq(Entry)
  BY DEF NodeState
<1>2. /\ DOMAIN tab = DOMAIN s.scheduleTable
      /\ \A j \in DOMAIN tab : j # i => tab[j] = s.scheduleTable[j]
      /\ tab[i].SN = sn
  <2>1. \A j \in DOMAIN s.scheduleTable : s.scheduleTable[j] \in Entry
    BY <1>1
  <2> QED
    BY <1>1, <2>1 DEF Entry
<1> HIDE DEF tab
<1>3. \A j \in DOMAIN tab : tab[j].SN <= par.maxSN
  BY <1>2 DEF Bounds
<1>4. ASSUME NEW t, /\ t.TXBuffer = s.TXBuffer /\ t.txRetries = s.txRetries
                    /\ t.tried = s.tried /\ t.syncPacket = s.syncPacket
                    /\ t.scheduleTable = tab
      PROVE  Bounds(t)
  BY <1>3, <1>4 DEF Bounds
<1>5. Bounds([s EXCEPT !.scheduleTable = tab, !.shifted = b])
  <2> DEFINE t == [s EXCEPT !.scheduleTable = tab, !.shifted = b]
  <2>1. /\ t.TXBuffer = s.TXBuffer /\ t.txRetries = s.txRetries /\ t.tried = s.tried
        /\ t.syncPacket = s.syncPacket /\ t.scheduleTable = tab
    BY DEF NodeState
  <2> HIDE DEF t
  <2> QED
    BY <1>4, <2>1 DEF t
<1>6. Bounds([s EXCEPT !.scheduleTable = tab, !.needResync = r])
  <2> DEFINE t == [s EXCEPT !.scheduleTable = tab, !.needResync = r]
  <2>1. /\ t.TXBuffer = s.TXBuffer /\ t.txRetries = s.txRetries /\ t.tried = s.tried
        /\ t.syncPacket = s.syncPacket /\ t.scheduleTable = tab
    BY DEF NodeState
  <2> HIDE DEF t
  <2> QED
    BY <1>4, <2>1 DEF t
<1> QED
  BY <1>5, <1>6 DEF tab

-----------------------------------------------------------------------------
(* Every step keeps to the bounds. *)

\* All nodes are within bounds,
AllBounds == \A n \in Node : Bounds(mac[n])

\* so is the news on its way,
NewsBounds == \A m, n \in Node : air[m][n].type = "SYNC" => air[m][n].sn <= par.maxSN

\* the packets a source has sent, and what it takes for acknowledged.
HandedBounds ==
    \A n \in Node : Len(sent[n]) <= par.maxPackets /\ acked[n] \subseteq DOMAIN sent[n]

\* n moves and stays within bounds.
Bounded(n) == \E t : Becomes(n, t) /\ Bounds(t)

\* A node that moves within bounds leaves all within bounds.
LEMMA BoundedAll ==
    ASSUME IInv, AllBounds, NEW n \in Node, Bounded(n), par' = par
    PROVE  AllBounds'
<1>1. PICK t : Becomes(n, t) /\ Bounds(t)
  BY DEF Bounded
<1>2. \A a \in Node : mac'[a] = IF a = n THEN t ELSE mac[a]
  BY <1>1 DEF IInv, MacInv, Becomes
<1>3. ASSUME NEW a \in Node PROVE Bounds(mac'[a])
  BY <1>1, <1>2 DEF AllBounds
<1> QED
  BY <1>3 DEF AllBounds, Bounds

\* The timers.
LEMMA TimersBounded ==
    ASSUME IInv, AllBounds, NEW n \in Node,
           \/ SyncSetup(n) \/ SyncCreate(n) \/ SyncRenew(n) \/ FrameStart(n) \/ Wakeup(n)
           \/ CheckTA(n) \/ TransmissionTimeout(n)
    PROVE  Bounded(n)
<1> DEFINE s == mac[n]
<1>1. Good(s) /\ Base(s) /\ s \in NodeState /\ Bounds(s)
  BY DEF IInv, MacInv, Good, Driven, Base, AllBounds
<1>2. ASSUME NEW x \in Timer \ {"FRAME_START"}
      PROVE  Bounds(Cancel(s, x)) /\ Base(Cancel(s, x)) /\ Cancel(s, x) \in NodeState
  BY <1>1, HelpersSame, SameBounds, CancelOK DEF Base
<1>3. CASE SyncSetup(n)
  <2> DEFINE t == Cancel(s, "SYNC_SETUP")
  <2>1. Bounds(t) /\ t \in NodeState
    BY <1>2 DEF Timer
  <2>2. \E u \in {t, Arm(t, "SYNC_CREATE")} : Becomes(n, u)
    BY <1>3 DEF SyncSetup, After
  <2> HIDE DEF t
  <2> QED
    BY <2>1, <2>2, HelpersSame, SameBounds DEF Bounded
<1>4. CASE SyncCreate(n)
  <2> DEFINE c == Cancel(s, "SYNC_CREATE")
             v == NewSchedule(c, n, 0)
  <2>1. Bounds(c) /\ Good(c)
    BY <1>1, <1>2, DropOK DEF Timer
  <2>2. \E u \in {c, Arm(v, "SYNC_RENEW")} : Becomes(n, u)
    BY <1>4 DEF SyncCreate, After
  <2> HIDE DEF c
  <2>3. 0 <= par.maxSN
    BY TmacAssumption DEF IInv, Parameters
  <2>4. v \in NodeState /\ Bounds(v)
    BY <2>1, <2>3, NewBounds, NewScheduleOK DEF Good, Driven, Base
  <2> HIDE DEF v
  <2> QED
    BY <2>1, <2>2, <2>4, HelpersSame, SameBounds DEF Bounded
<1>5. CASE SyncRenew(n)
  <2> DEFINE k == s.scheduleTable[1].SN + 1
  <2>1. Becomes(n, [s EXCEPT !.scheduleTable[1].SN = k, !.needResync = TRUE])
    BY <1>5 DEF SyncRenew
  <2>2. s.scheduleTable \in Seq(Entry) /\ s.scheduleTable # <<>>
    BY <1>1, <1>5 DEF SyncRenew, Fires, Base, NodeState
  <2>3. 1 \in DOMAIN s.scheduleTable /\ s.scheduleTable[1] \in Entry
    BY <2>2
  <2>4. k \in Nat /\ k <= par.maxSN
    <3>1. s.scheduleTable[1].SN \in Nat /\ par.maxSN \in Nat
      BY <2>3, TmacAssumption DEF Entry, IInv, Parameters
    <3> QED
      BY <1>5, <3>1 DEF SyncRenew
  <2> HIDE DEF k
  <2> QED
    BY <1>1, <2>1, <2>3, <2>4, EntryBounds DEF Bounded
<1>6. CASE FrameStart(n)
  <2> DEFINE r == s.needResync \/ s.shifted
             b == s.awake \/ s.macState = "SLEEP"
             e == extendActivePeriod(s)
             u == [e EXCEPT !.primaryWakeup = TRUE, !.shifted = FALSE,
                            !.needResync = r, !.awake = b]
             t == IF Len(u.scheduleTable) > 1 THEN Arm(u, "WAKEUP_SILENT") ELSE u
  <2>1. e.needResync = s.needResync /\ e.awake = s.awake /\ "FRAME_START" \in s.timers
    BY <1>1, <1>6 DEF FrameStart, Fires, extendActivePeriod, Arm, NodeState
  <2>2. \E w \in {resetDefaultState(t), t} : Becomes(n, w)
    BY <1>6, <2>1 DEF FrameStart
  <2>3. r \in BOOLEAN /\ b \in BOOLEAN
    BY <1>1 DEF NodeState
  <2> HIDE DEF r, b
  <2>4. Same(s, e) /\ e \in NodeState
    BY <1>1, HelpersSame, ArmOK DEF extendActivePeriod, Base, Timer
  <2>5. Good(u)
    BY <1>1, <2>1, <2>3, FrameStartOK
  <2> HIDE DEF e
  <2>6. Same(s, u)
    BY <2>4, FlagsSame, SameSame
  <2> HIDE DEF u
  <2>7. Base(t) /\ Same(s, t)
    BY <2>5, <2>6, ArmOK, HelpersSame, SameSame DEF Good, Driven, Base, Timer
  <2> HIDE DEF t
  <2>8. Bounds(t)
    BY <1>1, <2>7, SameBounds
  <2> QED
    BY <2>2, <2>7, <2>8, ResetBounds DEF Bounded
<1>7. CASE Wakeup(n)
  <2>1. PICK c \in {Cancel(s, "WAKEUP_SILENT"), s} :
           LET t == extendActivePeriod(c)
           IN  Becomes(n, IF t.macState = "SLEEP"
                          THEN resetDefaultState([t EXCEPT !.awake = TRUE]) ELSE t)
    BY <1>7 DEF Wakeup, After
  <2> DEFINE t == extendActivePeriod(c)
             u == [t EXCEPT !.awake = TRUE]
  <2>2. Bounds(c) /\ Base(c)
    BY <1>1, <1>2 DEF Timer
  <2>3. Bounds(t) /\ Base(t)
    BY <2>2, HelpersSame, SameBounds, ArmOK DEF extendActivePeriod, Base, Timer
  <2>4. \E w \in {resetDefaultState(u), t} : Becomes(n, w)
    BY <2>1
  <2> HIDE DEF t
  <2>5. Bounds(u)
    BY <2>3, FlagsSame, SameBounds DEF Base
  <2>6. Base(u)
    BY <2>3 DEF Base, NodeState
  <2> HIDE DEF u
  <2> QED
    BY <2>3, <2>4, <2>5, <2>6, ResetBounds DEF Bounded
<1>8. CASE CheckTA(n)
  <2> DEFINE c == Cancel(s, "CHECK_TA")
  <2>1. \E w \in {[Asleep(c) EXCEPT !.primaryWakeup = FALSE],
                  performCarrierSense(c, "CS_BEFORE_SLEEP"), extendActivePeriod(c)} :
           Becomes(n, w)
    BY <1>8 DEF CheckTA, After
  <2>2. Bounds(c) /\ Base(c) /\ c \in NodeState
    BY <1>2 DEF Timer
  <2> HIDE DEF c
  <2>3. /\ Bounds(performCarrierSense(c, "CS_BEFORE_SLEEP")) /\ Bounds(Asleep(c))
        /\ Bounds(extendActivePeriod(c)) /\ Asleep(c) \in NodeState
    BY <2>2, HelpersSame, SameBounds, AsleepOK DEF Good, Driven, Base
  <2>4. Bounds([Asleep(c) EXCEPT !.primaryWakeup = FALSE])
    BY <2>3, FlagsSame, SameBounds
  <2> QED
    BY <2>1, <2>3, <2>4 DEF Bounded
<1>9. CASE TransmissionTimeout(n)
  <2>1. Bounds(resetDefaultState(Cancel(s, "TRANSMISSION_TIMEOUT")))
    BY <1>2, ResetBounds DEF Timer
  <2> QED
    BY <1>9, <2>1 DEF TransmissionTimeout, After, Bounded
<1> QED
  BY <1>3, <1>4, <1>5, <1>6, <1>7, <1>8, <1>9

\* The answers to a carrier sense: a new attempt finds a retry left.
LEMMA SenseBounded ==
    ASSUME IInv, LinkInv, AllBounds, NEW n \in Node, Sense(n) \/ CarrierInterrupt(n)
    PROVE  Bounded(n)
<1> DEFINE s == mac[n]
           t == Cancel(s, "CARRIER_SENSE")
<1>1. Good(s) /\ Base(s) /\ s \in NodeState /\ Bounds(s)
  BY DEF IInv, MacInv, Good, Driven, Base, AllBounds
<1>2. Same(s, t) /\ Base(t) /\ t \in NodeState /\ Bounds(t)
  BY <1>1, HelpersSame, SameBounds, CancelOK DEF Base, Timer
<1>3. t = After(n, "CARRIER_SENSE")
  BY DEF After
<1> HIDE DEF t
<1>4. CASE SenseInVain(n)
  BY <1>2, <1>3, <1>4 DEF SenseInVain, Bounded
<1>5. CASE SenseNotValid(n)
  <2>1. Bounds([s EXCEPT !.awake = TRUE])
    BY <1>1, FlagsSame, SameBounds
  <2> QED
    BY <1>5, <2>1 DEF SenseNotValid, Bounded
<1>6. CASE SenseBusy(n) \/ CarrierInterrupt(n)
  BY <1>1, <1>2, <1>3, <1>6, BusyBounds DEF SenseBusy, CarrierInterrupt, Bounded
<1>7. CASE SendRTS(n)
  <2> DEFINE w == Wait(t, "WAIT_FOR_CTS")
             u == Attempt(w)
  <2>1. s.macState = "CS_RTS" /\ Becomes(n, u)
    BY <1>3, <1>7 DEF SendRTS, Clear, Senses, Attempt
  <2>2. s.TXBuffer # <<>> /\ s.txRetries > 0
    BY <1>1, <2>1 DEF Good, Driven, Contending, LinkInv, RetriesInv, Counted
  <2>3. t.TXBuffer # <<>> /\ t.txRetries > 0
    BY <1>2, <2>2 DEF Same
  <2>4. Base(w) /\ Same(t, w)
    BY <1>2, <2>3, WaitOK, HelpersSame DEF Waiting, Driven
  <2> HIDE DEF w
  <2>5. Bounds(w) /\ w.TXBuffer # <<>> /\ w.txRetries > 0
    BY <1>2, <2>3, <2>4, SameBounds DEF Same
  <2> QED
    BY <2>1, <2>4, <2>5, AttemptBounds DEF Bounded
<1>8. CASE SendSYNC(n)
  <2> DEFINE w == Wait(t, "IN_TX")
             u == [w EXCEPT !.needResync = FALSE]
  <2>1. Becomes(n, u)
    BY <1>3, <1>8 DEF SendSYNC
  <2>2. w \in NodeState /\ Bounds(w)
    BY <1>2, WaitOK, HelpersSame, SameBounds DEF Driven, Base, Waiting
  <2> HIDE DEF w
  <2> QED
    BY <2>1, <2>2, FlagsSame, SameBounds DEF Bounded
<1>9. CASE SendDATA(n)
  <2>1. s.macState = "CS_DATA" /\ Becomes(n, sendDataPacket(t))
    BY <1>3, <1>9 DEF SendDATA, Clear, Senses
  <2>2. s.TXBuffer # <<>> /\ (par.useRtsCts \/ s.txRetries > 0)
    BY <1>1, <2>1 DEF Good, Driven, Contending, LinkInv, RetriesInv, Counted
  <2>3. t.TXBuffer # <<>> /\ (par.useRtsCts \/ t.txRetries > 0)
    BY <1>2, <2>2 DEF Same
  <2> QED
    BY <1>2, <2>1, <2>3, SendDataBounds DEF Bounded
<1>10. CASE GoToSleep(n)
  <2> DEFINE u == [Asleep(t) EXCEPT !.primaryWakeup = FALSE]
  <2>1. Becomes(n, u)
    BY <1>3, <1>10 DEF GoToSleep
  <2>2. Bounds(Asleep(t)) /\ Asleep(t) \in NodeState
    BY <1>2, HelpersSame, SameBounds, AsleepOK DEF Good, Driven, Base
  <2>3. Bounds(u)
    BY <2>2, FlagsSame, SameBounds
  <2> QED
    BY <2>1, <2>3 DEF Bounded
<1> QED
  BY <1>4, <1>5, <1>6, <1>7, <1>8, <1>9, <1>10 DEF Sense, SenseClear

\* What arrives.
LEMMA ReceiveBounded ==
    ASSUME IInv, LinkInv, AllBounds, NewsBounds, NEW m \in Node, NEW n \in Node, Receive(m, n)
    PROVE  Bounded(n)
<1> DEFINE s == mac[n]
           e == extendActivePeriod(s)
           c == Cancel(s, "TRANSMISSION_TIMEOUT")
<1>1. Good(s) /\ Base(s) /\ s \in NodeState /\ Bounds(s) /\ mac = [mac EXCEPT ![n] = s]
  BY DEF IInv, MacInv, Good, Driven, Base, AllBounds
<1>2. Bounds(e) /\ e \in NodeState
  BY <1>1, HelpersSame, SameBounds, ArmOK DEF extendActivePeriod, Base, Timer
<1>3. Bounds(c) /\ Base(c) /\ Same(s, c)
  BY <1>1, HelpersSame, SameBounds, CancelOK DEF Timer
<1> HIDE DEF c
<1>4. CASE Overhear(m, n)
  <2> DEFINE u == setMacState(e, "ACTIVE_SILENT")
  <2>1. \E w \in {Arm(u, "TRANSMISSION_TIMEOUT"), u} : Becomes(n, w)
    BY <1>4 DEF Overhear
  <2> HIDE DEF e
  <2>2. Bounds(u)
    BY <1>2, HelpersSame, SameBounds
  <2>3. u \in NodeState
    BY <1>2 DEF setMacState, NodeState, MacState
  <2> HIDE DEF u
  <2> QED
    BY <2>1, <2>2, <2>3, HelpersSame, SameBounds DEF Bounded
<1>5. CASE ReceiveRTS(m, n)
  BY <1>1, <1>5, HelpersSame, SameBounds DEF ReceiveRTS, Bounded
<1>6. CASE ReceiveDATA(m, n)
  <2>1. mac' = mac \/ Becomes(n, Wait(e, "IN_TX"))
    BY <1>6 DEF ReceiveDATA
  <2> HIDE DEF e
  <2>2. Bounds(Wait(e, "IN_TX"))
    BY <1>2, HelpersSame, SameBounds
  <2> QED
    BY <1>1, <2>1, <2>2 DEF Bounded, Becomes
<1>7. CASE ReceiveCTS(m, n)
  <2>1. CASE s.macState = "WAIT_FOR_CTS" /\ s.txAddr = m
    <3>1. Becomes(n, sendDataPacket(c))
      BY <1>7, <2>1 DEF ReceiveCTS, c
    <3>2. s.TXBuffer # <<>> /\ par.useRtsCts
      BY <1>1, <2>1 DEF Good, Driven, Contending, LinkInv, RetriesInv, Counted
    <3>3. c.TXBuffer # <<>>
      BY <1>3, <3>2 DEF Same
    <3> QED
      BY <1>3, <3>1, <3>2, <3>3, SendDataBounds DEF Bounded
  <2>2. CASE ~(s.macState = "WAIT_FOR_CTS" /\ s.txAddr = m)
    <3>1. \E w \in {resetDefaultState(s), s} : Becomes(n, w)
      BY <1>7, <2>2 DEF ReceiveCTS
    <3> QED
      BY <1>1, <3>1, ResetBounds DEF Bounded
  <2> QED
    BY <2>1, <2>2
<1>8. CASE ReceiveACK(m, n)
  <2>1. mac' = mac \/ (s.macState = "WAIT_FOR_ACK"
                       /\ Becomes(n, resetDefaultState(popTxBuffer(c))))
    BY <1>8 DEF ReceiveACK, c
  <2>2. s.macState = "WAIT_FOR_ACK" => c.TXBuffer # <<>>
    BY <1>1, <1>3 DEF Good, Driven, Contending, Same
  <2>3. s.macState = "WAIT_FOR_ACK" => Bounds(resetDefaultState(popTxBuffer(c)))
    BY <1>3, <2>2, PopOK, PopBounds, ResetBounds
  <2> QED
    BY <1>1, <2>1, <2>3 DEF Bounded, Becomes
<1>9. CASE ReceiveSYNC(m, n)
  <2> DEFINE id == air[m][n].id
             sn == air[m][n].sn
  <2>1. /\ id \in Node /\ sn \in Nat /\ sn <= par.maxSN
        /\ \E t \in updateScheduleTable(s, id, sn) : Becomes(n, t)
    BY <1>9 DEF ReceiveSYNC, Arrives, IInv, AirInv, AnyFrame, NewsBounds
  <2> HIDE DEF id, sn
  <2>2. CASE Known(s, id) = {}
    BY <1>1, <2>1, <2>2, NewBounds DEF updateScheduleTable, Bounded
  <2>3. CASE Known(s, id) # {}
    <3> DEFINE i == CHOOSE j \in Known(s, id) : TRUE
    <3>1. i \in DOMAIN s.scheduleTable
      BY <2>3 DEF Known
    <3>2. \/ Becomes(n, s)
          \/ \E b \in BOOLEAN :
                Becomes(n, [s EXCEPT !.scheduleTable[i].SN = sn,
                                     !.shifted = IF i = 1 THEN b ELSE s.shifted])
      BY <2>1, <2>3 DEF updateScheduleTable
    <3> HIDE DEF i
    <3>3. ASSUME NEW b \in BOOLEAN
          PROVE  Bounds([s EXCEPT !.scheduleTable[i].SN = sn,
                                  !.shifted = IF i = 1 THEN b ELSE s.shifted])
      <4> DEFINE d == IF i = 1 THEN b ELSE s.shifted
      <4> HIDE DEF d
      <4>1. Bounds([s EXCEPT !.scheduleTable[i].SN = sn, !.shifted = d])
        BY <1>1, <2>1, <3>1, EntryBounds
      <4> QED
        BY <4>1 DEF d
    <3> QED
      BY <1>1, <3>2, <3>3 DEF Bounded
  <2> QED
    BY <2>2, <2>3
<1> QED
  BY <1>4, <1>5, <1>6, <1>7, <1>8, <1>9 DEF Receive

\* A packet is taken if there is room for it.
LEMMA NetworkBounded ==
    ASSUME IInv, AllBounds, NEW n \in Node, NEW d \in Address, FromNetworkLayer(n, d)
    PROVE  Bounded(n)
<1> DEFINE s == mac[n]
           p == [dst |-> d, sn |-> Len(sent[n]) + 1]
           q == Append(s.TXBuffer, p)
           t == [s EXCEPT !.TXBuffer = q]
<1>1. Base(s) /\ s \in NodeState /\ Bounds(s) /\ s.TXBuffer \in Seq(Packet)
  BY DEF IInv, MacInv, Good, Driven, Base, NodeState, AllBounds
<1>2. p \in Packet
  BY DEF IInv, Packet
<1>3. CASE Len(s.TXBuffer) >= macBufferSize
  BY <1>1, <1>3 DEF FromNetworkLayer, Bounded
<1>4. CASE ~(Len(s.TXBuffer) >= macBufferSize)
  <2>1. \E u \in {checkTxBuffer(t), t} : Becomes(n, u)
    BY <1>4 DEF FromNetworkLayer
  <2> HIDE DEF p
  <2>2. q # <<>> /\ Len(q) <= macBufferSize
    <3>1. /\ q # <<>> /\ Len(q) = Len(s.TXBuffer) + 1
          /\ Len(s.TXBuffer) \in Nat /\ macBufferSize \in Nat
      BY <1>1, <1>2, AppendProperties, TmacAssumption
    <3> HIDE DEF q
    <3> QED
      BY <1>4, <3>1
  <2> HIDE DEF q
  <2>3. ASSUME NEW u \in {checkTxBuffer(t), t}
        PROVE  /\ u.TXBuffer = q /\ u.syncPacket = s.syncPacket
               /\ u.scheduleTable = s.scheduleTable
               /\ u.txRetries \in {s.txRetries, maxTxRetries} /\ u.tried \in {s.tried, 0}
    BY <1>1, <2>2 DEF checkTxBuffer, NodeState
  <2> HIDE DEF t
  <2>4. ASSUME NEW u \in {checkTxBuffer(t), t} PROVE Bounds(u)
    <3>1. maxTxRetries \in Nat
      BY TmacAssumption
    <3>2. u.txRetries \in 0..maxTxRetries /\ u.tried \in 0..maxTxRetries
      BY <1>1, <2>3, <3>1 DEF Bounds
    <3>3. /\ u.TXBuffer = q /\ u.syncPacket.SN <= par.maxSN
          /\ \A i \in DOMAIN u.scheduleTable : u.scheduleTable[i].SN <= par.maxSN
      BY <1>1, <2>3 DEF Bounds
    <3> QED
      BY <2>2, <3>2, <3>3 DEF Bounds
  <2> QED
    BY <2>1, <2>4 DEF Bounded
<1> QED
  BY <1>3, <1>4

\* Without new SYNC frames the news stays within bounds.
LEMMA NoNewsBounds ==
    ASSUME NewsBounds, NoNew({"SYNC"}), par' = par
    PROVE  NewsBounds'
BY DEF NewsBounds, NoNew

\* Nor is there more handed down, or acknowledged, than before.
LEMMA SameHanded ==
    ASSUME HandedBounds, UNCHANGED <<par, sent, acked>>
    PROVE  HandedBounds'
BY DEF HandedBounds

\* The inductive invariant of the bounds: every node's, what is new, and what
\* was handed down or acknowledged.
BoundsInv == AllBounds /\ NewsBounds /\ HandedBounds

\* A timer puts no number on the air that is beyond the bound.
LEMMA TimersBounds ==
    ASSUME IInv, IInv', LinkInv, BoundsInv, NEW n \in Node, Timers(n)
    PROVE  BoundsInv'
<1>1. UNCHANGED <<par, sent, acked>>
  BY DEF Timers, Sense, SenseClear, SyncSetup, SyncCreate, SyncRenew, FrameStart, Wakeup,
         CheckTA, TransmissionTimeout, SenseInVain, SenseNotValid, SenseBusy,
         CarrierInterrupt, SendRTS, SendSYNC, SendDATA, GoToSleep, Clear
<1>2. Bounded(n)
  BY TimersBounded, SenseBounded DEF BoundsInv, Timers
<1>3. NewsBounds'
  <2>1. CASE UNCHANGED air
    BY <1>1, <2>1 DEF BoundsInv, NewsBounds
  <2>2. CASE SendRTS(n)
    <3> DEFINE f == Frame("RTS", mac[n].txAddr, 0)
    <3>1. air' = [air EXCEPT ![n] = Cast(n, f)]
      BY <2>2 DEF SendRTS
    <3>2. f \in AnyFrame /\ f.type = "RTS"
      BY FrameOK DEF IInv, MacInv, NodeState, Frame
    <3> HIDE DEF f
    <3>3. NoNew({"SYNC"})
      BY <3>1, <3>2, CastAir
    <3> QED
      BY <1>1, <3>3, NoNewsBounds DEF BoundsInv
  <2>3. CASE SendSYNC(n)
    <3> DEFINE p == mac[n].syncPacket
               f == [type |-> "SYNC", dst |-> BROADCAST, id |-> p.ID, sn |-> p.SN]
    <3>1. air' = [air EXCEPT ![n] = Cast(n, f)]
      BY <2>3 DEF SendSYNC
    <3>2. p \in Entry /\ p.SN <= par.maxSN
      BY DEF IInv, MacInv, NodeState, BoundsInv, AllBounds, Bounds
    <3>3. f \in AnyFrame /\ f.sn = p.SN
      BY <3>2 DEF AnyFrame, Address, Entry
    <3> HIDE DEF f, p
    <3>4. OnlyNew(n, f)
      BY <3>1, <3>3, CastAir
    <3>5. \A a, b \in Node : air'[a][b] \in {air[a][b], NoFrame, f}
      BY <3>4 DEF OnlyNew
    <3> QED
      BY <1>1, <3>2, <3>3, <3>5 DEF BoundsInv, NewsBounds, NoFrame
  <2>4. CASE SendDATA(n)
    <3>1. NoNew({"SYNC"})
      BY <2>4, SendDATAStep
    <3> QED
      BY <1>1, <3>1, NoNewsBounds DEF BoundsInv
  <2> QED
    BY <2>1, <2>2, <2>3, <2>4
       DEF Timers, Sense, SenseClear, SyncSetup, SyncCreate, SyncRenew, FrameStart, Wakeup,
           CheckTA, TransmissionTimeout, SenseInVain, SenseNotValid, SenseBusy,
           CarrierInterrupt, GoToSleep, BoundsInv
<1> QED
  BY <1>1, <1>2, <1>3, BoundedAll, SameHanded DEF BoundsInv

\* Nor does a frame that arrives; an ACK is for a packet that was sent.
LEMMA ReceiveBounds ==
    ASSUME IInv, IInv', LinkInv, BoundsInv, NEW m \in Node, NEW n \in Node, Receive(m, n)
    PROVE  BoundsInv'
<1>1. UNCHANGED <<par, sent>>
  BY DEF Receive, Overhear, ReceiveRTS, ReceiveCTS, ReceiveDATA, ReceiveACK, ReceiveSYNC,
         Arrives
<1>2. Bounded(n)
  BY ReceiveBounded DEF BoundsInv
<1>3. CASE ReceiveACK(m, n)
  <2>1. /\ NoNew({"SYNC"})
        /\ \/ acked' = acked
           \/ \E k \in DOMAIN sent[n] : acked' = [acked EXCEPT ![n] = @ \cup {k}]
    BY <1>3, ReceiveACKStep
  <2>2. acked \in [Node -> SUBSET Nat]
    BY DEF LinkInv
  <2>3. HandedBounds'
    BY <1>1, <2>1, <2>2 DEF BoundsInv, HandedBounds
  <2>4. NewsBounds'
    BY <1>1, <2>1, NoNewsBounds DEF BoundsInv
  <2> QED
    BY <1>1, <1>2, <2>3, <2>4, BoundedAll DEF BoundsInv
<1>4. CASE ~ReceiveACK(m, n)
  <2>1. acked' = acked
    BY <1>4 DEF Receive, Overhear, ReceiveRTS, ReceiveCTS, ReceiveDATA, ReceiveSYNC
  <2>2. NoNew({"SYNC"})
    <3>1. CASE Silently(m, n)
      BY <3>1, SilentAir
    <3>2. CASE ReceiveRTS(m, n)
      <4> DEFINE f == Frame("CTS", m, 0)
      <4>1. Replying(m, n, f)
        BY <3>2 DEF ReceiveRTS
      <4>2. f \in AnyFrame /\ f.type = "CTS" /\ m # n
        BY <3>2, FrameOK DEF Address, Frame, ReceiveRTS, Arrives, LinkInv, NoFrame
      <4> HIDE DEF f
      <4>3. NoNew({"SYNC"})
        BY <4>1, <4>2, CastAir
      <4> QED
        BY <4>3
    <3>3. CASE ReceiveCTS(m, n)
      <4>1. CASE mac[n].macState = "WAIT_FOR_CTS" /\ mac[n].txAddr = m
        BY <3>3, <4>1, ReceiveCTSStep
      <4>2. CASE ~(mac[n].macState = "WAIT_FOR_CTS" /\ mac[n].txAddr = m)
        BY <3>3, <4>2, SilentAir DEF ReceiveCTS
      <4> QED
        BY <4>1, <4>2
    <3>4. CASE ReceiveDATA(m, n)
      <4>1. OnlyNew(n, Frame("ACK", m, 0)) \/ \A a, b \in Node : air'[a][b] \in {air[a][b], NoFrame}
        BY <3>4, ReceiveDATAFacts
      <4>2. air[n][n] = NoFrame
        BY DEF LinkInv
      <4> QED
        BY <4>1, <4>2 DEF OnlyNew, NoNew, NoFrame, Frame
    <3> QED
      BY <1>4, <3>1, <3>2, <3>3, <3>4 DEF Receive, Overhear, ReceiveSYNC
  <2>3. NewsBounds'
    BY <1>1, <2>2, NoNewsBounds DEF BoundsInv
  <2> QED
    BY <1>1, <1>2, <2>1, <2>3, BoundedAll, SameHanded DEF BoundsInv
<1> QED
  BY <1>3, <1>4

\* Every step stays within the bounds.
LEMMA StepBounds ==
    ASSUME IInv, LinkInv, BoundsInv, [Next]_vars
    PROVE  BoundsInv'
<1>1. IInv'
  BY StepOK
<1>2. CASE UNCHANGED vars
  BY <1>2 DEF vars, BoundsInv, AllBounds, Bounds, NewsBounds, HandedBounds
<1>3. ASSUME NEW n \in Node, Timers(n) PROVE BoundsInv'
  BY <1>1, <1>3, TimersBounds
<1>4. ASSUME NEW n \in Node, NEW m \in Node, Receive(m, n) PROVE BoundsInv'
  BY <1>1, <1>4, ReceiveBounds
<1>5. ASSUME NEW n \in Node, NEW m \in Node, Lose(m, n) PROVE BoundsInv'
  <2>1. UNCHANGED <<par, mac, sent, acked>> /\ Silently(m, n)
    BY <1>5 DEF Lose
  <2>2. NoNew({"SYNC"})
    BY <2>1, SilentAir
  <2>3. AllBounds'
    BY <2>1 DEF BoundsInv, AllBounds, Bounds
  <2> QED
    BY <2>1, <2>2, <2>3, NoNewsBounds, SameHanded DEF BoundsInv
<1>6. ASSUME NEW n \in Node, NEW d \in Address, FromNetworkLayer(n, d) PROVE BoundsInv'
  <2>1. /\ Len(sent[n]) < par.maxPackets /\ sent' = [sent EXCEPT ![n] = Append(@, d)]
        /\ UNCHANGED <<par, air, acked>>
    BY <1>6 DEF FromNetworkLayer
  <2>2. Bounded(n)
    BY <1>6, NetworkBounded DEF BoundsInv
  <2>3. sent \in [Node -> Seq(Address)] /\ par.maxPackets \in Nat
    BY TmacAssumption DEF IInv, Parameters
  <2>4. ASSUME NEW a \in Node
        PROVE  Len(sent'[a]) <= par.maxPackets /\ acked[a] \subseteq DOMAIN sent'[a]
    <3>1. Len(sent[a]) <= par.maxPackets /\ acked[a] \subseteq DOMAIN sent[a] /\ sent[a] \in Seq(Address)
      BY <2>3 DEF BoundsInv, HandedBounds
    <3>2. CASE a # n
      BY <2>1, <3>1, <3>2
    <3>3. CASE a = n
      <4> DEFINE q == sent[a]
      <4>1. sent'[a] = Append(q, d) /\ q \in Seq(Address)
        BY <2>1, <2>3, <3>1, <3>3
      <4>2. /\ Len(q) < par.maxPackets /\ Len(q) \in Nat /\ acked[a] \subseteq DOMAIN q
        BY <2>1, <3>1, <3>3
      <4> HIDE DEF q
      <4>3. Len(Append(q, d)) = Len(q) + 1 /\ DOMAIN q \subseteq DOMAIN Append(q, d)
        BY <4>1, <4>2, AppendProperties
      <4> QED
        BY <2>3, <4>1, <4>2, <4>3
    <3> QED
      BY <3>2, <3>3
  <2>5. HandedBounds'
    BY <2>1, <2>4 DEF HandedBounds
  <2>6. NewsBounds'
    BY <2>1 DEF BoundsInv, NewsBounds
  <2> QED
    BY <2>1, <2>2, <2>5, <2>6, BoundedAll DEF BoundsInv
<1>7. ASSUME NEW n \in Node, NEW t \in par.traffic, FromNetworkLayer(n, t[2]) PROVE BoundsInv'
  <2>1. par.traffic \in SUBSET (Node \X Address)
    BY TmacAssumption DEF IInv, Parameters
  <2>2. t[2] \in Address
    BY <2>1
  <2> QED
    BY <1>6, <1>7, <2>2
<1> QED
  BY <1>2, <1>3, <1>4, <1>5, <1>7 DEF Next

\* The start is within bounds.
LEMMA InitBounds == Init => BoundsInv
<1> SUFFICES ASSUME Init PROVE BoundsInv
  OBVIOUS
<1>1. /\ mac = [n \in Node |-> Started(n)] /\ sent = [n \in Node |-> <<>>]
      /\ air = [n \in Node |-> [m \in Node |-> NoFrame]]
      /\ acked = [n \in Node |-> {}]
  BY DEF Init
<1>2. /\ par.maxSN \in Nat /\ par.maxPackets \in Nat
      /\ maxTxRetries \in Nat /\ macBufferSize \in Nat
  BY TmacAssumption DEF Init, Parameters
<1>3. ASSUME NEW n \in Node PROVE Bounds(Started(n))
  <2> DEFINE s == Started(n)
  <2>1. /\ s.txRetries = 0 /\ s.tried = 0 /\ s.TXBuffer = <<>> /\ s.syncPacket.SN = 0
        /\ s.scheduleTable = <<[ID |-> Sink, SN |-> 0]>> \/ s.scheduleTable = <<>>
    BY DEF Started
  <2>2. \A i \in DOMAIN s.scheduleTable : s.scheduleTable[i].SN = 0
    BY <2>1
  <2> HIDE DEF s
  <2> QED
    BY <1>2, <2>1, <2>2 DEF Bounds, s
<1> QED
  BY <1>1, <1>2, <1>3 DEF BoundsInv, AllBounds, NewsBounds, HandedBounds, NoFrame

\* The bounds hold throughout.
THEOREM BoundsInductive == Spec => []BoundsInv
<1>1. IInv /\ LinkInv /\ BoundsInv /\ [Next]_vars => BoundsInv'
  BY StepBounds
<1> QED
  BY <1>1, InitBounds, Inductive, LinkInductive, PTL DEF Spec

\* Every variable keeps its range: no packet is attempted more than maxTxRetries
\* times or with fewer than no retries, the buffer never overflows, no node
\* remembers a packet that was not sent or has an ACK for one.
THEOREM TypeCorrect == Spec => []TypeOK
<1>1. IInv /\ LinkInv /\ BoundsInv => TypeOK
  <2> SUFFICES ASSUME IInv, LinkInv, BoundsInv PROVE TypeOK
    OBVIOUS
  <2>1. par.maxPackets \in Nat /\ par.maxSN \in Nat
    BY TmacAssumption DEF IInv, Parameters
  <2>2. ASSUME NEW e \in Entry, e.SN <= par.maxSN PROVE e \in Schedule
    BY <2>1, <2>2 DEF Entry, Schedule
  <2>3. ASSUME NEW n \in Node
        PROVE  mac[n].scheduleTable \in Seq(Schedule) /\ mac[n].syncPacket \in Schedule
    <3>1. mac[n].scheduleTable \in Seq(Entry) /\ mac[n].syncPacket \in Entry /\ Bounds(mac[n])
      BY DEF IInv, MacInv, NodeState, BoundsInv, AllBounds
    <3>2. \A i \in DOMAIN mac[n].scheduleTable : mac[n].scheduleTable[i] \in Schedule
      BY <2>2, <3>1 DEF Bounds
    <3>3. mac[n].scheduleTable \in Seq(Schedule)
      BY <3>1, <3>2
    <3> QED
      BY <2>2, <3>1, <3>3 DEF Bounds
  <2>4. ASSUME NEW n \in Node
        PROVE  /\ mac[n].macState \in MacState /\ mac[n].timers \subseteq Timer
               /\ mac[n].txAddr \in Address
               /\ mac[n].txRetries \in 0..maxTxRetries /\ mac[n].tried \in 0..maxTxRetries
               /\ Len(mac[n].TXBuffer) <= macBufferSize
               /\ {mac[n].primaryWakeup, mac[n].needResync, mac[n].shifted, mac[n].awake}
                      \subseteq BOOLEAN
    <3>1. mac[n] \in NodeState /\ Bounds(mac[n])
      BY DEF IInv, MacInv, BoundsInv, AllBounds
    <3> QED
      BY <3>1 DEF NodeState, Bounds
  <2>5. pktHistory \in [Node -> [Node -> 0..par.maxPackets]]
    <3>1. ASSUME NEW m \in Node, NEW n \in Node PROVE pktHistory[m][n] \in 0..par.maxPackets
      <4>1. /\ pktHistory[m][n] \in Nat /\ pktHistory[m][n] <= Len(sent[n])
            /\ Len(sent[n]) <= par.maxPackets /\ sent[n] \in Seq(Address)
        BY DEF LinkInv, HistoryInv, BoundsInv, HandedBounds, IInv
      <4>2. Len(sent[n]) \in Nat
        BY <4>1
      <4> QED
        BY <2>1, <4>1, <4>2
    <3> QED
      BY <3>1 DEF LinkInv
  <2>6. \A n \in Node : air[n][n] = NoFrame /\ acked[n] \subseteq DOMAIN sent[n]
    BY DEF LinkInv, BoundsInv, HandedBounds
  <2> QED
    BY <2>3, <2>4, <2>5, <2>6 DEF TypeOK
<1> QED
  BY <1>1, BoundsInductive, Inductive, LinkInductive, PTL
=============================================================================
