-------------------------------- MODULE TMAC --------------------------------
(***************************************************************************)
(* Nodes in radio range of one another running TMAC: they agree on a frame *)
(* schedule through SYNC frames, exchange RTS/CTS/DATA/ACK in the active   *)
(* part of a frame and sleep otherwise.  The VirtualMac buffer, sequence   *)
(* numbers and duplicate filter, and the TimerService slots, are part of a *)
(* node; the radio and the air are its environment.                        *)
(*                                                                         *)
(* Time is abstracted: a timer that is set may fire at any step.  The      *)
(* active period has expired exactly when no CHECK_TA is pending, for it   *)
(* is always set to the end of the period.  Offsets of schedules are left  *)
(* out but for "the primary one is not zero" (shifted).                    *)
(***************************************************************************)
EXTENDS Integers, Sequences, FiniteSets

CONSTANTS
    Node, Sink,         \* Sink \in Node creates the first schedule
    Stranger,           \* an address outside Node
    Pars,               \* the settings considered, see Parameters
    maxTxRetries, macBufferSize

BROADCAST == -1
Address == Node \cup {Stranger, BROADCAST}

\* Parameters of the .ini, who sends to whom, whether the nodes start asleep on
\* the sink's schedule (synced) or at startup(), and bounds on the packets of
\* a source and on the renewals of a schedule.
Parameters ==
    [useRtsCts : BOOLEAN, disableTAextension : BOOLEAN, conservativeTA : BOOLEAN,
     collisionResolution : 0..2, traffic : SUBSET (Node \X Address), synced : BOOLEAN,
     maxPackets : Nat, maxSN : Nat]

ASSUME TmacAssumption ==
    /\ Sink \in Node /\ Node \subseteq Nat /\ Stranger \in Nat \ Node
    /\ maxTxRetries \in Nat \ {0} /\ macBufferSize \in Nat \ {0}
    /\ \A p \in Pars : p \in Parameters

Sensing == {"CS_RTS", "CS_DATA", "CS_SYNC", "CS_BEFORE_SLEEP"}
Waiting == {"IN_TX", "WAIT_FOR_DATA", "WAIT_FOR_CTS", "WAIT_FOR_ACK"}
MacState == Sensing \cup Waiting \cup {"SETUP", "SLEEP", "ACTIVE", "ACTIVE_SILENT"}
Timer == {"SYNC_SETUP", "SYNC_CREATE", "SYNC_RENEW", "FRAME_START", "CHECK_TA",
          "CARRIER_SENSE", "TRANSMISSION_TIMEOUT", "WAKEUP_SILENT"}

VARIABLES
    par,        \* the setting, of all nodes
    mac,        \* per node, the fields of its TMAC module
    sent,       \* per node, the destinations of the packets handed down
    pktHistory, \* per node and source, the last sequence number let through
    air,        \* per sender and listener, the frame on its way, or NoFrame
    delivered,  \* history: packets passed up, per node, as <<source, number>>
    acked       \* history: numbers of the packets popped on an ACK, per node

vars == <<par, mac, sent, pktHistory, air, delivered, acked>>

NoFrame == [type |-> "none", dst |-> BROADCAST, id |-> BROADCAST, sn |-> 0]
Frame(type, dst, sn) == [type |-> type, dst |-> dst, id |-> BROADCAST, sn |-> sn]

\* startup(), or (synced) the sleep between two frames of the sink's schedule.
Started(n) ==
    [macState |-> IF par.synced THEN "SLEEP" ELSE "SETUP",
     timers |-> IF par.synced
                THEN {"FRAME_START"} \cup (IF n = Sink THEN {"SYNC_RENEW"} ELSE {})
                ELSE {IF n = Sink THEN "SYNC_CREATE" ELSE "SYNC_SETUP"},
     TXBuffer |-> <<>>, txAddr |-> BROADCAST, txRetries |-> 0,
     primaryWakeup |-> ~par.synced, needResync |-> FALSE, shifted |-> FALSE,
     scheduleTable |-> IF par.synced THEN <<[ID |-> Sink, SN |-> 0]>> ELSE <<>>,
     syncPacket |-> [ID |-> Sink, SN |-> 0],
     awake |-> ~par.synced,
     tried |-> 0]               \* history: attempts for the front packet

Init ==
    /\ par \in Pars
    /\ mac = [n \in Node |-> Started(n)]
    /\ sent = [n \in Node |-> <<>>]
    /\ pktHistory = [n \in Node |-> [m \in Node |-> 0]]
    /\ air = [n \in Node |-> [m \in Node |-> NoFrame]]
    /\ delivered = [n \in Node |-> <<>>]
    /\ acked = [n \in Node |-> {}]

-----------------------------------------------------------------------------
\* The helper functions, as what they make of a node's fields s.
Arm(s, t) == [s EXCEPT !.timers = @ \cup {t}]
Cancel(s, t) == [s EXCEPT !.timers = @ \ {t}]
setMacState(s, st) == [s EXCEPT !.macState = st]
extendActivePeriod(s) == Arm(s, "CHECK_TA")
performCarrierSense(s, st) == Arm(setMacState(s, st), "CARRIER_SENSE")
Asleep(s) == [s EXCEPT !.macState = "SLEEP", !.awake = FALSE]

\* Mutant of Wait: no timeout is set.
WaitForEver(s, st) == [setMacState(s, st) EXCEPT !.awake = TRUE]

Wait(s, st) == [Arm(setMacState(s, st), "TRANSMISSION_TIMEOUT") EXCEPT !.awake = TRUE]

checkTxBuffer(s) ==
    IF s.TXBuffer = <<>> THEN s
    ELSE [s EXCEPT !.txAddr = Head(s.TXBuffer).dst, !.txRetries = maxTxRetries,
                   !.tried = 0]

\* Mutant of popTxBuffer: the next packet inherits what is left of the retries.
popTxBufferKeepsRetries(s) == [s EXCEPT !.TXBuffer = Tail(@), !.tried = 0]

popTxBuffer(s) == checkTxBuffer([s EXCEPT !.TXBuffer = Tail(@)])

\* Mutant of GiveUp: the last retry is not used.
GiveUpEarly(s) == IF s.TXBuffer # <<>> /\ s.txRetries <= 1 THEN popTxBuffer(s) ELSE s

\* A front packet without retries left is given up.
GiveUp(s) == IF s.TXBuffer # <<>> /\ s.txRetries <= 0 THEN popTxBuffer(s) ELSE s

\* Contend for the front packet, in a primary wakeup.
Contend(s) ==
    IF s.TXBuffer = <<>> THEN setMacState(s, "ACTIVE")
    ELSE performCarrierSense(s, IF par.useRtsCts /\ s.txAddr # BROADCAST
                                THEN "CS_RTS" ELSE "CS_DATA")

resetDefaultState(s) ==
    IF "CHECK_TA" \notin s.timers
    THEN IF par.disableTAextension THEN Asleep(s)
         ELSE performCarrierSense(s, "CS_BEFORE_SLEEP")
    ELSE IF ~s.primaryWakeup THEN setMacState(s, "ACTIVE_SILENT")
    ELSE IF s.needResync
    THEN [performCarrierSense(s, "CS_SYNC") EXCEPT !.syncPacket = s.scheduleTable[1]]
    ELSE Contend(GiveUp(s))

\* sendDataPacket's change of the node; the frame goes out with it.
sendDataPacket(s) ==
    extendActivePeriod(
        IF s.txAddr = BROADCAST THEN Wait(popTxBuffer(s), "IN_TX")
        ELSE IF par.useRtsCts THEN Wait(s, "WAIT_FOR_ACK")
        ELSE [Wait(s, "WAIT_FOR_ACK") EXCEPT !.txRetries = @ - 1, !.tried = @ + 1])

DataFrame(s) == Frame("DATA", s.txAddr, Head(s.TXBuffer).sn)

\* updateScheduleTable for a schedule the node does not know yet; the first
\* one becomes its primary schedule.
NewSchedule(s, id, sn) ==
    LET t == [s EXCEPT !.scheduleTable = Append(@, [ID |-> id, SN |-> sn])]
    IN  IF s.scheduleTable # <<>> THEN t
        ELSE resetDefaultState(
                [Arm(extendActivePeriod(t), "FRAME_START")
                    EXCEPT !.needResync = TRUE, !.primaryWakeup = TRUE])

-----------------------------------------------------------------------------
Becomes(n, s) == mac' = [mac EXCEPT ![n] = s]

\* A frame of n is on its way to all others.
Cast(n, f) == [m \in Node |-> IF m = n THEN NoFrame ELSE f]
Transmitting(n) == \E m \in Node : air[n][m] # NoFrame

\* Timer t of n fires: its slot is emptied first.
Fires(n, t) == t \in mac[n].timers
After(n, t) == Cancel(mac[n], t)

SyncSetup(n) ==
    /\ Fires(n, "SYNC_SETUP")
    /\ LET s == After(n, "SYNC_SETUP")
       IN  Becomes(n, IF s.macState = "SETUP" THEN Arm(s, "SYNC_CREATE") ELSE s)
    /\ UNCHANGED <<par, sent, pktHistory, air, delivered, acked>>

\* createPrimarySchedule, unless the node has left SETUP.
SyncCreate(n) ==
    /\ Fires(n, "SYNC_CREATE")
    /\ LET s == After(n, "SYNC_CREATE")
       IN  Becomes(n, IF s.macState = "SETUP"
                      THEN Arm(NewSchedule(s, n, 0), "SYNC_RENEW") ELSE s)
    /\ UNCHANGED <<par, sent, pktHistory, air, delivered, acked>>

SyncRenew(n) ==
    /\ Fires(n, "SYNC_RENEW") /\ mac[n].scheduleTable[1].SN < par.maxSN
    /\ Becomes(n, [mac[n] EXCEPT !.scheduleTable[1].SN = @ + 1, !.needResync = TRUE])
    /\ UNCHANGED <<par, sent, pktHistory, air, delivered, acked>>

FrameStart(n) ==
    /\ Fires(n, "FRAME_START")
    /\ LET s == [extendActivePeriod(mac[n]) EXCEPT
                    !.primaryWakeup = TRUE, !.shifted = FALSE,
                    !.needResync = @ \/ mac[n].shifted,
                    !.awake = @ \/ mac[n].macState = "SLEEP"]
           t == IF Len(s.scheduleTable) > 1 THEN Arm(s, "WAKEUP_SILENT") ELSE s
       IN  Becomes(n, IF s.macState \in {"SLEEP", "ACTIVE", "ACTIVE_SILENT"}
                      THEN resetDefaultState(t) ELSE t)
    /\ UNCHANGED <<par, sent, pktHistory, air, delivered, acked>>

\* A secondary schedule starts; the slots of further ones may still be set.
Wakeup(n) ==
    /\ Fires(n, "WAKEUP_SILENT")
    /\ \E s \in {After(n, "WAKEUP_SILENT")} \cup
                (IF Len(mac[n].scheduleTable) > 2 THEN {mac[n]} ELSE {}) :
         LET t == extendActivePeriod(s)
         IN  Becomes(n, IF t.macState = "SLEEP"
                        THEN resetDefaultState([t EXCEPT !.awake = TRUE]) ELSE t)
    /\ UNCHANGED <<par, sent, pktHistory, air, delivered, acked>>

CheckTA(n) ==
    /\ Fires(n, "CHECK_TA")
    /\ LET s == After(n, "CHECK_TA")
       IN  Becomes(n,
             IF par.disableTAextension \/ ~par.conservativeTA
             THEN [Asleep(s) EXCEPT !.primaryWakeup = FALSE]
             ELSE IF s.macState \in {"ACTIVE", "ACTIVE_SILENT", "SLEEP"}
             THEN performCarrierSense(s, "CS_BEFORE_SLEEP")
             ELSE extendActivePeriod(s))
    /\ UNCHANGED <<par, sent, pktHistory, air, delivered, acked>>

\* Mutant of TransmissionTimeout: what timed out is not given up.
TransmissionTimeoutIgnored(n) ==
    /\ Fires(n, "TRANSMISSION_TIMEOUT")
    /\ Becomes(n, After(n, "TRANSMISSION_TIMEOUT"))
    /\ UNCHANGED <<par, sent, pktHistory, air, delivered, acked>>

\* A timeout, perhaps with the answer still on its way.
TransmissionTimeout(n) ==
    /\ Fires(n, "TRANSMISSION_TIMEOUT")
    /\ Becomes(n, resetDefaultState(After(n, "TRANSMISSION_TIMEOUT")))
    /\ UNCHANGED <<par, sent, pktHistory, air, delivered, acked>>

-----------------------------------------------------------------------------
\* CARRIER_SENSE fires for a node that has something to sense for; the radio
\* answers CLEAR, BUSY, NOT_VALID or NOT_VALID_YET.
Heard(n) == \E m \in Node : air[m][n] # NoFrame
Senses(n, st) == Fires(n, "CARRIER_SENSE") /\ mac[n].macState = st

\* It fires although the state has changed since.
SenseInVain(n) ==
    /\ Fires(n, "CARRIER_SENSE") /\ mac[n].macState \notin Sensing
    /\ Becomes(n, After(n, "CARRIER_SENSE"))
    /\ UNCHANGED <<par, sent, pktHistory, air, delivered, acked>>

\* The radio is asleep, busy sending, or has not listened for long enough.
SenseNotValid(n) ==
    /\ Fires(n, "CARRIER_SENSE") /\ mac[n].macState \in Sensing
    /\ Becomes(n, [mac[n] EXCEPT !.awake = TRUE])
    /\ UNCHANGED <<par, sent, pktHistory, air, delivered, acked>>

\* Someone else is sending: stay awake and, unless an answer is due, silent.
carrierIsBusy(s) ==
    LET t == IF par.disableTAextension THEN s ELSE extendActivePeriod(s)
    IN  IF s.macState \in {"SETUP", "SLEEP"} THEN s
        ELSE IF par.collisionResolution = 0
        THEN IF s.macState \in Sensing THEN resetDefaultState(t) ELSE t
        ELSE IF s.macState \in Waiting \ {"IN_TX"} THEN t
        ELSE setMacState(t, "ACTIVE_SILENT")

SenseBusy(n) ==
    /\ Fires(n, "CARRIER_SENSE") /\ mac[n].macState \in Sensing
    /\ mac[n].awake /\ ~Transmitting(n) /\ Heard(n)
    /\ Becomes(n, carrierIsBusy(After(n, "CARRIER_SENSE")))
    /\ UNCHANGED <<par, sent, pktHistory, air, delivered, acked>>

\* The radio's carrier sense interrupt, as a frame begins.
CarrierInterrupt(n) ==
    /\ mac[n].awake /\ ~Transmitting(n) /\ Heard(n)
    /\ Becomes(n, carrierIsBusy(mac[n]))
    /\ UNCHANGED <<par, sent, pktHistory, air, delivered, acked>>

\* carrierIsClear in each of the four states; a frame goes to the radio.
Clear(n, st) ==
    /\ Senses(n, st) /\ mac[n].awake /\ ~Transmitting(n) /\ ~Heard(n)
    /\ UNCHANGED <<par, sent, pktHistory, delivered, acked>>

\* Mutant of SendRTS: the attempt is not counted against the retries.
SendRTSForFree(n) ==
    /\ Clear(n, "CS_RTS")
    /\ Becomes(n, [Wait(After(n, "CARRIER_SENSE"), "WAIT_FOR_CTS") EXCEPT
                        !.tried = @ + 1])
    /\ air' = [air EXCEPT ![n] = Cast(n, Frame("RTS", mac[n].txAddr, 0))]

SendRTS(n) ==
    /\ Clear(n, "CS_RTS")
    /\ Becomes(n, [Wait(After(n, "CARRIER_SENSE"), "WAIT_FOR_CTS") EXCEPT
                        !.txRetries = @ - 1, !.tried = @ + 1])
    /\ air' = [air EXCEPT ![n] = Cast(n, Frame("RTS", mac[n].txAddr, 0))]

SendSYNC(n) ==
    /\ Clear(n, "CS_SYNC")
    /\ Becomes(n, [Wait(After(n, "CARRIER_SENSE"), "IN_TX") EXCEPT !.needResync = FALSE])
    /\ LET p == mac[n].syncPacket
       IN  air' = [air EXCEPT ![n] = Cast(n,
                        [type |-> "SYNC", dst |-> BROADCAST, id |-> p.ID, sn |-> p.SN])]

SendDATA(n) ==
    /\ Clear(n, "CS_DATA")
    /\ Becomes(n, sendDataPacket(After(n, "CARRIER_SENSE")))
    /\ air' = [air EXCEPT ![n] = Cast(n, DataFrame(mac[n]))]

GoToSleep(n) ==
    /\ Clear(n, "CS_BEFORE_SLEEP")
    /\ Becomes(n, [Asleep(After(n, "CARRIER_SENSE")) EXCEPT !.primaryWakeup = FALSE])
    /\ UNCHANGED air

-----------------------------------------------------------------------------
\* The frame from m arrives at n, which listens.
Arrives(m, n, type) ==
    /\ air[m][n].type = type /\ air[m][n].dst \in {n, BROADCAST}
    /\ mac[n].awake /\ ~Transmitting(n)
    /\ UNCHANGED <<par, sent>>

Silently(m, n) == air' = [air EXCEPT ![m][n] = NoFrame]
Replying(m, n, f) == air' = [air EXCEPT ![m][n] = NoFrame, ![n] = Cast(n, f)]

\* A frame for another node; RTS and CTS carry a NAV.
Overhear(m, n) ==
    /\ air[m][n].dst \notin {n, BROADCAST}
    /\ mac[n].awake /\ ~Transmitting(n)
    /\ LET s == setMacState(extendActivePeriod(mac[n]), "ACTIVE_SILENT")
       IN  Becomes(n, IF par.collisionResolution # 2 /\ air[m][n].type \in {"RTS", "CTS"}
                      THEN Arm(s, "TRANSMISSION_TIMEOUT") ELSE s)
    /\ Silently(m, n)
    /\ UNCHANGED <<par, sent, pktHistory, delivered, acked>>

ReceiveRTS(m, n) ==
    /\ Arrives(m, n, "RTS")
    /\ Becomes(n, Wait(mac[n], "WAIT_FOR_DATA"))
    /\ Replying(m, n, Frame("CTS", m, 0))
    /\ UNCHANGED <<pktHistory, delivered, acked>>

\* Mutant of ReceiveCTS: the timeout is cancelled after sending, not before.
ReceiveCTSCancelsLate(m, n) ==
    /\ Arrives(m, n, "CTS")
    /\ IF mac[n].macState = "WAIT_FOR_CTS" /\ mac[n].txAddr = m
       THEN Becomes(n, Cancel(sendDataPacket(mac[n]), "TRANSMISSION_TIMEOUT"))
            /\ Replying(m, n, DataFrame(mac[n]))
       ELSE UNCHANGED mac /\ Silently(m, n)
    /\ UNCHANGED <<pktHistory, delivered, acked>>

\* The CTS this node waits for is answered with the data; any other is ignored
\* or, if the node waits for someone else's, ends the wait.
ReceiveCTS(m, n) ==
    /\ Arrives(m, n, "CTS")
    /\ IF mac[n].macState = "WAIT_FOR_CTS" /\ mac[n].txAddr = m
       THEN Becomes(n, sendDataPacket(Cancel(mac[n], "TRANSMISSION_TIMEOUT")))
            /\ Replying(m, n, DataFrame(mac[n]))
       ELSE Becomes(n, IF mac[n].macState = "WAIT_FOR_CTS"
                       THEN resetDefaultState(mac[n]) ELSE mac[n])
            /\ Silently(m, n)
    /\ UNCHANGED <<pktHistory, delivered, acked>>

\* Mutant of isNotDuplicatePacket: a retransmission is let through.
isNotDuplicateOrAgain(n, m, sn) == pktHistory[n][m] <= sn

isNotDuplicatePacket(n, m, sn) == pktHistory[n][m] < sn

ReceiveDATA(m, n) ==
    /\ Arrives(m, n, "DATA")
    /\ LET sn == air[m][n].sn
       IN  IF isNotDuplicatePacket(n, m, sn)
           THEN /\ pktHistory' = [pktHistory EXCEPT ![n][m] = sn]
                /\ delivered' = [delivered EXCEPT ![n] = Append(@, <<m, sn>>)]
           ELSE UNCHANGED <<pktHistory, delivered>>
    /\ IF air[m][n].dst = BROADCAST
       THEN UNCHANGED mac /\ Silently(m, n)
       ELSE Becomes(n, Wait(extendActivePeriod(mac[n]), "IN_TX"))
            /\ Replying(m, n, Frame("ACK", m, 0))
    /\ UNCHANGED acked

\* Mutant of ReceiveACK: any ACK will do.
ReceiveAnyACK(m, n) ==
    /\ Arrives(m, n, "ACK")
    /\ IF mac[n].TXBuffer # <<>>
       THEN /\ Becomes(n, resetDefaultState(popTxBuffer(
                            Cancel(mac[n], "TRANSMISSION_TIMEOUT"))))
            /\ acked' = [acked EXCEPT ![n] = @ \cup {Head(mac[n].TXBuffer).sn}]
       ELSE UNCHANGED <<mac, acked>>
    /\ Silently(m, n)
    /\ UNCHANGED <<pktHistory, delivered>>

\* An ACK says nothing of the packet it is for.
ReceiveACK(m, n) ==
    /\ Arrives(m, n, "ACK")
    /\ IF mac[n].macState = "WAIT_FOR_ACK" /\ mac[n].txAddr = m
       THEN /\ Becomes(n, resetDefaultState(popTxBuffer(
                            Cancel(mac[n], "TRANSMISSION_TIMEOUT"))))
            /\ acked' = [acked EXCEPT ![n] = @ \cup {Head(mac[n].TXBuffer).sn}]
       ELSE UNCHANGED <<mac, acked>>
    /\ Silently(m, n)
    /\ UNCHANGED <<pktHistory, delivered>>

\* Entries of s's schedule table for author id.
Known(s, id) == {i \in DOMAIN s.scheduleTable : s.scheduleTable[i].ID = id}

\* Mutant of updateScheduleTable: an older schedule replaces a newer one.
updateScheduleTableAnyway(s, id, sn) ==
    IF Known(s, id) = {} THEN {NewSchedule(s, id, sn)}
    ELSE LET i == CHOOSE j \in Known(s, id) : TRUE
         IN  {[s EXCEPT !.scheduleTable[i].SN = sn]}

\* updateScheduleTable: news of a known schedule moves the node's frames if it
\* is the primary one.
updateScheduleTable(s, id, sn) ==
    IF Known(s, id) = {} THEN {NewSchedule(s, id, sn)}
    ELSE LET i == CHOOSE j \in Known(s, id) : TRUE
         IN  IF s.scheduleTable[i].SN >= sn THEN {s}
             ELSE {[s EXCEPT !.scheduleTable[i].SN = sn,
                             !.shifted = IF i = 1 THEN b ELSE @] : b \in BOOLEAN}

ReceiveSYNC(m, n) ==
    /\ Arrives(m, n, "SYNC")
    /\ \E s \in updateScheduleTable(mac[n], air[m][n].id, air[m][n].sn) : Becomes(n, s)
    /\ Silently(m, n)
    /\ UNCHANGED <<pktHistory, delivered, acked>>

\* n does not get the frame: out of reach, collided, or n asleep or sending.
Lose(m, n) ==
    /\ air[m][n] # NoFrame /\ Silently(m, n)
    /\ UNCHANGED <<par, mac, sent, pktHistory, delivered, acked>>

\* A packet from the network layer takes the next sequence number, also when
\* the buffer is full and it is dropped.
FromNetworkLayer(n, d) ==
    /\ Len(sent[n]) < par.maxPackets /\ sent' = [sent EXCEPT ![n] = Append(@, d)]
    /\ LET s == [mac[n] EXCEPT !.TXBuffer = Append(@, [dst |-> d, sn |-> Len(sent[n]) + 1])]
       IN  Becomes(n, IF Len(mac[n].TXBuffer) >= macBufferSize THEN mac[n]
                      ELSE IF mac[n].TXBuffer = <<>> THEN checkTxBuffer(s) ELSE s)
    /\ UNCHANGED <<par, pktHistory, air, delivered, acked>>

-----------------------------------------------------------------------------
SenseClear(n) == SendRTS(n) \/ SendSYNC(n) \/ SendDATA(n) \/ GoToSleep(n)
Sense(n) == SenseInVain(n) \/ SenseNotValid(n) \/ SenseBusy(n) \/ SenseClear(n)

Receive(m, n) ==
    \/ Overhear(m, n) \/ ReceiveRTS(m, n) \/ ReceiveCTS(m, n)
    \/ ReceiveDATA(m, n) \/ ReceiveACK(m, n) \/ ReceiveSYNC(m, n)

Timers(n) ==
    \/ SyncSetup(n) \/ SyncCreate(n) \/ SyncRenew(n) \/ FrameStart(n)
    \/ Wakeup(n) \/ CheckTA(n) \/ TransmissionTimeout(n) \/ Sense(n)
    \/ CarrierInterrupt(n)

Next ==
    \E n \in Node :
        \/ Timers(n)
        \/ \E m \in Node : Receive(m, n) \/ Lose(m, n)
        \/ \E t \in par.traffic : t[1] = n /\ FromNetworkLayer(n, t[2])

Spec == Init /\ [][Next]_vars

\* Every timer that stays set fires and every frame ends.  A node that senses
\* the channel again and again, after random delays, finds it free some time,
\* and one that sleeps again and again is asleep at the start of some frame,
\* for a frame is much longer than the active period.
StartFromSleep(n) == mac[n].macState = "SLEEP" /\ FrameStart(n)

Fairness ==
    \A n \in Node :
        /\ WF_vars(SyncSetup(n)) /\ WF_vars(SyncCreate(n)) /\ WF_vars(FrameStart(n))
        /\ WF_vars(Wakeup(n)) /\ WF_vars(CheckTA(n)) /\ WF_vars(TransmissionTimeout(n))
        /\ WF_vars(Sense(n)) /\ SF_vars(SendRTS(n)) /\ SF_vars(SendSYNC(n))
        /\ SF_vars(SendDATA(n)) /\ SF_vars(GoToSleep(n))
        /\ SF_vars(StartFromSleep(n))
        /\ \A m \in Node : WF_vars(Receive(m, n) \/ Lose(m, n))

FairSpec == Spec /\ Fairness

-----------------------------------------------------------------------------
Schedule == [ID : Node, SN : 0..par.maxSN]

TypeOK ==
    /\ \A n \in Node :
        /\ mac[n].macState \in MacState /\ mac[n].timers \subseteq Timer
        /\ mac[n].txAddr \in Address
        /\ mac[n].txRetries \in 0..maxTxRetries /\ mac[n].tried \in 0..maxTxRetries
        /\ Len(mac[n].TXBuffer) <= macBufferSize
        /\ mac[n].scheduleTable \in Seq(Schedule) /\ mac[n].syncPacket \in Schedule
        /\ {mac[n].primaryWakeup, mac[n].needResync, mac[n].shifted, mac[n].awake}
                \subseteq BOOLEAN
    /\ pktHistory \in [Node -> [Node -> 0..par.maxPackets]]
    /\ \A n \in Node : air[n][n] = NoFrame /\ acked[n] \subseteq DOMAIN sent[n]

\* What a node waits for comes: each state has the timer that ends it, and a
\* node with a schedule wakes up for its next frame.
DriverServesState ==
    \A n \in Node :
        /\ mac[n].macState \in Waiting => "TRANSMISSION_TIMEOUT" \in mac[n].timers
        /\ mac[n].macState \in Sensing => "CARRIER_SENSE" \in mac[n].timers
        /\ mac[n].macState \in {"ACTIVE", "ACTIVE_SILENT"} => "CHECK_TA" \in mac[n].timers
        /\ mac[n].scheduleTable # <<>> => "FRAME_START" \in mac[n].timers

\* Contending or waiting for an answer is for the front packet, with its own
\* destination and what its attempts so far have left of its retries.
FrontPacketServed ==
    \A n \in Node :
        LET s == mac[n]
        IN  /\ s.macState \in {"CS_RTS", "CS_DATA", "WAIT_FOR_CTS", "WAIT_FOR_ACK"}
                    => s.TXBuffer # <<>>
            /\ s.TXBuffer # <<>> => /\ s.txAddr = Head(s.TXBuffer).dst
                                    /\ s.tried + s.txRetries = maxTxRetries

\* A unicast packet leaves the buffer acknowledged or after maxTxRetries
\* attempts of its own, never earlier.
NotGivenUpEarly ==
    [][\A n \in Node :
         LET b == mac[n].TXBuffer
         IN  b # <<>> /\ (mac'[n].TXBuffer = <<>> \/ Head(mac'[n].TXBuffer) # Head(b)) =>
                \/ Head(b).dst = BROADCAST
                \/ mac[n].tried = maxTxRetries
                \/ Head(b).sn \in acked'[n]]_vars

\* A schedule is known by others at most as new as by its author.
SchedulesFollowAuthor ==
    \A n \in Node : \A i \in DOMAIN mac[n].scheduleTable :
        LET e == mac[n].scheduleTable[i]
        IN  /\ Known(mac[n], e.ID) = {i}
            /\ \E j \in Known(mac[e.ID], e.ID) : e.SN <= mac[e.ID].scheduleTable[j].SN

\* TMAC keeps a link's promise: in order, at most once, no acknowledged loss.
LinkLayer == INSTANCE Link WITH Destination <- Address
KeepsPromise == LinkLayer!Spec

\* Every buffer empties: a packet is sent, acknowledged or given up.
Drains == \A n \in Node : mac[n].TXBuffer # <<>> ~> mac[n].TXBuffer = <<>>

\* The comment at SYNC_CREATE: a node without a schedule will make its own.
WillHaveSchedule ==
    \A n \in Node : mac[n].scheduleTable = <<>> =>
        mac[n].timers \cap {"SYNC_SETUP", "SYNC_CREATE"} # {}
=============================================================================
