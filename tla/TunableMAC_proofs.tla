------------------------- MODULE TunableMAC_proofs -------------------------
(***************************************************************************)
(* The safety invariants of TunableMAC for every buffer size, number of    *)
(* attempts and configuration.                                             *)
(***************************************************************************)
EXTENDS TunableMAC, TLAPS

\* What each step preserves: the invariants TLC checks, together with the
\* correspondence between the armed timer and the MAC's work.
IInv ==
    /\ TypeOK
    /\ SingleDriver
    /\ IdleIsEmpty
    /\ AtMostNumTx
    /\ DriverServesState

\* The part of IInv that attemptTx rebuilds, whatever state it is called in.
MacOK ==
    /\ macState \in {"DEFAULT", "CONTENDING", "TX", "RX"}
    /\ buffered \in 0..BufferSize
    /\ numTxTries \in 0..MaxNumTx
    /\ timers \subseteq Timer
    /\ tried \in 0..MaxNumTx /\ lastTried \in 0..MaxNumTx
    /\ SingleDriver
    /\ IdleIsEmpty
    /\ AtMostNumTx
    /\ DriverServesState

\* The rest of the state has its type.
RestOK ==
    /\ disabled \in BOOLEAN /\ duty \in BOOLEAN
    /\ numTx \in 0..MaxNumTx
    /\ beacons \in 0..MaxBeacons
    /\ radio \in {"RX", "TX", "SLEEP"}
    /\ inFlight \in {"none", "DATA", "BEACON"}
    /\ backoffType \in Backoff

\* The invariant in two parts: the MAC's fields, and the ranges of the rest.
LEMMA Split == IInv <=> MacOK /\ RestOK
BY DEF IInv, MacOK, RestOK, TypeOK

\* The same of the next state.
LEMMA SplitPrime == IInv' <=> MacOK' /\ RestOK'
BY DEF IInv, MacOK, RestOK, TypeOK, SingleDriver, IdleIsEmpty,
       AtMostNumTx, DriverServesState

\* Contending for a packet with an attempt in hand, no progress timer armed.
LEMMA ContendOK ==
    ASSUME TunableAssumption, lastTried' \in 0..MaxNumTx,
           NEW T \in SUBSET Timer, T \cap Progress = {},
           NEW n \in 1..BufferSize, NEW k \in 1..MaxNumTx, NEW t \in 0..MaxNumTx,
           t + k <= MaxNumTx,
           Contend(T, n, k, t)
    PROVE  MacOK'
<1> USE DEF TunableAssumption, MacOK, Timer, Progress, DutyTimers
<1>1. CASE /\ timers' = T \cup {"START_CARRIER_SENSING"}
           /\ numTxTries' = k /\ tried' = t
  <2>1. timers' \cap Progress = {"START_CARRIER_SENSING"}
    BY <1>1
  <2>2. "SEND_BEACONS_OR_DATA" \notin timers'
    BY <1>1
  <2> QED
    BY <1>1, <2>1, <2>2 DEF Contend, SingleDriver, IdleIsEmpty,
       AtMostNumTx, DriverServesState
<1>2. CASE /\ timers' = T \cup {"ATTEMPT_TX"}
           /\ numTxTries' = k - 1 /\ tried' = t + 1
  <2>1. timers' \cap Progress = {"ATTEMPT_TX"}
    BY <1>2
  <2>2. /\ "SEND_BEACONS_OR_DATA" \notin timers'
        /\ "START_CARRIER_SENSING" \notin timers'
    BY <1>2
  <2> QED
    BY <1>2, <2>1, <2>2 DEF Contend, SingleDriver, IdleIsEmpty,
       AtMostNumTx, DriverServesState
<1> QED
  BY <1>1, <1>2 DEF Contend

\* Going idle with an empty buffer.
LEMMA BackToDefaultOK ==
    ASSUME TunableAssumption, lastTried' \in 0..MaxNumTx, duty \in BOOLEAN,
           NEW T \in SUBSET Timer, T \cap Progress = {},
           BackToDefault(T, 0, 0)
    PROVE  MacOK'
<1>1. timers' \cap Progress = {} /\ timers' \subseteq Timer
  BY DEF BackToDefault, Timer, Progress, DutyTimers
<1> QED
  BY <1>1 DEF TunableAssumption, BackToDefault, MacOK, SingleDriver,
     IdleIsEmpty, AtMostNumTx, DriverServesState, Progress

\* attemptTx, entered with no progress timer armed and with attempts in hand
\* only for a packet that is there.
LEMMA AttemptTxOK ==
    ASSUME TunableAssumption, RestOK, lastTried \in 0..MaxNumTx,
           NEW T \in SUBSET Timer, T \cap Progress = {},
           NEW n \in 0..BufferSize, NEW k \in 0..MaxNumTx, NEW t \in 0..MaxNumTx,
           t + k <= MaxNumTx, k > 0 => n > 0,
           AttemptTx(T, n, k, t)
    PROVE  MacOK'
<1> USE DEF TunableAssumption
<1>1. CASE k > 0 /\ Contend(T, n, k, t) /\ UNCHANGED lastTried
  BY <1>1, ContendOK
<1>2. CASE k = 0 /\ n > 1 /\ numTx > 0 /\ Contend(T, n - 1, numTx, 0)
           /\ lastTried' = t
  <2>1. /\ n - 1 \in 1..BufferSize /\ numTx \in 1..MaxNumTx
        /\ 0 \in 0..MaxNumTx /\ 0 + numTx <= MaxNumTx
    BY <1>2 DEF RestOK
  <2> QED
    BY <1>2, <2>1, ContendOK
<1>3. CASE \/ k = 0 /\ n > 1 /\ numTx = 0 /\ BackToDefault(T, 0, 0) /\ lastTried' = 0
           \/ k = 0 /\ n = 1 /\ BackToDefault(T, 0, k) /\ lastTried' = t
           \/ k = 0 /\ n = 0 /\ BackToDefault(T, n, k) /\ UNCHANGED lastTried
  BY <1>3, BackToDefaultOK DEF RestOK
<1> QED
  BY <1>1, <1>2, <1>3 DEF AttemptTx

\* A copy goes out: there is a packet, and an attempt in hand or, with the
\* channel kept, a packet not yet attempted.
LEMMA SendCopyOK ==
    ASSUME TunableAssumption, MacOK, RestOK,
           NEW T \in SUBSET Timer, T \cap Progress = {},
           buffered > 0,
           numTxTries > 0 \/ (TxAll /\ tried = 0),
           SendCopy(T)
    PROVE  MacOK'
<1> USE DEF TunableAssumption, Progress, Timer, DutyTimers
<1>1. CASE ~TxAll
  <2>1. /\ timers' = T \cup {"ATTEMPT_TX"}
        /\ numTxTries' = numTxTries - 1 /\ tried' = tried + 1
        /\ buffered' = buffered /\ lastTried' = lastTried /\ macState' = "TX"
    BY <1>1 DEF SendCopy
  <2>2. /\ timers' \cap Progress = {"ATTEMPT_TX"} /\ timers' \subseteq Timer
        /\ "SEND_BEACONS_OR_DATA" \notin timers'
        /\ "START_CARRIER_SENSING" \notin timers'
    BY <2>1
  <2> QED
    BY <1>1, <2>1, <2>2 DEF MacOK, SingleDriver, IdleIsEmpty,
       AtMostNumTx, DriverServesState
<1>2. CASE TxAll
  <2>1. timers' = T \cup {"SEND_BEACONS_OR_DATA"} /\ macState' = "TX"
    BY <1>2 DEF SendCopy
  <2>2. /\ timers' \cap Progress = {"SEND_BEACONS_OR_DATA"}
        /\ timers' \subseteq Timer
        /\ "SEND_BEACONS_OR_DATA" \in timers'
        /\ "START_CARRIER_SENSING" \notin timers'
    BY <2>1
  <2>3. CASE numTxTries > 1
    BY <1>2, <2>1, <2>2, <2>3 DEF SendCopy, MacOK, SingleDriver, IdleIsEmpty,
       AtMostNumTx, DriverServesState
  <2>4. CASE ~(numTxTries > 1)
    BY <1>2, <2>1, <2>2, <2>4 DEF SendCopy, MacOK, RestOK, SingleDriver,
       IdleIsEmpty, AtMostNumTx, DriverServesState
  <2> QED
    BY <2>3, <2>4
<1> QED
  BY <1>1, <1>2

\* sendBeaconsOrData, entered from a carrier sense or from its own timer.
LEMMA SendBeaconsOrDataOK ==
    ASSUME TunableAssumption, MacOK, RestOK,
           NEW T \in SUBSET Timer, T \cap Progress = {},
           NEW b \in 0..MaxBeacons, NEW r \in {"RX", "TX", "SLEEP"},
           numTxTries > 0 \/ (TxAll /\ tried = 0),
           ~TxAll => buffered > 0,
           SendBeaconsOrData(T, b, r),
           UNCHANGED <<disabled, inFlight, config>>
    PROVE  MacOK' /\ RestOK'
<1> USE DEF TunableAssumption, Progress, Timer, DutyTimers
<1>1. CASE b > 0 /\ ~(b = 0)
  <2>1. /\ timers' = T \cup {"SEND_BEACONS_OR_DATA"} /\ macState' = "TX"
        /\ UNCHANGED <<buffered, numTxTries, tried, lastTried>>
        /\ beacons' = b - 1 /\ radio' = "TX"
    BY <1>1 DEF SendBeaconsOrData
  <2>2. /\ timers' \cap Progress = {"SEND_BEACONS_OR_DATA"}
        /\ timers' \subseteq Timer
        /\ "SEND_BEACONS_OR_DATA" \in timers'
        /\ "START_CARRIER_SENSING" \notin timers'
    BY <2>1
  <2>3. numTxTries > 0 \/ (TxAll /\ tried = 0)
    OBVIOUS
  <2>4. MacOK'
    BY <2>1, <2>2, <2>3 DEF MacOK, SingleDriver, IdleIsEmpty,
       AtMostNumTx, DriverServesState
  <2> QED
    BY <1>1, <2>1, <2>4 DEF RestOK, config
<1>2. CASE b = 0 /\ buffered = 0 /\ AttemptTx(T, 0, 0, tried)
           /\ beacons' = 0 /\ radio' = r
  <2>1. 0 \in 0..BufferSize /\ 0 \in 0..MaxNumTx /\ tried \in 0..MaxNumTx
        /\ tried + 0 <= MaxNumTx /\ lastTried \in 0..MaxNumTx
    BY DEF MacOK
  <2>2. MacOK'
    BY <1>2, <2>1, AttemptTxOK
  <2> QED
    BY <1>2, <2>2 DEF RestOK, config
<1>3. CASE b = 0 /\ buffered > 0 /\ SendCopy(T)
  <2>1. MacOK'
    BY <1>3, SendCopyOK
  <2> QED
    BY <1>3, <2>1 DEF RestOK, config, SendCopy
<1> QED
  BY <1>1, <1>2, <1>3 DEF SendBeaconsOrData
-----------------------------------------------------------------------------
\* The module starts in order.
LEMMA InitOK == TunableAssumption /\ Init => IInv
<1> SUFFICES ASSUME TunableAssumption, Init PROVE MacOK /\ RestOK
  BY Split
<1> USE DEF TunableAssumption, Init, Progress, Timer, DutyTimers
<1>1. timers \cap Progress = {} /\ timers \subseteq Timer
  OBVIOUS
<1>2. MacOK
  BY <1>1 DEF MacOK, SingleDriver, IdleIsEmpty,      AtMostNumTx, DriverServesState
<1>3. RestOK
  <2>1. StartupBackoff \in Backoff
    <3>1. BackoffParam \in {0, 1, 2, 3}
      OBVIOUS
    <3> QED
      BY <3>1 DEF StartupBackoff, Backoff
  <2>2. Duty0 \in BOOLEAN
    OBVIOUS
  <2>3. disabled \in BOOLEAN /\ duty \in BOOLEAN
    BY <2>2
  <2>4. numTx \in 0..MaxNumTx /\ beacons \in 0..MaxBeacons
    OBVIOUS
  <2>5. backoffType \in Backoff
    BY <2>1
  <2> QED
    BY <2>3, <2>4, <2>5 DEF RestOK
<1> QED
  BY <1>2, <1>3

\* A step that leaves the packets alone and adds or removes only duty-cycle
\* timers keeps the MAC's part of the invariant.
LEMMA DutyOnlyOK ==
    ASSUME MacOK, UNCHANGED <<macState, buffered, numTxTries, history>>,
           timers' \subseteq Timer, timers' \cap Progress = timers \cap Progress
    PROVE  MacOK'
<1>1. \A t \in Progress : t \in timers' <=> t \in timers
  OBVIOUS
<1> QED
  BY <1>1 DEF MacOK, history, SingleDriver, IdleIsEmpty,      AtMostNumTx, DriverServesState, Progress

\* The one progress timer armed, taken out, leaves none.
LEMMA TakeDriver ==
    ASSUME MacOK, NEW t \in Progress, t \in timers
    PROVE  /\ timers \ {t} \in SUBSET Timer
           /\ (timers \ {t}) \cap Progress = {}
           /\ macState # "DEFAULT"
BY DEF MacOK, SingleDriver

\* No step breaks the invariant.
LEMMA StepOK == TunableAssumption /\ IInv /\ [Next]_vars => IInv'
<1> SUFFICES ASSUME TunableAssumption, IInv, [Next]_vars
             PROVE  MacOK' /\ RestOK'
  BY SplitPrime
<1> MacOK /\ RestOK
  BY Split
<1>1. CASE StartSleeping
  <2>1. timers' \subseteq Timer /\ timers' \cap Progress = timers \cap Progress
    BY <1>1 DEF StartSleeping, MacOK, Timer, Progress, DutyTimers
  <2> QED
    BY <1>1, <2>1, DutyOnlyOK DEF StartSleeping, RestOK, config
<1>2. CASE StartListening
  <2>1. timers' \subseteq Timer /\ timers' \cap Progress = timers \cap Progress
    BY <1>2 DEF StartListening, MacOK, Timer, Progress, DutyTimers
  <2> QED
    BY <1>2, <2>1, DutyOnlyOK DEF StartListening, RestOK, config
<1>3. CASE SenseClear
  <2> DEFINE T == timers \ {"START_CARRIER_SENSING"}
  <2>1. "START_CARRIER_SENSING" \in timers /\ "START_CARRIER_SENSING" \in Progress
    BY <1>3 DEF SenseClear, Fires, Progress
  <2>2. T \in SUBSET Timer /\ T \cap Progress = {}
    BY <2>1, TakeDriver
  <2>3. numTxTries > 0 /\ buffered > 0
    BY <2>1 DEF MacOK, DriverServesState
  <2>4. PICK b \in 0..MaxBeacons : SendBeaconsOrData(T, b, "RX")
    BY <1>3 DEF SenseClear, TunableAssumption
  <2>5. UNCHANGED <<disabled, inFlight, config>>
    BY <1>3 DEF SenseClear
  <2> HIDE DEF T
  <2> QED
    BY <2>2, <2>3, <2>4, <2>5, SendBeaconsOrDataOK
<1>4. CASE SenseAgain
  <2>1. timers' \subseteq Timer /\ timers' \cap Progress = timers \cap Progress
    BY <1>4 DEF SenseAgain, MacOK
  <2> QED
    BY <1>4, <2>1, DutyOnlyOK DEF SenseAgain, RestOK, config
<1>5. CASE AttemptTxFires
  <2> DEFINE T == timers \ {"ATTEMPT_TX"}
  <2>1. "ATTEMPT_TX" \in timers /\ "ATTEMPT_TX" \in Progress
    BY <1>5 DEF AttemptTxFires, Fires, Progress
  <2>2. T \in SUBSET Timer /\ T \cap Progress = {}
    BY <2>1, TakeDriver
  <2>3. "SEND_BEACONS_OR_DATA" \notin timers
    BY <2>1 DEF MacOK, SingleDriver, Progress
  <2>4. /\ buffered \in 0..BufferSize /\ numTxTries \in 0..MaxNumTx
        /\ tried \in 0..MaxNumTx /\ tried + numTxTries <= MaxNumTx
        /\ lastTried \in 0..MaxNumTx
        /\ numTxTries > 0 => buffered > 0
    BY <2>3 DEF MacOK, AtMostNumTx, DriverServesState
  <2>5. AttemptTx(T, buffered, numTxTries, tried)
    BY <1>5 DEF AttemptTxFires
  <2> HIDE DEF T
  <2>6. MacOK'
    BY <2>2, <2>4, <2>5, AttemptTxOK
  <2> QED
    BY <1>5, <2>6 DEF AttemptTxFires, RestOK, config
<1>6. CASE SendFires
  <2> DEFINE T == timers \ {"SEND_BEACONS_OR_DATA"}
  <2>1. "SEND_BEACONS_OR_DATA" \in timers /\ "SEND_BEACONS_OR_DATA" \in Progress
    BY <1>6 DEF SendFires, Fires, Progress
  <2>2. T \in SUBSET Timer /\ T \cap Progress = {}
    BY <2>1, TakeDriver
  <2>3. /\ numTxTries > 0 \/ (TxAll /\ tried = 0)
        /\ ~TxAll => buffered > 0
    BY <2>1 DEF MacOK, DriverServesState
  <2>4. /\ SendBeaconsOrData(T, beacons, radio)
        /\ UNCHANGED <<disabled, inFlight, config>>
    BY <1>6 DEF SendFires
  <2>5. beacons \in 0..MaxBeacons /\ radio \in {"RX", "TX", "SLEEP"}
    BY DEF RestOK
  <2> HIDE DEF T
  <2> QED
    BY <2>2, <2>3, <2>4, <2>5, SendBeaconsOrDataOK
<1>7. CASE FromNetworkLayer
  <2>0. RestOK'
    BY <1>7 DEF FromNetworkLayer, RestOK, config
  <2>1. CASE /\ buffered < BufferSize /\ macState = "DEFAULT" /\ buffered = 0
             /\ AttemptTx(IF duty THEN timers \ DutyTimers ELSE timers, 1, numTx, 0)
    <3> DEFINE T == IF duty THEN timers \ DutyTimers ELSE timers
    <3>1. T \in SUBSET Timer /\ T \cap Progress = {}
      BY <2>1 DEF MacOK, SingleDriver
    <3>2. /\ 1 \in 0..BufferSize /\ numTx \in 0..MaxNumTx /\ 0 \in 0..MaxNumTx
          /\ 0 + numTx <= MaxNumTx /\ lastTried \in 0..MaxNumTx
      BY <2>1 DEF MacOK, RestOK, TunableAssumption
    <3>3. AttemptTx(T, 1, numTx, 0)
      BY <2>1
    <3> HIDE DEF T
    <3>4. MacOK'
      BY <3>1, <3>2, <3>3, AttemptTxOK
    <3> QED
      BY <2>0, <3>4
  <2>2. CASE /\ buffered < BufferSize /\ ~(macState = "DEFAULT" /\ buffered = 0)
             /\ buffered' = buffered + 1
             /\ UNCHANGED <<macState, timers, numTxTries, history>>
    <3>1. macState # "DEFAULT"
      BY <2>2 DEF MacOK, IdleIsEmpty
    <3>2. MacOK'
      BY <2>2, <3>1 DEF TunableAssumption, MacOK, history, SingleDriver,
         IdleIsEmpty, AtMostNumTx, DriverServesState
    <3> QED
      BY <2>0, <3>2
  <2>3. CASE UNCHANGED <<buffered, macState, timers, numTxTries, history>>
    <3>1. timers' \subseteq Timer /\ timers' \cap Progress = timers \cap Progress
      BY <2>3 DEF MacOK
    <3> QED
      BY <2>0, <2>3, <3>1, DutyOnlyOK
  <2> QED
    BY <1>7, <2>1, <2>2, <2>3 DEF FromNetworkLayer
<1>8. CASE RadioDecodes
  <2>1. timers' \subseteq Timer /\ timers' \cap Progress = timers \cap Progress
    BY <1>8 DEF RadioDecodes, MacOK
  <2>2. inFlight' \in {"none", "DATA", "BEACON"}
    BY <1>8 DEF RadioDecodes
  <2> QED
    BY <1>8, <2>1, <2>2, DutyOnlyOK DEF RadioDecodes, RestOK, config
<1>9. CASE ReceiveBeacon
  <2>0. RestOK'
    BY <1>9 DEF ReceiveBeacon, RestOK, config
  <2>1. CASE macState = "TX"
    <3>1. timers' \subseteq Timer /\ timers' \cap Progress = timers \cap Progress
      BY <1>9, <2>1 DEF ReceiveBeacon, MacOK
    <3> QED
      BY <1>9, <2>0, <2>1, <3>1, DutyOnlyOK DEF ReceiveBeacon
  <2>2. CASE macState # "TX"
    <3>1. "SEND_BEACONS_OR_DATA" \notin timers
      BY <2>2 DEF MacOK, DriverServesState
    <3>2. macState # "CONTENDING" => "START_CARRIER_SENSING" \notin timers
      BY DEF MacOK, DriverServesState
    <3>3. /\ macState' = "RX" /\ timers' \subseteq Timer
          /\ "ATTEMPT_TX" \in timers'
          /\ "START_CARRIER_SENSING" \notin timers'
          /\ "SEND_BEACONS_OR_DATA" \notin timers'
      BY <1>9, <2>2, <3>1, <3>2
         DEF ReceiveBeacon, MacOK, Timer, Progress, DutyTimers
    <3>4. timers' \cap Progress = {"ATTEMPT_TX"}
      BY <3>3 DEF Progress
    <3>5. UNCHANGED <<buffered, numTxTries, tried, lastTried>>
      BY <1>9 DEF ReceiveBeacon, history
    <3>6. MacOK'
      BY <3>1, <3>3, <3>4, <3>5 DEF MacOK, Progress, SingleDriver, IdleIsEmpty,
         AtMostNumTx, DriverServesState
    <3> QED
      BY <2>0, <3>6
  <2> QED
    BY <2>1, <2>2
<1>10. CASE ReceiveData
  <2>0. RestOK'
    BY <1>10 DEF ReceiveData, RestOK, config
  <2>1. CASE macState = "RX"
    <3> DEFINE T == timers \ {"ATTEMPT_TX"}
    <3>1. /\ "START_CARRIER_SENSING" \notin timers
          /\ "SEND_BEACONS_OR_DATA" \notin timers
      BY <2>1 DEF MacOK, DriverServesState
    <3>2. T \in SUBSET Timer /\ T \cap Progress = {}
      BY <3>1 DEF MacOK, Progress
    <3>3. /\ buffered \in 0..BufferSize /\ numTxTries \in 0..MaxNumTx
          /\ tried \in 0..MaxNumTx /\ tried + numTxTries <= MaxNumTx
          /\ lastTried \in 0..MaxNumTx
          /\ numTxTries > 0 => buffered > 0
      BY <3>1 DEF MacOK, AtMostNumTx, DriverServesState
    <3>4. AttemptTx(T, buffered, numTxTries, tried)
      BY <1>10, <2>1 DEF ReceiveData
    <3> HIDE DEF T
    <3>5. MacOK'
      BY <3>2, <3>3, <3>4, AttemptTxOK
    <3> QED
      BY <2>0, <3>5
  <2>2. CASE macState # "RX"
    <3>1. timers' \subseteq Timer /\ timers' \cap Progress = timers \cap Progress
      BY <1>10, <2>2 DEF ReceiveData, MacOK
    <3> QED
      BY <1>10, <2>0, <2>2, <3>1, DutyOnlyOK DEF ReceiveData
  <2> QED
    BY <2>1, <2>2
<1>11. ASSUME NEW d \in BOOLEAN, SetDutyCycle(d)
       PROVE  MacOK' /\ RestOK'
  <2>1. timers' \subseteq Timer /\ timers' \cap Progress = timers \cap Progress
    BY <1>11 DEF SetDutyCycle, MacOK, Timer, Progress, DutyTimers
  <2> QED
    BY <1>11, <2>1, DutyOnlyOK DEF SetDutyCycle, RestOK
<1>12. ASSUME NEW n \in 0..MaxNumTx, SetNumTx(n)
       PROVE  MacOK' /\ RestOK'
  <2>1. timers' \subseteq Timer /\ timers' \cap Progress = timers \cap Progress
    BY <1>12 DEF SetNumTx, MacOK
  <2> QED
    BY <1>12, <2>1, DutyOnlyOK DEF SetNumTx, RestOK
<1>13. ASSUME NEW b \in Backoff, SetBackoffType(b)
       PROVE  MacOK' /\ RestOK'
  <2>1. timers' \subseteq Timer /\ timers' \cap Progress = timers \cap Progress
    BY <1>13 DEF SetBackoffType, MacOK
  <2> QED
    BY <1>13, <2>1, DutyOnlyOK DEF SetBackoffType, RestOK
<1>14. CASE Disable
  <2>1. timers' \subseteq Timer /\ timers' \cap Progress = timers \cap Progress
    BY <1>14 DEF Disable, MacOK
  <2> QED
    BY <1>14, <2>1, DutyOnlyOK DEF Disable, RestOK, config
<1>15. CASE UNCHANGED vars
  <2>1. timers' \subseteq Timer /\ timers' \cap Progress = timers \cap Progress
    BY <1>15 DEF vars, MacOK
  <2> QED
    BY <1>15, <2>1, DutyOnlyOK DEF vars, RestOK, history
<1> QED
  BY <1>1, <1>2, <1>3, <1>4, <1>5, <1>6, <1>7, <1>8, <1>9, <1>10, <1>11,
     <1>12, <1>13, <1>14, <1>15 DEF Next, TimerFires, Command

\* The inductive invariant holds in every reachable state.
THEOREM Inductive == Spec => []IInv
<1>1. Init => IInv
  BY InitOK, TunableAssumption
<1>2. IInv /\ [Next]_vars => IInv'
  BY StepOK, TunableAssumption
<1> QED
  BY <1>1, <1>2, PTL DEF Spec

\* Every variable keeps its range, for all buffer sizes and attempt limits.
THEOREM TypeCorrect == Spec => []TypeOK
<1>1. IInv => TypeOK
  BY DEF IInv
<1> QED
  BY <1>1, Inductive, PTL

\* The MAC is never left waiting for nothing nor driven by two timers.
THEOREM AlwaysOneDriver == Spec => []SingleDriver
<1>1. IInv => SingleDriver
  BY DEF IInv
<1> QED
  BY <1>1, Inductive, PTL

\* No packet is left in the buffer of an idle MAC.
THEOREM NeverForgotten == Spec => []IdleIsEmpty
<1>1. IInv => IdleIsEmpty
  BY DEF IInv
<1> QED
  BY <1>1, Inductive, PTL

\* The timer that drives the MAC matches its state, and what it is to serve is
\* there: a packet in the buffer, an attempt in hand.
THEOREM DriverMatchesState == Spec => []DriverServesState
<1>1. IInv => DriverServesState
  BY DEF IInv
<1> QED
  BY <1>1, Inductive, PTL

\* No packet is attempted more often than the largest numTx allows.
THEOREM AttemptsBounded == Spec => []AtMostNumTx
<1>1. IInv => AtMostNumTx
  BY DEF IInv
<1> QED
  BY <1>1, Inductive, PTL
-----------------------------------------------------------------------------
(* Where no beacon is heard and no parameter is retuned: what the MAC does     *)
(* with a packet is what PacketQueue promises.                                 *)

\* Such a MAC never waits for a data frame, and numTx stays what it was.
Quiet == numTx = NumTx0 /\ inFlight # "BEACON" /\ macState # "RX"

\* Every packet is given numTx attempts, those behind it and those ahead of it;
\* a buffer that has run empty has no attempt in its account.
Counted ==
    /\ lastTried = NumTx0
    /\ macState # "DEFAULT" => tried + numTxTries = NumTx0
    /\ buffered = 0 => tried = 0

\* The step is one of the queue's, or none.
Queues == Queue!Next \/ UNCHANGED <<buffered, tried>>

\* attemptTx for the front of n packets, t of whose attempts are made: the next
\* attempt is prepared or made, or the packet is let go with all of them made.
LEMMA AttemptTxCounts ==
    ASSUME TunableAssumption, Quiet, lastTried = NumTx0,
           NEW T, NEW n \in Nat, NEW k \in Nat, NEW t \in Nat,
           t + k = NumTx0, n > 0, AttemptTx(T, n, k, t)
    PROVE  /\ Counted'
           /\ \/ k > 0 /\ buffered' = n /\ tried' \in {t, t + 1}
              \/ /\ t = NumTx0 /\ buffered' = n - 1
                 /\ tried' \in IF n > 1 THEN {0, 1} ELSE {0}
<1>1. numTx = NumTx0 /\ NumTx0 \in Nat /\ NumTx0 > 0
  BY DEF Quiet, TunableAssumption
<1>2. CASE k > 0 /\ Contend(T, n, k, t) /\ UNCHANGED lastTried
  BY <1>1, <1>2 DEF Contend, Counted
<1>3. CASE k = 0 /\ n > 1 /\ Contend(T, n - 1, numTx, 0) /\ lastTried' = t
  BY <1>1, <1>3 DEF Contend, Counted
<1>4. CASE k = 0 /\ n = 1 /\ BackToDefault(T, 0, k) /\ lastTried' = t
  BY <1>1, <1>4 DEF BackToDefault, Counted
<1> QED
  BY <1>1, <1>2, <1>3, <1>4 DEF AttemptTx

\* attemptTx called for the packets in the buffer is an Attempt, a Discard or
\* nothing to the queue.
LEMMA AttemptTxQueues ==
    ASSUME TunableAssumption, IInv, Quiet, Counted, macState # "DEFAULT", buffered > 0,
           NEW T, AttemptTx(T, buffered, numTxTries, tried)
    PROVE  Counted' /\ Queues
<1>1. /\ buffered \in Nat /\ numTxTries \in Nat /\ tried \in Nat /\ NumTx0 \in Nat
      /\ lastTried = NumTx0 /\ tried + numTxTries = NumTx0
  BY DEF IInv, TypeOK, Counted, TunableAssumption
<1>2. /\ Counted'
      /\ \/ numTxTries > 0 /\ buffered' = buffered /\ tried' \in {tried, tried + 1}
         \/ /\ tried = NumTx0 /\ buffered' = buffered - 1
            /\ tried' \in IF buffered > 1 THEN {0, 1} ELSE {0}
  BY <1>1, AttemptTxCounts
<1>3. CASE numTxTries > 0 /\ buffered' = buffered /\ tried' \in {tried, tried + 1}
  <2>1. tried < NumTx0
    BY <1>1, <1>3
  <2> QED
    BY <1>2, <1>3, <2>1 DEF Queues, Queue!Next, Queue!Attempt
<1>4. CASE /\ tried = NumTx0 /\ buffered' = buffered - 1
           /\ tried' \in IF buffered > 1 THEN {0, 1} ELSE {0}
  BY <1>2, <1>4 DEF Queues, Queue!Next, Queue!Discard
<1> QED
  BY <1>2, <1>3, <1>4

\* A copy that goes out is an Attempt, or the last one and the Discard at once.
LEMMA SendCopyQueues ==
    ASSUME TunableAssumption, IInv, Quiet, Counted, macState # "DEFAULT", buffered > 0,
           numTxTries > 0 \/ (TxAll /\ tried = 0), NEW T, SendCopy(T)
    PROVE  Counted' /\ Queues
<1>1. /\ buffered \in Nat /\ numTxTries \in Nat /\ tried \in Nat
      /\ NumTx0 \in Nat /\ NumTx0 > 0
      /\ lastTried = NumTx0 /\ tried + numTxTries = NumTx0 /\ numTx = NumTx0
  BY DEF IInv, TypeOK, Counted, TunableAssumption, Quiet
<1>2. numTxTries > 0
  BY <1>1
<1>3. CASE ~TxAll \/ numTxTries > 1
  <2>1. /\ numTxTries' = numTxTries - 1 /\ tried' = tried + 1
        /\ UNCHANGED <<buffered, lastTried>>
    BY <1>3 DEF SendCopy
  <2>2. tried < NumTx0
    BY <1>1, <1>2
  <2>3. Counted'
    BY <1>1, <2>1 DEF Counted
  <2> QED
    BY <2>1, <2>2, <2>3 DEF Queues, Queue!Next, Queue!Attempt
<1>4. CASE TxAll /\ ~(numTxTries > 1)
  <2>1. /\ numTxTries' = NumTx0 /\ tried' = 0 /\ buffered' = buffered - 1
        /\ lastTried' = tried + 1
    BY <1>1, <1>4 DEF SendCopy
  <2>2. tried = NumTx0 - 1
    BY <1>1, <1>2, <1>4
  <2>3. Counted'
    BY <1>1, <2>1, <2>2 DEF Counted
  <2> QED
    BY <2>1, <2>2, <2>3 DEF Queues, Queue!Next, Queue!Discard
<1> QED
  BY <1>3, <1>4

\* sendBeaconsOrData: a beacon is nothing to the queue, an empty buffer neither.
LEMMA SendQueues ==
    ASSUME TunableAssumption, IInv, Quiet, Counted, macState # "DEFAULT",
           numTxTries > 0 \/ (TxAll /\ tried = 0),
           NEW T, NEW b \in Nat, NEW r, SendBeaconsOrData(T, b, r)
    PROVE  Counted' /\ Queues
<1>1. CASE b > 0 /\ ~(b = 0)
  BY <1>1 DEF SendBeaconsOrData, Counted, Queues
<1>2. CASE b = 0 /\ buffered = 0 /\ AttemptTx(T, 0, 0, tried)
  <2>1. BackToDefault(T, 0, 0) /\ lastTried' = lastTried
    BY <1>2 DEF AttemptTx
  <2> QED
    BY <1>2, <2>1 DEF BackToDefault, Counted, Queues
<1>3. CASE b = 0 /\ buffered > 0 /\ SendCopy(T)
  BY <1>3, SendCopyQueues
<1> QED
  BY <1>1, <1>2, <1>3 DEF SendBeaconsOrData

\* What leaves the packets and the MAC's state alone is nothing to the queue.
LEMMA AsideQueues ==
    ASSUME Counted, UNCHANGED <<macState, buffered, numTxTries, history>>
    PROVE  Counted' /\ Queues
BY DEF Counted, Queues, history

\* Every step keeps the count and is one of the queue's.
LEMMA StepQueues ==
    ASSUME TunableAssumption, ~HearsBeacons, ~Commands, IInv, Quiet, Counted, [Next]_vars
    PROVE  Counted' /\ Queues
<1>1. CASE StartSleeping \/ StartListening \/ SenseAgain \/ RadioDecodes \/ Disable
  BY <1>1, AsideQueues
     DEF StartSleeping, StartListening, SenseAgain, RadioDecodes, Disable
<1>2. CASE UNCHANGED vars
  BY <1>2, AsideQueues DEF vars, history
<1>3. CASE SenseClear
  <2>1. "START_CARRIER_SENSING" \in timers
    BY <1>3 DEF SenseClear, Fires
  <2>2. numTxTries > 0 /\ macState # "DEFAULT"
    BY <2>1 DEF IInv, DriverServesState
  <2>3. \E b \in Nat : SendBeaconsOrData(timers \ {"START_CARRIER_SENSING"}, b, "RX")
    BY <1>3 DEF SenseClear, TunableAssumption
  <2> QED
    BY <2>2, <2>3, SendQueues
<1>4. CASE AttemptTxFires
  <2>1. /\ "ATTEMPT_TX" \in timers
        /\ AttemptTx(timers \ {"ATTEMPT_TX"}, buffered, numTxTries, tried)
    BY <1>4 DEF AttemptTxFires, Fires
  <2>2. macState # "DEFAULT" /\ "SEND_BEACONS_OR_DATA" \notin timers
    BY <2>1 DEF IInv, SingleDriver, Progress
  <2>3. buffered > 0
    <3>1. SUFFICES ASSUME buffered = 0 PROVE FALSE
      BY DEF IInv, TypeOK
    <3>2. tried = 0 /\ tried + numTxTries = NumTx0 /\ numTxTries \in Nat
      BY <2>2, <3>1 DEF Counted, IInv, TypeOK
    <3>3. numTxTries > 0
      BY <3>2 DEF TunableAssumption
    <3> QED
      BY <2>2, <3>1, <3>3 DEF IInv, DriverServesState
  <2> QED
    BY <2>1, <2>2, <2>3, AttemptTxQueues
<1>5. CASE SendFires
  <2>1. /\ "SEND_BEACONS_OR_DATA" \in timers
        /\ SendBeaconsOrData(timers \ {"SEND_BEACONS_OR_DATA"}, beacons, radio)
    BY <1>5 DEF SendFires, Fires
  <2>2. macState = "TX" /\ (numTxTries > 0 \/ (TxAll /\ tried = 0)) /\ beacons \in Nat
    BY <2>1 DEF IInv, TypeOK, DriverServesState
  <2> QED
    BY <2>1, <2>2, SendQueues
<1>6. CASE FromNetworkLayer
  <2>1. buffered \in Nat /\ tried \in Nat /\ NumTx0 \in Nat /\ NumTx0 > 0 /\ BufferSize \in Nat
    BY DEF IInv, TypeOK, TunableAssumption
  <2>2. CASE /\ buffered < BufferSize /\ macState = "DEFAULT" /\ buffered = 0
             /\ AttemptTx(IF duty THEN timers \ DutyTimers ELSE timers, 1, numTx, 0)
    <3> DEFINE T == IF duty THEN timers \ DutyTimers ELSE timers
    <3>1. AttemptTx(T, 1, NumTx0, 0) /\ lastTried = NumTx0
      BY <2>2 DEF Quiet, Counted
    <3> HIDE DEF T
    <3>2. Counted' /\ buffered' = 1 /\ tried' \in {0, 1}
      BY <2>1, <3>1, AttemptTxCounts
    <3> QED
      BY <2>2, <3>2 DEF Queues, Queue!Next, Queue!Accept
  <2>3. CASE /\ buffered < BufferSize /\ ~(macState = "DEFAULT" /\ buffered = 0)
             /\ buffered' = buffered + 1
             /\ UNCHANGED <<macState, timers, numTxTries, history>>
    <3>1. tried' = tried /\ (buffered = 0 => tried = 0)
      BY <2>3 DEF history, Counted
    <3>2. Counted'
      BY <2>1, <2>3 DEF Counted, history
    <3> QED
      BY <2>3, <3>1, <3>2 DEF Queues, Queue!Next, Queue!Accept
  <2>4. CASE UNCHANGED <<buffered, macState, timers, numTxTries, history>>
    BY <2>4, AsideQueues
  <2> QED
    BY <1>6, <2>2, <2>3, <2>4 DEF FromNetworkLayer
<1>7. CASE ReceiveData
  BY <1>7, AsideQueues DEF ReceiveData, Quiet
<1>8. ~ReceiveBeacon /\ ~Command
  BY DEF ReceiveBeacon, Quiet, Command, SetDutyCycle, SetNumTx, SetBackoffType
<1> QED
  BY <1>1, <1>2, <1>3, <1>4, <1>5, <1>6, <1>7, <1>8 DEF Next, TimerFires

\* Without beacons and commands the MAC stays quiet.
LEMMA StepQuiet ==
    ASSUME TunableAssumption, ~HearsBeacons, ~Commands, IInv, Quiet, [Next]_vars
    PROVE  Quiet'
<1>1. CASE StartSleeping \/ StartListening \/ SenseAgain \/ Disable \/ UNCHANGED vars
  BY <1>1 DEF StartSleeping, StartListening, SenseAgain, Disable, vars, config, Quiet
<1>2. CASE RadioDecodes
  BY <1>2 DEF RadioDecodes, config, Quiet
<1>3. ASSUME NEW T, NEW n, NEW k, NEW t, AttemptTx(T, n, k, t) PROVE macState' # "RX"
  BY <1>3 DEF AttemptTx, Contend, BackToDefault
<1>4. ASSUME NEW T, NEW b, NEW r, SendBeaconsOrData(T, b, r) PROVE macState' # "RX"
  BY <1>3, <1>4 DEF SendBeaconsOrData, SendCopy
<1>5. CASE SenseClear \/ SendFires
  BY <1>4, <1>5 DEF SenseClear, SendFires, config, Quiet
<1>6. CASE AttemptTxFires
  BY <1>3, <1>6 DEF AttemptTxFires, config, Quiet
<1>7. CASE FromNetworkLayer
  BY <1>3, <1>7 DEF FromNetworkLayer, config, Quiet
<1>8. CASE ReceiveData
  BY <1>8 DEF ReceiveData, config, Quiet
<1>9. ~ReceiveBeacon /\ ~Command
  BY DEF ReceiveBeacon, Quiet, Command, SetDutyCycle, SetNumTx, SetBackoffType
<1> QED
  BY <1>1, <1>2, <1>5, <1>6, <1>7, <1>8, <1>9 DEF Next, TimerFires

\* Quiet and Counted hold throughout where no beacon is heard and no command comes.
THEOREM QuietInductive ==
    ASSUME ~HearsBeacons, ~Commands
    PROVE  Spec => [](IInv /\ Quiet /\ Counted)
<1>1. Init => Quiet /\ Counted
  BY DEF Init, Quiet, Counted
<1>2. IInv /\ Quiet /\ Counted /\ [Next]_vars => Quiet' /\ Counted'
  BY StepQuiet, StepQueues, TunableAssumption
<1> QED
  BY <1>1, <1>2, Inductive, PTL DEF Spec

\* Every packet that leaves the buffer has had its numTx attempts, whatever the
\* persistence, the duty cycle and the use of a free channel.
THEOREM AlwaysFullyTried ==
    ASSUME ~HearsBeacons, ~Commands
    PROVE  Spec => []FullyTried
<1>1. Counted => FullyTried
  BY DEF Counted, FullyTried
<1> QED
  BY <1>1, QuietInductive, PTL

\* Every step of such a MAC is a step of PacketQueue or nothing to it: packets
\* are taken up to the limit, attempted numTx times and let go in order.
THEOREM ImplementsQueue ==
    ASSUME ~HearsBeacons, ~Commands
    PROVE  Spec => QueueSpec
<1>1. Init => Queue!Init
  BY DEF Init, Queue!Init
<1>2. IInv /\ Quiet /\ Counted /\ [Next]_vars => [Queue!Next]_(Queue!vars)
  BY StepQueues, TunableAssumption DEF Queues, Queue!vars
<1> QED
  BY <1>1, <1>2, QuietInductive, PTL DEF Spec, QueueSpec, Queue!Spec
=============================================================================
