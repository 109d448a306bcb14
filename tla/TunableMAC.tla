----------------------------- MODULE TunableMAC -----------------------------
(***************************************************************************)
(* One node's TunableMAC (duty-cycled CSMA), together with the VirtualMac  *)
(* packet buffer and the TimerService slots it runs on.  The layers around *)
(* it are its environment: the network layer hands packets down, the radio *)
(* hands decoded frames up after a processing delay and reports the        *)
(* channel as clear or busy, a control command may retune a parameter.     *)
(*                                                                         *)
(* Time is abstracted: a timer that is set may fire at any later step.     *)
(* Queued packets differ only by their position, so the buffer is a count; *)
(* tried and lastTried are history variables.                              *)
(***************************************************************************)
EXTENDS Naturals, FiniteSets

CONSTANTS
    BufferSize,     \* macBufferSize
    MaxNumTx,       \* the largest numTx a command may set
    NumTx0,         \* numTx in the .ini
    MaxBeacons,     \* bound: beacons that fill one sleep interval
    Duty0,          \* is 0 < dutyCycle < 1 in the .ini?
    BackoffParam,   \* backoffType in the .ini, 0..3
    Persistence,    \* CSMApersistance: "non", "p" (0 < p < 1) or "one"
    MaySkip,        \* probTx < 1
    TxAll,          \* txAllPacketsInFreeChannel
    SleepInBackoff, \* sleepDuringBackoff
    HearsBeacons,   \* some neighbour has a duty cycle, so sends beacons
    Commands,       \* control commands arrive at run time
    CanDie          \* the node may run out of energy or be destroyed

ASSUME TunableAssumption ==
    /\ BufferSize \in Nat \ {0} /\ MaxNumTx \in Nat \ {0} /\ NumTx0 \in 1..MaxNumTx
    /\ MaxBeacons \in Nat /\ BackoffParam \in 0..3
    /\ Persistence \in {"non", "p", "one"}
    /\ {Duty0, MaySkip, TxAll, SleepInBackoff, HearsBeacons, Commands, CanDie}
         \subseteq BOOLEAN

Progress == {"START_CARRIER_SENSING", "ATTEMPT_TX", "SEND_BEACONS_OR_DATA"}
DutyTimers == {"START_SLEEPING", "START_LISTENING"}
Timer == Progress \cup DutyTimers
Backoff == {"SLEEP_INT", "CONSTANT", "MULTIPLYING", "EXPONENTIAL"}

VARIABLES
    disabled,       \* VirtualMac::disabled
    macState,       \* DEFAULT, CONTENDING, TX, RX
    buffered,       \* TXBuffer.size()
    numTxTries,     \* attempts left for the front packet
    beacons,        \* remainingBeaconsToTx
    timers,         \* TimerService slots that hold a scheduled message
    radio,          \* state last commanded with SET_STATE
    inFlight,       \* frame the radio decoded, still under PROCESSING_DELAY
    duty, numTx, backoffType,  \* parameters that commands change
    tried,          \* history: attempts made for the front packet
    lastTried       \* history: attempts made for the packet discarded last

config == <<duty, numTx, backoffType>>
history == <<tried, lastTried>>
vars == <<disabled, macState, buffered, numTxTries, beacons, timers, radio,
          inFlight, duty, numTx, backoffType, tried, lastTried>>

\* startup's switch on the backoffType parameter: case 0 has no braces around
\* its else, so the assignment of BACKOFF_CONSTANT always runs.
StartupBackoff ==
    CASE BackoffParam = 0 -> "CONSTANT"
      [] BackoffParam = 1 -> "CONSTANT"
      [] BackoffParam = 2 -> "MULTIPLYING"
      [] BackoffParam = 3 -> "EXPONENTIAL"

\* The state startup() leaves behind.
Init ==
    /\ disabled = FALSE
    /\ macState = "DEFAULT"
    /\ buffered = 0 /\ numTxTries = 0 /\ beacons = 0
    /\ timers = IF Duty0 THEN {"START_SLEEPING"} ELSE {}
    /\ radio = "RX"
    /\ inFlight = "none"
    /\ duty = Duty0 /\ numTx = NumTx0 /\ backoffType = StartupBackoff
    /\ tried = 0 /\ lastTried = NumTx0

-----------------------------------------------------------------------------
\* Mutant of Contend: a skipped attempt does not schedule the next one.
ContendNoRetry(T, n, k, t) ==
    /\ macState' = "CONTENDING"
    /\ buffered' = n
    /\ \/ /\ timers' = T \cup {"START_CARRIER_SENSING"}
          /\ numTxTries' = k /\ tried' = t
       \/ /\ MaySkip
          /\ timers' = T
          /\ numTxTries' = k - 1 /\ tried' = t + 1

\* attemptTx, second half: the front of n packets contends, with k attempts
\* left and t made.  T holds the slots that are still set.
Contend(T, n, k, t) ==
    /\ macState' = "CONTENDING"
    /\ buffered' = n
    /\ \/ /\ timers' = T \cup {"START_CARRIER_SENSING"}
          /\ numTxTries' = k /\ tried' = t
       \/ /\ MaySkip
          /\ timers' = T \cup {"ATTEMPT_TX"}
          /\ numTxTries' = k - 1 /\ tried' = t + 1

\* attemptTx with nothing left to send: back to the duty cycle.
BackToDefault(T, n, k) ==
    /\ macState' = "DEFAULT"
    /\ buffered' = n /\ numTxTries' = k /\ tried' = 0
    /\ timers' = IF duty THEN T \cup {"START_SLEEPING"} ELSE T

\* Mutants of AttemptTx: the attempt limit is not looked at; the next packet
\* is given one attempt too few; a pop goes idle without a look at the rest.
AttemptTxNoLimit(T, n, k, t) == Contend(T, n, k, t) /\ UNCHANGED lastTried

AttemptTxShort(T, n, k, t) ==
    \/ k > 0 /\ Contend(T, n, k, t) /\ UNCHANGED lastTried
    \/ k = 0 /\ n > 1 /\ Contend(T, n - 1, numTx - 1, 0) /\ lastTried' = t
    \/ k = 0 /\ n <= 1 /\ BackToDefault(T, 0, k) /\ lastTried' = t

AttemptTxIdlesEarly(T, n, k, t) ==
    \/ k > 0 /\ Contend(T, n, k, t) /\ UNCHANGED lastTried
    \/ k = 0 /\ n > 0 /\ BackToDefault(T, n - 1, k) /\ lastTried' = t
    \/ k = 0 /\ n = 0 /\ BackToDefault(T, n, k) /\ UNCHANGED lastTried

\* attemptTx: with no attempt left the front packet is deleted and the next
\* one starts afresh; the recursion empties the buffer when numTx is 0.
AttemptTx(T, n, k, t) ==
    \/ k > 0 /\ Contend(T, n, k, t) /\ UNCHANGED lastTried
    \/ k = 0 /\ n > 1 /\ numTx > 0 /\ Contend(T, n - 1, numTx, 0) /\ lastTried' = t
    \/ k = 0 /\ n > 1 /\ numTx = 0 /\ BackToDefault(T, 0, 0) /\ lastTried' = 0
    \/ k = 0 /\ n = 1 /\ BackToDefault(T, 0, k) /\ lastTried' = t
    \/ k = 0 /\ n = 0 /\ BackToDefault(T, n, k) /\ UNCHANGED lastTried

\* A copy of the front packet goes to the radio, the data branch of
\* sendBeaconsOrData.  With txAllPacketsInFreeChannel a packet on its last
\* attempt leaves the buffer at once and the next one keeps the channel.
SendCopy(T) ==
    /\ radio' = "TX" /\ macState' = "TX" /\ beacons' = 0
    /\ IF ~TxAll
       THEN /\ timers' = T \cup {"ATTEMPT_TX"}
            /\ numTxTries' = numTxTries - 1 /\ tried' = tried + 1
            /\ UNCHANGED <<buffered, lastTried>>
       ELSE /\ timers' = T \cup {"SEND_BEACONS_OR_DATA"}
            /\ IF numTxTries > 1
               THEN /\ numTxTries' = numTxTries - 1 /\ tried' = tried + 1
                    /\ UNCHANGED <<buffered, lastTried>>
               ELSE /\ numTxTries' = numTx /\ tried' = 0
                    /\ buffered' = buffered - 1 /\ lastTried' = tried + 1

\* Mutant of SendBeaconsOrData: an empty buffer leaves numTxTries alone.
SendUnguarded(T, b, r) ==
    \/ /\ b > 0
       /\ beacons' = b - 1 /\ radio' = "TX" /\ macState' = "TX"
       /\ timers' = T \cup {"SEND_BEACONS_OR_DATA"}
       /\ UNCHANGED <<buffered, numTxTries, tried, lastTried>>
    \/ /\ b = 0 /\ buffered = 0
       /\ AttemptTx(T, 0, numTxTries, tried)
       /\ beacons' = 0 /\ radio' = r
    \/ b = 0 /\ buffered > 0 /\ SendCopy(T)

\* sendBeaconsOrData with b beacons still to go and the radio left in state r.
SendBeaconsOrData(T, b, r) ==
    \/ /\ b > 0
       /\ beacons' = b - 1 /\ radio' = "TX" /\ macState' = "TX"
       /\ timers' = T \cup {"SEND_BEACONS_OR_DATA"}
       /\ UNCHANGED <<buffered, numTxTries, tried, lastTried>>
    \/ /\ b = 0 /\ buffered = 0
       /\ AttemptTx(T, 0, 0, tried)
       /\ beacons' = 0 /\ radio' = r
    \/ b = 0 /\ buffered > 0 /\ SendCopy(T)

-----------------------------------------------------------------------------
\* Timer callbacks.  handleTimerMessage empties the slot, then calls back.
Fires(t) == ~disabled /\ t \in timers

StartSleeping ==
    /\ Fires("START_SLEEPING")
    /\ radio' = "SLEEP"
    /\ timers' = (timers \ {"START_SLEEPING"}) \cup {"START_LISTENING"}
    /\ UNCHANGED <<disabled, macState, buffered, numTxTries, beacons, inFlight,
                   config, history>>

StartListening ==
    /\ Fires("START_LISTENING")
    /\ radio' = "RX"
    /\ timers' = (timers \ {"START_LISTENING"}) \cup {"START_SLEEPING"}
    /\ UNCHANGED <<disabled, macState, buffered, numTxTries, beacons, inFlight,
                   config, history>>

\* Channel clear (and, p-persistent, the draw says transmit): as many beacons
\* as cover a sleep interval, then data.
SenseClear ==
    /\ Fires("START_CARRIER_SENSING")
    /\ \E b \in IF duty THEN 0..MaxBeacons ELSE {0} :
           SendBeaconsOrData(timers \ {"START_CARRIER_SENSING"}, b, "RX")
    /\ UNCHANGED <<disabled, inFlight, config>>

\* Channel busy, assessment not valid yet, or clear but p-persistent and the
\* draw says wait: sense again later, asleep only in a non-persistent backoff.
SenseAgain ==
    /\ Fires("START_CARRIER_SENSING")
    /\ UNCHANGED timers
    /\ radio' \in IF Persistence = "non" /\ (SleepInBackoff \/ duty)
                  THEN {"RX", "SLEEP"} ELSE {"RX"}
    /\ UNCHANGED <<disabled, macState, buffered, numTxTries, beacons, inFlight,
                   config, history>>

AttemptTxFires ==
    /\ Fires("ATTEMPT_TX")
    /\ AttemptTx(timers \ {"ATTEMPT_TX"}, buffered, numTxTries, tried)
    /\ UNCHANGED <<disabled, beacons, radio, inFlight, config>>

SendFires ==
    /\ Fires("SEND_BEACONS_OR_DATA")
    /\ SendBeaconsOrData(timers \ {"SEND_BEACONS_OR_DATA"}, beacons, radio)
    /\ UNCHANGED <<disabled, inFlight, config>>

-----------------------------------------------------------------------------
\* Messages from the layers above and below.

\* A packet from the network layer is buffered; when it finds the MAC idle it
\* suspends the duty cycle and starts the transmission process.  With the
\* buffer full it is dropped and only MAC_BUFFER_FULL goes up.
FromNetworkLayer ==
    /\ ~disabled
    /\ \/ /\ buffered < BufferSize /\ macState = "DEFAULT" /\ buffered = 0
          /\ AttemptTx(IF duty THEN timers \ DutyTimers ELSE timers, 1, numTx, 0)
       \/ /\ buffered < BufferSize /\ ~(macState = "DEFAULT" /\ buffered = 0)
          /\ buffered' = buffered + 1
          /\ UNCHANGED <<macState, timers, numTxTries, history>>
       \/ buffered >= BufferSize
          /\ UNCHANGED <<buffered, macState, timers, numTxTries, history>>
    /\ UNCHANGED <<disabled, beacons, radio, inFlight, config>>

\* The radio finishes decoding a frame for this node: it reaches the MAC only
\* PROCESSING_DELAY later, whatever the MAC commands in between.
RadioDecodes ==
    /\ ~disabled /\ radio # "SLEEP" /\ inFlight = "none"
    /\ inFlight' \in {"DATA"} \cup (IF HearsBeacons THEN {"BEACON"} ELSE {})
    /\ UNCHANGED <<disabled, macState, buffered, numTxTries, beacons, timers,
                   radio, config, history>>

\* Mutant of ReceiveBeacon: the pending carrier sense is not cancelled.
ReceiveBeaconKeepsSensing ==
    /\ ~disabled /\ inFlight = "BEACON" /\ inFlight' = "none"
    /\ IF macState = "TX"
       THEN UNCHANGED <<macState, timers>>
       ELSE macState' = "RX" /\ timers' = timers \cup {"ATTEMPT_TX"}
    /\ UNCHANGED <<disabled, buffered, numTxTries, beacons, radio, config, history>>

\* A beacon: stay awake for the data frame behind it, retry ATTEMPT_TX later.
ReceiveBeacon ==
    /\ ~disabled /\ inFlight = "BEACON" /\ inFlight' = "none"
    /\ IF macState = "TX"
       THEN UNCHANGED <<macState, timers>>
       ELSE /\ macState' = "RX"
            /\ timers' = {"ATTEMPT_TX"} \cup
                 CASE macState = "DEFAULT" ->
                        IF duty THEN timers \ {"START_SLEEPING"} ELSE timers
                   [] macState = "CONTENDING" ->
                        timers \ {"START_CARRIER_SENSING"}
                   [] OTHER -> timers
    /\ UNCHANGED <<disabled, buffered, numTxTries, beacons, radio, config, history>>

\* A data frame goes up; in RX it ends the wait.
ReceiveData ==
    /\ ~disabled /\ inFlight = "DATA" /\ inFlight' = "none"
    /\ IF macState = "RX"
       THEN AttemptTx(timers \ {"ATTEMPT_TX"}, buffered, numTxTries, tried)
       ELSE UNCHANGED <<macState, timers, buffered, numTxTries, history>>
    /\ UNCHANGED <<disabled, beacons, radio, config>>

-----------------------------------------------------------------------------
\* Control commands.
SetDutyCycle(d) ==
    /\ Commands /\ ~disabled
    /\ duty' = d
    /\ timers' = CASE d /\ ~duty -> timers \cup {"START_SLEEPING"}
                   [] ~d /\ duty -> timers \ DutyTimers
                   [] OTHER -> timers
    /\ radio' = IF ~d /\ duty /\ macState = "DEFAULT" THEN "RX" ELSE radio
    /\ UNCHANGED <<disabled, macState, buffered, numTxTries, beacons, inFlight,
                   numTx, backoffType, history>>

SetNumTx(n) ==
    /\ Commands /\ ~disabled
    /\ numTx' = n
    /\ UNCHANGED <<disabled, macState, buffered, numTxTries, beacons, timers,
                   radio, inFlight, duty, backoffType, history>>

SetBackoffType(b) ==
    /\ Commands /\ ~disabled
    /\ b = "SLEEP_INT" => duty
    /\ backoffType' = b
    /\ UNCHANGED <<disabled, macState, buffered, numTxTries, beacons, timers,
                   radio, inFlight, duty, numTx, history>>

\* OUT_OF_ENERGY or DESTROY_NODE: every later message is deleted unread.
Disable ==
    /\ CanDie /\ ~disabled
    /\ disabled' = TRUE
    /\ UNCHANGED <<macState, buffered, numTxTries, beacons, timers, radio,
                   inFlight, config, history>>

TimerFires == \/ StartSleeping \/ StartListening \/ SenseClear \/ SenseAgain
              \/ AttemptTxFires \/ SendFires

Command == \/ \E d \in BOOLEAN : SetDutyCycle(d)
           \/ \E n \in 0..MaxNumTx : SetNumTx(n)
           \/ \E b \in Backoff : SetBackoffType(b)

Next == \/ TimerFires \/ FromNetworkLayer
        \/ RadioDecodes \/ ReceiveBeacon \/ ReceiveData
        \/ Command \/ Disable

\* The simulator fires every scheduled message (weak fairness on each slot);
\* a channel that is found clear again and again is eventually taken.
Fairness ==
    /\ WF_vars(AttemptTxFires) /\ WF_vars(SendFires)
    /\ WF_vars(ReceiveBeacon) /\ WF_vars(ReceiveData)
    /\ SF_vars(SenseClear)

Spec == Init /\ [][Next]_vars
FairSpec == Spec /\ Fairness

-----------------------------------------------------------------------------
TypeOK ==
    /\ disabled \in BOOLEAN /\ duty \in BOOLEAN
    /\ macState \in {"DEFAULT", "CONTENDING", "TX", "RX"}
    /\ buffered \in 0..BufferSize
    /\ numTxTries \in 0..MaxNumTx /\ numTx \in 0..MaxNumTx
    /\ beacons \in 0..MaxBeacons
    /\ timers \subseteq Timer
    /\ radio \in {"RX", "TX", "SLEEP"}
    /\ inFlight \in {"none", "DATA", "BEACON"}
    /\ backoffType \in Backoff
    /\ tried \in 0..MaxNumTx /\ lastTried \in 0..MaxNumTx

\* Exactly one timer drives the MAC whenever it is not idle, and none when it
\* is: no frame, command or callback leaves it waiting for nothing, or with
\* two callbacks racing to serve the same packet.
SingleDriver ==
    IF macState = "DEFAULT" THEN timers \cap Progress = {}
    ELSE \E t \in Progress : timers \cap Progress = {t}

\* An idle MAC has an empty buffer: fromNetworkLayer starts transmitting only
\* for a packet that finds the buffer empty, so one left behind would stay.
IdleIsEmpty == macState = "DEFAULT" => buffered = 0

\* The front packet never has more attempts behind it and ahead of it than a
\* packet may have, whatever is retuned or received meanwhile.
AtMostNumTx == tried + numTxTries <= MaxNumTx

\* Which timer drives the MAC tells what it is doing and what it still has:
\* carrier sense only while contending, for a packet and with an attempt left
\* for it; back-to-back sending only in TX, with an attempt in hand (or, keeping
\* the channel, a packet not yet attempted); attempts in hand mean a packet to
\* spend them on.
DriverServesState ==
    /\ macState = "DEFAULT" => numTxTries = 0
    /\ "START_CARRIER_SENSING" \in timers => macState = "CONTENDING" /\ numTxTries > 0
    /\ macState = "CONTENDING" => buffered > 0
    /\ "SEND_BEACONS_OR_DATA" \in timers =>
          /\ macState = "TX"
          /\ IF TxAll THEN numTxTries > 0 \/ tried = 0
             ELSE numTxTries > 0 /\ buffered > 0
    /\ "SEND_BEACONS_OR_DATA" \notin timers /\ numTxTries > 0 => buffered > 0

\* A packet leaves the buffer only after numTx attempts (TunableMAC.ned:31).
FullyTried == lastTried = NumTx0

\* The duty cycle is suspended while the MAC is busy: its timers, which put
\* the radio to sleep, are set only in the default state.
DutyTimersOnlyWhenIdle == macState # "DEFAULT" => timers \cap DutyTimers = {}

\* With the duty cycle off and no sleep in backoff, an idle MAC does not leave
\* the radio asleep (the intent stated at TunableMAC.cc:501-505).
NotStuckAsleep ==
    ~duty /\ ~SleepInBackoff /\ macState = "DEFAULT" => radio # "SLEEP"

\* Without beacons and commands the MAC is a FIFO that gives every packet
\* numTx attempts and then lets it go, and that never stalls.
Queue == INSTANCE PacketQueue
            WITH Size <- BufferSize, Tries <- NumTx0, queued <- buffered
QueueSpec == Queue!Spec
QueueNeverStalls == Queue!FairSpec
=============================================================================
