-------------------------------- MODULE Radio --------------------------------
(***************************************************************************)
(* The radio of one node (Radio.cc): its three basic states and the        *)
(* delayed transitions between them, the transmit buffer, and the list of  *)
(* signals it is receiving.  The MAC above may command anything at any     *)
(* time; signals of other nodes begin and end at any time.                 *)
(*                                                                         *)
(* Left out: powers, energy, the RSSI history, and the carrier sense       *)
(* interrupt, which only sends the MAC a message.  bitErrors() returns 0   *)
(* whatever the interference (Radio.cc:1035), so only the simple collision *)
(* model lets a signal disturb another.                                    *)
(***************************************************************************)
EXTENDS Naturals

CONSTANTS
    Sender,         \* the nodes whose signals reach this one
    bufferSize,     \* of the transmit buffer, in frames
    Pars            \* the settings considered, see Parameters

BasicState == {"RX", "TX", "SLEEP"}
Parameters == [startState : BasicState, simpleCollisions : BOOLEAN]

ASSUME RadioAssumption == bufferSize \in Nat \ {0} /\ Pars \subseteq Parameters

VARIABLES
    par,            \* the setting
    phase,          \* "off" until NODE_STARTUP, "on", "dead" (disabled again)
    state,          \* the basic state
    changingToState,
    pending,        \* the events the radio has scheduled for itself
    selfState,      \* the state the scheduled SET_STATE asks for
    stateAfterTX,
    radioBuffer,    \* frames in the transmit buffer
    receivedSignals,  \* per sender: no entry, can still be received, or not
    air,            \* environment: per sender, its signal; history: heard in whole
    toMac,          \* whose frame the last step passed up
    wanted,         \* history: where the commands given so far should end
    late            \* history: a command came too late, see Command

radioVars == <<state, changingToState, pending, selfState, stateAfterTX, radioBuffer>>
vars == <<par, phase, radioVars, receivedSignals, air, toMac, wanted, late>>

None == "none"
Event == {"ENTER_STATE", "CONTINUE_TX", "SET_STATE"}

\* How much of a signal can be had here: it can be decoded, or only heard, or
\* not even that, or is on another frequency.
Strength == {"decodable", "audible", "faint", "elsewhere"}

\* A signal is heard in whole as long as the radio listens and, if collisions
\* are simple, no other signal that can be heard begins.
Signal == [strength : Strength \cup {None}, whole : BOOLEAN]
Silence == [strength |-> None, whole |-> FALSE]
OnAir(m) == air[m].strength # None

Init ==
    /\ par \in Pars
    /\ phase = "off"
    /\ state = par.startState /\ changingToState = None
    /\ pending = IF state = "TX" THEN {"SET_STATE"} ELSE {}
    /\ selfState = "RX" /\ stateAfterTX = "RX" /\ radioBuffer = 0
    /\ receivedSignals = [m \in Sender |-> None]
    /\ air = [m \in Sender |-> Silence]
    /\ toMac = {}
    /\ wanted = IF state = "TX" THEN "RX" ELSE state
    /\ late = FALSE

Listening == phase = "on" /\ state = "RX" /\ changingToState = None

\* What the radio's own step does to the signals on the air: it may miss them.
Heed ==
    /\ air' = [m \in Sender |-> [air[m] EXCEPT !.whole = @ /\ Listening']]
    /\ toMac' = {}

-----------------------------------------------------------------------------
Startup ==
    /\ phase = "off" /\ phase' = "on"
    /\ UNCHANGED <<par, radioVars, receivedSignals, wanted, late>>
    /\ Heed

\* OUT_OF_ENERGY or DESTROY_NODE.
Disable ==
    /\ phase = "on" /\ phase' = "dead"
    /\ UNCHANGED <<par, radioVars, receivedSignals, wanted, late>>
    /\ Heed

\* A disabled radio deletes what it receives, its own events included.
Delete(e) ==
    /\ phase # "on" /\ e \in pending
    /\ pending' = pending \ {e}
    /\ UNCHANGED <<par, phase, state, changingToState, selfState, stateAfterTX, radioBuffer,
                   receivedSignals, wanted, late>>
    /\ Heed

Happens(e) == phase = "on" /\ e \in pending

\* The transition to x begins; one under way is given up.
Change(x) ==
    /\ changingToState' = x
    /\ pending' = (pending \ {"SET_STATE"}) \cup {"ENTER_STATE"}
    /\ UNCHANGED <<state, selfState, stateAfterTX, radioBuffer>>

\* A SET_STATE that the radio sends to itself, to leave TX.
SelfCommand ==
    /\ Happens("SET_STATE")
    /\ Change(selfState)
    /\ UNCHANGED <<par, phase, receivedSignals, wanted, late>>
    /\ Heed

\* A transmission is under way: a command of the MAC is for afterwards.
InTX == state = "TX" /\ changingToState = None

\* Nothing to do: the radio is in that state, or on its way to it.
Already(x) == (state = x /\ changingToState = None) \/ changingToState = x

\* Histories of a command x.  TX means to send and come back to listening, and
\* leaves what was wanted alone when the radio is sending anyway.  A command is
\* late when the radio has decided already how to leave TX; the record of it
\* stays for the next transmission.
Noted(x) ==
    /\ wanted' = IF x # "TX" THEN x ELSE IF Already(x) THEN wanted ELSE "RX"
    /\ late' = IF ~InTX THEN late /\ stateAfterTX # "RX"
               ELSE IF x = "TX" THEN late
               ELSE "SET_STATE" \in pending

\* Mutant of Command: one that comes during a transmission is obeyed at once.
CommandAtOnce(x) ==
    /\ phase = "on"
    /\ IF Already(x) THEN UNCHANGED radioVars ELSE Change(x)
    /\ Noted(x)
    /\ UNCHANGED <<par, phase, receivedSignals>>
    /\ Heed

\* SET_STATE from the layers above.
Command(x) ==
    /\ phase = "on"
    /\ IF Already(x) THEN UNCHANGED radioVars
       ELSE IF InTX
       THEN /\ stateAfterTX' = x
            /\ UNCHANGED <<state, changingToState, pending, selfState, radioBuffer>>
       ELSE Change(x)
    /\ Noted(x)
    /\ UNCHANGED <<par, phase, receivedSignals>>
    /\ Heed

\* The front frame goes on the air, until CONTINUE_TX.
Transmit(after) ==
    /\ radioBuffer' = radioBuffer - 1
    /\ pending' = after \cup {"CONTINUE_TX"}
    /\ UNCHANGED selfState

\* The radio tells itself to leave TX.
Leave(x, after) ==
    /\ pending' = after \cup {"SET_STATE"}
    /\ selfState' = x
    /\ UNCHANGED radioBuffer

\* Mutant of Spoilt: a signal heard in part is received all the same.
SpoiltNever(m) == receivedSignals[m]

\* Signals that were there before the radio came to listen cannot be received.
Spoilt(m) == IF receivedSignals[m] = None THEN None ELSE "spoilt"

EnterState ==
    /\ Happens("ENTER_STATE")
    /\ state' = changingToState /\ changingToState' = None
    /\ LET rest == pending \ {"ENTER_STATE"}
       IN  IF changingToState # "TX"
           THEN pending' = rest /\ UNCHANGED <<selfState, radioBuffer>>
           ELSE IF radioBuffer > 0 THEN Transmit(rest) ELSE Leave("RX", rest)
    /\ receivedSignals' = IF changingToState # "RX" THEN receivedSignals
                          ELSE [m \in Sender |-> Spoilt(m)]
    /\ UNCHANGED <<par, phase, stateAfterTX, wanted, late>>
    /\ Heed

\* Mutant of ContinueTx: the target of this transmission stays for the next.
ContinueTxKeepsTarget ==
    /\ Happens("CONTINUE_TX")
    /\ LET rest == pending \ {"CONTINUE_TX"}
       IN  IF radioBuffer > 0 THEN Transmit(rest) ELSE Leave(stateAfterTX, rest)
    /\ UNCHANGED <<par, phase, state, stateAfterTX, changingToState, receivedSignals,
                   wanted, late>>
    /\ Heed

\* The next frame, or the end of the transmission.
ContinueTx ==
    /\ Happens("CONTINUE_TX")
    /\ LET rest == pending \ {"CONTINUE_TX"}
       IN  IF radioBuffer > 0
           THEN Transmit(rest) /\ UNCHANGED stateAfterTX
           ELSE Leave(stateAfterTX, rest) /\ stateAfterTX' = "RX"
    /\ UNCHANGED <<par, phase, state, changingToState, receivedSignals,
                   wanted, late>>
    /\ Heed

\* A frame of the MAC is buffered (or, the buffer being full, discarded).
MacPacket ==
    /\ phase = "on" /\ radioBuffer < bufferSize
    /\ radioBuffer' = radioBuffer + 1
    /\ UNCHANGED <<par, phase, state, changingToState, pending, selfState, stateAfterTX,
                   receivedSignals, wanted, late>>
    /\ Heed

\* SET_CARRIER_FREQ: the signals of the old frequency are forgotten.
SetCarrierFreq ==
    /\ phase = "on"
    /\ receivedSignals' = [m \in Sender |-> None]
    /\ air' = [m \in Sender |-> [air[m] EXCEPT !.whole = FALSE]] /\ toMac' = {}
    /\ UNCHANGED <<par, phase, radioVars, wanted, late>>

-----------------------------------------------------------------------------
\* A signal of m begins.  While the radio listens it spoils the others, if
\* collisions are simple and it can be heard.
Disturbs(strength) == par.simpleCollisions /\ strength \in {"decodable", "audible"}

SignalStart(m, strength) ==
    /\ ~OnAir(m)
    /\ air' = [o \in Sender |->
                 IF o = m THEN [strength |-> strength, whole |-> Listening]
                 ELSE [air[o] EXCEPT !.whole = @ /\ ~Disturbs(strength)]]
    /\ receivedSignals' =
         IF strength = "elsewhere" \/ phase # "on" THEN receivedSignals
         ELSE [o \in Sender |->
                 IF o = m THEN IF Listening /\ strength = "decodable" THEN "clean" ELSE "spoilt"
                 ELSE IF Listening /\ Disturbs(strength) THEN Spoilt(o)
                 ELSE receivedSignals[o]]
    /\ toMac' = {}
    /\ UNCHANGED <<par, phase, radioVars, wanted, late>>

\* It ends: a listening radio that could receive all of it passes its frame up.
SignalEnd(m) ==
    /\ OnAir(m)
    /\ air' = [air EXCEPT ![m] = Silence]
    /\ receivedSignals' = IF phase = "on" THEN [receivedSignals EXCEPT ![m] = None]
                          ELSE receivedSignals
    /\ toMac' = IF Listening /\ receivedSignals[m] = "clean" THEN {m} ELSE {}
    /\ UNCHANGED <<par, phase, radioVars, wanted, late>>

Next ==
    \/ Startup \/ Disable \/ (\E e \in Event : Delete(e))
    \/ SelfCommand \/ EnterState \/ ContinueTx
    \/ \E x \in BasicState : Command(x)
    \/ MacPacket \/ SetCarrierFreq
    \/ \E m \in Sender : SignalEnd(m) \/ \E s \in Strength : SignalStart(m, s)

Spec == Init /\ [][Next]_vars

-----------------------------------------------------------------------------
TypeOK ==
    /\ par \in Parameters /\ phase \in {"off", "on", "dead"}
    /\ state \in BasicState /\ changingToState \in BasicState \cup {None}
    /\ pending \subseteq Event
    /\ selfState \in BasicState \ {"TX"} /\ stateAfterTX \in BasicState \ {"TX"}
    /\ radioBuffer \in 0..bufferSize
    /\ receivedSignals \in [Sender -> {None, "clean", "spoilt"}]
    /\ air \in [Sender -> Signal] /\ toMac \subseteq Sender
    /\ wanted \in BasicState \ {"TX"} /\ late \in BOOLEAN

\* A radio in a transition waits for the end of just that transition, one that
\* transmits for just one event that lets it go on or leave, and one that rests
\* for nothing: commands in any order neither strand the radio nor let it act
\* twice.  (One told to start in TX is stranded: what it scheduled for itself
\* is deleted before NODE_STARTUP.)
OneDriver ==
    phase = "on" /\ par.startState # "TX" =>
        IF changingToState # None THEN pending = {"ENTER_STATE"}
        ELSE IF state = "TX" THEN pending \in {{"CONTINUE_TX"}, {"SET_STATE"}}
        ELSE pending = {}

\* A radio at rest is where the MAC's commands should have taken it, however
\* they fell between transitions and transmissions, unless one was late.
ObeysCommands ==
    phase = "on" /\ pending = {} /\ state # "TX" /\ ~late => state = wanted

\* The radio passes up just the signals that it could decode and that it
\* heard in whole, from beginning to end.
ReceivesWhole ==
    [][\A m \in Sender :
         OnAir(m) /\ ~OnAir(m)' =>
            (m \in toMac' <=> air[m].strength = "decodable" /\ air[m].whole)]_vars
=============================================================================
