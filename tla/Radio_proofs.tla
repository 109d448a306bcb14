---------------------------- MODULE Radio_proofs ----------------------------
(***************************************************************************)
(* The radio's properties for any senders, any buffer size and any         *)
(* settings.  Three invariants, each inductive with those before it:       *)
(*   - Driven: what is pending follows from the state, or (a radio told to *)
(*     start in TX) nothing is and nothing ever will be;                   *)
(*   - Headed: where a radio that has not been told too late is heading,   *)
(*     step by step along a transmission, is what is wanted;               *)
(*   - Tracked: a listening radio's list says which signals are whole.     *)
(***************************************************************************)
EXTENDS Radio, TLAPS

Driven ==
    phase # "dead" =>
        /\ changingToState # None => pending = {"ENTER_STATE"}
        /\ changingToState = None /\ state = "TX" =>
              \/ pending \in {{"CONTINUE_TX"}, {"SET_STATE"}}
              \/ pending = {} /\ par.startState = "TX"
        /\ changingToState = None /\ state # "TX" => pending = {}
        /\ phase = "off" => changingToState = None /\ state = par.startState

Heading ==
    IF changingToState \in {"RX", "SLEEP"} THEN changingToState = wanted /\ stateAfterTX = "RX"
    ELSE IF changingToState = "TX" THEN wanted = "RX" /\ stateAfterTX = "RX"
    ELSE IF state # "TX" THEN state = wanted /\ stateAfterTX = "RX"
    ELSE IF "SET_STATE" \in pending THEN selfState = wanted /\ stateAfterTX = "RX"
    ELSE stateAfterTX = wanted

Headed ==
    phase # "dead" =>
        /\ ~late => Heading
        /\ late /\ changingToState = "TX" => stateAfterTX = "SLEEP"
        /\ phase = "off" => ~late /\ (state = "TX" => wanted = "RX")

Tracked ==
    \A m \in Sender :
        /\ air[m].whole => OnAir(m) /\ Listening
        /\ phase # "dead" => (receivedSignals[m] # None => OnAir(m))
        /\ phase = "off" => receivedSignals[m] = None
        /\ Listening => (receivedSignals[m] = "clean" <=>
                            air[m].strength = "decodable" /\ air[m].whole)

-----------------------------------------------------------------------------
\* Taking note of the radio's own step keeps the types of signals.
LEMMA HeedTyped ==
    ASSUME air \in [Sender -> Signal], Heed
    PROVE  air' \in [Sender -> Signal] /\ toMac' \subseteq Sender
<1>1. \A m \in Sender : [air[m] EXCEPT !.whole = @ /\ Listening'] \in Signal
  BY DEF Signal
<1> QED
  BY <1>1 DEF Heed

\* Initially all is of its type and driven.
LEMMA InitOK ==
    ASSUME Init
    PROVE  TypeOK /\ Driven
<1>1. par \in Parameters /\ par.startState \in BasicState
  BY RadioAssumption DEF Init, Parameters
<1>2. air \in [Sender -> Signal]
  BY DEF Init, Silence, Signal, None
<1>3. wanted \in BasicState \ {"TX"}
  BY <1>1 DEF Init, BasicState
<1>4. pending \subseteq Event
  BY DEF Init, Event
<1>5. receivedSignals \in [Sender -> {None, "clean", "spoilt"}] /\ late \in BOOLEAN
  BY DEF Init
<1>6. radioBuffer \in 0..bufferSize /\ state \in BasicState
  BY <1>1, RadioAssumption DEF Init
<1>7. TypeOK
  BY <1>1, <1>2, <1>3, <1>4, <1>5, <1>6 DEF Init, TypeOK, BasicState
<1> QED
  BY <1>7 DEF Init, Driven

\* Every variable stays within its type, whatever the radio is told or hears.
LEMMA TypeStep ==
    ASSUME TypeOK, Driven, [Next]_vars
    PROVE  TypeOK'
<1> USE RadioAssumption DEF TypeOK
<1>1. CASE Startup
  BY <1>1, HeedTyped DEF Startup, radioVars
<1>2. CASE Disable
  BY <1>2, HeedTyped DEF Disable, radioVars
<1>3. ASSUME NEW e \in Event, Delete(e) PROVE TypeOK'
  BY <1>3, HeedTyped DEF Delete
<1>4. CASE SelfCommand
  BY <1>4, HeedTyped DEF SelfCommand, Change, Event, BasicState
<1>5. CASE EnterState
  <2>1. receivedSignals' \in [Sender -> {None, "clean", "spoilt"}]
    BY <1>5 DEF EnterState, Spoilt
  <2>2. state' \in BasicState /\ changingToState' \in BasicState \cup {None}
    BY <1>5 DEF EnterState, Happens, Driven
  <2>3. pending' \subseteq Event /\ selfState' \in BasicState \ {"TX"}
    BY <1>5 DEF EnterState, Transmit, Leave, Event, BasicState
  <2>4. radioBuffer' \in 0..bufferSize
    BY <1>5 DEF EnterState, Transmit, Leave
  <2> QED
    BY <1>5, <2>1, <2>2, <2>3, <2>4, HeedTyped DEF EnterState
<1>6. CASE ContinueTx
  <2>1. pending' \subseteq Event /\ selfState' \in BasicState \ {"TX"}
    BY <1>6 DEF ContinueTx, Transmit, Leave, Event
  <2>2. stateAfterTX' \in BasicState \ {"TX"}
    BY <1>6 DEF ContinueTx, BasicState
  <2>3. radioBuffer' \in 0..bufferSize
    BY <1>6 DEF ContinueTx, Transmit, Leave
  <2> QED
    BY <1>6, <2>1, <2>2, <2>3, HeedTyped DEF ContinueTx
<1>7. ASSUME NEW x \in BasicState, Command(x) PROVE TypeOK'
  <2>1. wanted' \in BasicState \ {"TX"}
    BY <1>7 DEF Command, Noted, BasicState
  <2>2. late' \in BOOLEAN
    <3>1. Noted(x)
      BY <1>7 DEF Command
    <3>2. CASE ~InTX
      <4>1. late' = (late /\ stateAfterTX # "RX")
        BY <3>1, <3>2 DEF Noted
      <4> QED
        BY <4>1
    <3>3. CASE InTX /\ x = "TX"
      <4>1. late' = late
        BY <3>1, <3>3 DEF Noted
      <4> QED
        BY <4>1
    <3>4. CASE InTX /\ x # "TX"
      <4>1. late' = ("SET_STATE" \in pending)
        BY <3>1, <3>4 DEF Noted
      <4> QED
        BY <4>1
    <3> QED
      BY <3>2, <3>3, <3>4
  <2>3. radioBuffer' = radioBuffer /\ state' = state /\ selfState' = selfState
    BY <1>7 DEF Command, Change, radioVars
  <2>4. changingToState' \in BasicState \cup {None} /\ pending' \subseteq Event
    BY <1>7 DEF Command, Change, radioVars, Event
  <2>5. stateAfterTX' \in BasicState \ {"TX"}
    <3>1. CASE Already(x)
      BY <1>7, <3>1 DEF Command, radioVars
    <3>2. CASE ~Already(x) /\ InTX
      <4>1. stateAfterTX' = x /\ x # "TX"
        BY <1>7, <3>2 DEF Command, Already, InTX
      <4> QED
        BY <4>1
    <3>3. CASE ~Already(x) /\ ~InTX
      BY <1>7, <3>3 DEF Command, Change
    <3> QED
      BY <3>1, <3>2, <3>3
  <2> QED
    BY <1>7, <2>1, <2>2, <2>3, <2>4, <2>5, HeedTyped DEF Command
<1>8. CASE MacPacket
  BY <1>8, HeedTyped DEF MacPacket
<1>9. CASE SetCarrierFreq
  <2>1. air' \in [Sender -> Signal]
    BY <1>9 DEF SetCarrierFreq, Signal
  <2> QED
    BY <1>9, <2>1 DEF SetCarrierFreq, radioVars
<1>10. ASSUME NEW m \in Sender, SignalEnd(m) PROVE TypeOK'
  <2>1. air' \in [Sender -> Signal]
    BY <1>10 DEF SignalEnd, Silence, Signal
  <2> QED
    BY <1>10, <2>1 DEF SignalEnd, radioVars
<1>11. ASSUME NEW m \in Sender, NEW s \in Strength, SignalStart(m, s) PROVE TypeOK'
  <2>1. \A o \in Sender : /\ [air[o] EXCEPT !.whole = @ /\ ~Disturbs(s)] \in Signal
                           /\ [strength |-> s, whole |-> Listening] \in Signal
    BY DEF Signal, Listening
  <2>2. air' \in [Sender -> Signal]
    BY <1>11, <2>1 DEF SignalStart
  <2>3. receivedSignals' \in [Sender -> {None, "clean", "spoilt"}]
    BY <1>11 DEF SignalStart, Spoilt
  <2> QED
    BY <1>11, <2>2, <2>3 DEF SignalStart, radioVars
<1>12. CASE UNCHANGED vars
  BY <1>12 DEF vars, radioVars
<1> QED
  BY <1>1, <1>2, <1>3, <1>4, <1>5, <1>6, <1>7, <1>8, <1>9, <1>10, <1>11, <1>12 DEF Next


\* What is pending follows from the state.
LEMMA DrivenStep ==
    ASSUME TypeOK, Driven, [Next]_vars
    PROVE  Driven'
<1> USE DEF TypeOK, Driven, None
<1>1. CASE Startup
  BY <1>1 DEF Startup, radioVars
<1>2. CASE Disable
  BY <1>2 DEF Disable
<1>3. ASSUME NEW e \in Event, Delete(e) PROVE Driven'
  BY <1>3 DEF Delete, Event
<1>4. CASE SelfCommand
  BY <1>4 DEF SelfCommand, Happens, Change, BasicState
<1>5. CASE EnterState
  BY <1>5 DEF EnterState, Happens, Transmit, Leave
<1>6. CASE ContinueTx
  BY <1>6 DEF ContinueTx, Happens, Transmit, Leave
<1>7. ASSUME NEW x \in BasicState, Command(x) PROVE Driven'
  BY <1>7 DEF Command, Change, Already, InTX, radioVars, BasicState
<1>8. CASE MacPacket
  BY <1>8 DEF MacPacket
<1>9. CASE SetCarrierFreq
  BY <1>9 DEF SetCarrierFreq, radioVars
<1>10. ASSUME NEW m \in Sender, SignalEnd(m) PROVE Driven'
  BY <1>10 DEF SignalEnd, radioVars
<1>11. ASSUME NEW m \in Sender, NEW s \in Strength, SignalStart(m, s) PROVE Driven'
  BY <1>11 DEF SignalStart, radioVars
<1>12. CASE UNCHANGED vars
  BY <1>12 DEF vars, radioVars
<1> QED
  BY <1>1, <1>2, <1>3, <1>4, <1>5, <1>6, <1>7, <1>8, <1>9, <1>10, <1>11, <1>12 DEF Next

\* The type invariant, for any senders, buffer and settings.
THEOREM TypeCorrect == Spec => [](TypeOK /\ Driven)
<1>1. TypeOK /\ Driven /\ [Next]_vars => TypeOK' /\ Driven'
  BY TypeStep, DrivenStep
<1> QED
  BY InitOK, <1>1, PTL DEF Spec

\* Whatever is commanded whenever, one event drives the radio: no transition
\* or transmission is stranded, and none is driven twice.
THEOREM OneDriverAlways == Spec => []OneDriver
<1>1. TypeOK /\ Driven => OneDriver
  BY DEF TypeOK, Driven, OneDriver, None
<1> QED
  BY <1>1, TypeCorrect, PTL

-----------------------------------------------------------------------------
\* Every step of a radio that was not told too late heads for what is wanted.
LEMMA HeadedStep ==
    ASSUME TypeOK, Driven, Headed, [Next]_vars
    PROVE  Headed'
<1> USE DEF TypeOK, Driven, Headed, Heading, None
<1>1. CASE Startup
  BY <1>1 DEF Startup, radioVars
<1>2. CASE Disable
  BY <1>2 DEF Disable
<1>3. ASSUME NEW e \in Event, Delete(e) PROVE Headed'
  BY <1>3 DEF Delete, Event
<1>4. CASE SelfCommand
  BY <1>4 DEF SelfCommand, Happens, Change, BasicState
<1>5. CASE EnterState
  <2>1. CASE changingToState # "TX"
    BY <1>5, <2>1 DEF EnterState, Happens, BasicState
  <2>2. CASE changingToState = "TX" /\ radioBuffer > 0
    BY <1>5, <2>2 DEF EnterState, Happens, Transmit
  <2>3. CASE changingToState = "TX" /\ ~(radioBuffer > 0)
    BY <1>5, <2>3 DEF EnterState, Happens, Leave
  <2> QED
    BY <2>1, <2>2, <2>3
<1>6. CASE ContinueTx
  BY <1>6 DEF ContinueTx, Happens, Transmit, Leave
<1>7. ASSUME NEW x \in BasicState, Command(x) PROVE Headed'
  <2>1. CASE Already(x)
    BY <1>7, <2>1 DEF Command, Already, InTX, Noted, radioVars, BasicState
  <2>2. CASE ~Already(x) /\ InTX
    BY <1>7, <2>2 DEF Command, Already, InTX, Noted, BasicState
  <2>3. CASE ~Already(x) /\ ~InTX
    BY <1>7, <2>3 DEF Command, Change, Already, InTX, Noted, BasicState
  <2> QED
    BY <2>1, <2>2, <2>3
<1>8. CASE MacPacket
  BY <1>8 DEF MacPacket
<1>9. CASE SetCarrierFreq
  BY <1>9 DEF SetCarrierFreq, radioVars
<1>10. ASSUME NEW m \in Sender, SignalEnd(m) PROVE Headed'
  BY <1>10 DEF SignalEnd, radioVars
<1>11. ASSUME NEW m \in Sender, NEW s \in Strength, SignalStart(m, s) PROVE Headed'
  BY <1>11 DEF SignalStart, radioVars
<1>12. CASE UNCHANGED vars
  BY <1>12 DEF vars, radioVars
<1> QED
  BY <1>1, <1>2, <1>3, <1>4, <1>5, <1>6, <1>7, <1>8, <1>9, <1>10, <1>11, <1>12 DEF Next

\* A radio at rest is where the commands should have taken it.
THEOREM ObeysCommandsAlways == Spec => []ObeysCommands
<1>1. Init => Headed
  BY InitOK DEF Init, Headed, Heading, TypeOK, None
<1>2. TypeOK /\ Driven /\ Headed /\ [Next]_vars => Headed'
  BY HeadedStep
<1>3. TypeOK /\ Driven /\ Headed => ObeysCommands
  BY DEF TypeOK, Driven, Headed, Heading, ObeysCommands, None
<1> QED
  BY <1>1, <1>2, <1>3, TypeCorrect, PTL DEF Spec

-----------------------------------------------------------------------------
\* The radio's own steps: a radio that comes to listen spoils every entry, and
\* one that does not listen afterwards heard nothing in whole.
LEMMA OwnStepTracked ==
    ASSUME TypeOK, Tracked, Heed, phase' = phase,
           \/ receivedSignals' = receivedSignals /\ (Listening' => Listening)
           \/ receivedSignals' = [m \in Sender |-> Spoilt(m)] /\ ~Listening
    PROVE  Tracked'
<1> SUFFICES ASSUME NEW m \in Sender
             PROVE  /\ air'[m].whole => OnAir(m)' /\ Listening'
                    /\ phase' # "dead" => (receivedSignals'[m] # None => OnAir(m)')
                    /\ phase' = "off" => receivedSignals'[m] = None
                    /\ Listening' => (receivedSignals'[m] = "clean" <=>
                                        air'[m].strength = "decodable" /\ air'[m].whole)
  BY DEF Tracked, OnAir
<1>1. air[m] \in Signal /\ air'[m] = [air[m] EXCEPT !.whole = @ /\ Listening']
  BY DEF TypeOK, Heed
<1>2. air'[m].strength = air[m].strength /\ (air'[m].whole <=> air[m].whole /\ Listening')
  BY <1>1 DEF Signal
<1>3. OnAir(m)' <=> OnAir(m)
  BY <1>2 DEF OnAir
<1>4. CASE receivedSignals' = receivedSignals /\ (Listening' => Listening)
  BY <1>2, <1>3, <1>4 DEF Tracked
<1>5. CASE receivedSignals' = [o \in Sender |-> Spoilt(o)] /\ ~Listening
  <2>1. receivedSignals'[m] = Spoilt(m)
    BY <1>5
  <2>2. receivedSignals'[m] # "clean" /\ (receivedSignals'[m] = None <=> receivedSignals[m] = None)
    BY <2>1 DEF Spoilt, None
  <2> QED
    BY <1>2, <1>3, <1>5, <2>2 DEF Tracked
<1> QED
  BY <1>4, <1>5

\* A signal that begins, or ends, leaves the list right about the others too.
LEMMA SignalTracked ==
    ASSUME TypeOK, Tracked, NEW m \in Sender,
           SignalEnd(m) \/ \E s \in Strength : SignalStart(m, s)
    PROVE  Tracked'
<1>1. (Listening' <=> Listening) /\ phase' = phase
  BY DEF SignalEnd, SignalStart, Listening, radioVars
<1>2. ASSUME NEW s \in Strength, SignalStart(m, s), NEW o \in Sender
      PROVE  /\ air'[o].whole => OnAir(o)' /\ Listening
             /\ phase # "dead" => (receivedSignals'[o] # None => OnAir(o)')
             /\ phase = "off" => receivedSignals'[o] = None
             /\ Listening => (receivedSignals'[o] = "clean" <=>
                                 air'[o].strength = "decodable" /\ air'[o].whole)
  <2>1. CASE o = m
    <3>1. air'[o].strength = s /\ (air'[o].whole <=> Listening) /\ OnAir(o)'
      BY <1>2, <2>1 DEF SignalStart, Strength, OnAir, None
    <3>2. receivedSignals[o] = None \/ phase = "dead"
      BY <1>2, <2>1 DEF SignalStart, Tracked, TypeOK
    <3>3. receivedSignals'[o] =
             IF s = "elsewhere" \/ phase # "on" THEN receivedSignals[o]
             ELSE IF Listening /\ s = "decodable" THEN "clean" ELSE "spoilt"
      BY <1>2, <2>1 DEF SignalStart
    <3> QED
      BY <3>1, <3>2, <3>3 DEF Listening, None, Tracked
  <2>2. CASE o # m
    <3>1. air[o] \in Signal
      BY DEF TypeOK
    <3>2. air'[o] = [air[o] EXCEPT !.whole = @ /\ ~Disturbs(s)]
      BY <1>2, <2>2 DEF SignalStart
    <3>3. air'[o].strength = air[o].strength /\ (air'[o].whole <=> air[o].whole /\ ~Disturbs(s))
      BY <3>1, <3>2 DEF Signal
    <3>4. OnAir(o)' <=> OnAir(o)
      BY <3>3 DEF OnAir
    <3>5. CASE Listening /\ Disturbs(s)
      <4>1. receivedSignals'[o] = Spoilt(o)
        BY <1>2, <2>2, <3>5 DEF SignalStart, Listening, Disturbs
      <4> QED
        BY <3>3, <3>4, <3>5, <4>1 DEF Spoilt, None, Tracked, Listening
    <3>6. CASE ~(Listening /\ Disturbs(s))
      <4>1. receivedSignals'[o] = receivedSignals[o]
        BY <1>2, <2>2, <3>6 DEF SignalStart
      <4> QED
        BY <3>3, <3>4, <3>6, <4>1 DEF Tracked
    <3> QED
      BY <3>5, <3>6
  <2> QED
    BY <2>1, <2>2
<1>3. ASSUME SignalEnd(m), NEW o \in Sender
      PROVE  /\ air'[o].whole => OnAir(o)' /\ Listening
             /\ phase # "dead" => (receivedSignals'[o] # None => OnAir(o)')
             /\ phase = "off" => receivedSignals'[o] = None
             /\ Listening => (receivedSignals'[o] = "clean" <=>
                                 air'[o].strength = "decodable" /\ air'[o].whole)
  <2>1. CASE o = m
    <3>1. air'[o] = Silence
      BY <1>3, <2>1 DEF SignalEnd, TypeOK
    <3>2. ~air'[o].whole /\ air'[o].strength = None
      BY <3>1 DEF Silence
    <3>3. phase = "on" => receivedSignals'[o] = None
      BY <1>3, <2>1 DEF SignalEnd, TypeOK
    <3>4. phase # "on" => receivedSignals'[o] = receivedSignals[o]
      BY <1>3 DEF SignalEnd
    <3> QED
      BY <3>2, <3>3, <3>4 DEF Tracked, TypeOK, Listening, None
  <2>2. CASE o # m
    <3>1. air'[o] = air[o] /\ receivedSignals'[o] = receivedSignals[o]
      BY <1>3, <2>2 DEF SignalEnd, TypeOK
    <3> QED
      BY <3>1 DEF Tracked, OnAir
  <2> QED
    BY <2>1, <2>2
<1> QED
  BY <1>1, <1>2, <1>3 DEF Tracked, OnAir

\* The list of a listening radio says which signals it can still receive.
LEMMA TrackedStep ==
    ASSUME TypeOK, Driven, Tracked, [Next]_vars
    PROVE  Tracked'
<1>1. CASE Startup
  <2>1. \A m \in Sender : air[m].whole = FALSE /\ receivedSignals[m] = None
    BY <1>1 DEF Startup, Tracked, Listening, TypeOK, Signal
  <2>2. \A m \in Sender : air'[m] = air[m]
    BY <1>1, <2>1 DEF Startup, Heed, TypeOK, Signal
  <2>3. receivedSignals' = receivedSignals /\ phase' = "on"
    BY <1>1 DEF Startup
  <2> QED
    BY <2>1, <2>2, <2>3 DEF Tracked, OnAir, None
<1>2. CASE Disable
  <2>1. \A m \in Sender : air'[m].whole = FALSE
    BY <1>2 DEF Disable, Heed, Listening, TypeOK, Signal
  <2>2. phase' = "dead" /\ ~Listening'
    BY <1>2 DEF Disable, Listening
  <2> QED
    BY <2>1, <2>2 DEF Tracked
<1>3. ASSUME NEW e \in Event, Delete(e) PROVE Tracked'
  BY <1>3, OwnStepTracked DEF Delete, Listening
<1>4. CASE SelfCommand
  BY <1>4, OwnStepTracked DEF SelfCommand, Change, Listening, TypeOK, BasicState, None
<1>5. CASE EnterState
  <2>1. ~Listening
    BY <1>5 DEF EnterState, Happens, Listening, Driven, None
  <2>2. CASE changingToState = "RX"
    BY <1>5, <2>1, <2>2, OwnStepTracked DEF EnterState
  <2>3. CASE changingToState # "RX"
    <3>1. receivedSignals' = receivedSignals /\ ~Listening'
      BY <1>5, <2>3 DEF EnterState, Listening
    <3> QED
      BY <1>5, <3>1, OwnStepTracked DEF EnterState
  <2> QED
    BY <2>2, <2>3
<1>6. CASE ContinueTx
  BY <1>6, OwnStepTracked DEF ContinueTx, Listening
<1>7. ASSUME NEW x \in BasicState, Command(x) PROVE Tracked'
  <2>1. Listening' => Listening
    BY <1>7 DEF Command, Change, Listening, radioVars, BasicState, None
  <2> QED
    BY <1>7, <2>1, OwnStepTracked DEF Command
<1>8. CASE MacPacket
  BY <1>8, OwnStepTracked DEF MacPacket, Listening
<1>9. CASE SetCarrierFreq
  <2>1. \A m \in Sender : air'[m].whole = FALSE /\ receivedSignals'[m] = None
    BY <1>9 DEF SetCarrierFreq, TypeOK, Signal
  <2>2. phase' = "on"
    BY <1>9 DEF SetCarrierFreq
  <2> QED
    BY <2>1, <2>2 DEF Tracked, None
<1>10. ASSUME NEW m \in Sender, SignalEnd(m) PROVE Tracked'
  BY <1>10, SignalTracked
<1>11. ASSUME NEW m \in Sender, NEW s \in Strength, SignalStart(m, s) PROVE Tracked'
  BY <1>11, SignalTracked
<1>12. CASE UNCHANGED vars
  BY <1>12 DEF vars, radioVars, Tracked, OnAir, Listening
<1> QED
  BY <1>1, <1>2, <1>3, <1>4, <1>5, <1>6, <1>7, <1>8, <1>9, <1>10, <1>11, <1>12 DEF Next

\* Just the signals heard in whole are passed up, whoever sends them, and
\* however the radio is commanded, retuned and restarted in between.
THEOREM ReceivesWholeAlways == Spec => ReceivesWhole
<1> DEFINE Whole == \A m \in Sender :
                      OnAir(m) /\ ~OnAir(m)' =>
                        (m \in toMac' <=> air[m].strength = "decodable" /\ air[m].whole)
<1>1. Init => Tracked
  <2> SUFFICES ASSUME Init PROVE Tracked
    OBVIOUS
  <2>1. \A m \in Sender : air[m] = Silence /\ receivedSignals[m] = None
    BY DEF Init
  <2>2. ~Listening
    BY DEF Init, Listening
  <2>3. \A m \in Sender : air[m].whole = FALSE
    <3>1. Silence.whole = FALSE
      BY DEF Silence
    <3> QED
      BY <2>1, <3>1
  <2> QED
    BY <2>1, <2>2, <2>3 DEF Tracked
<1>2. TypeOK /\ Driven /\ Tracked /\ [Next]_vars => Tracked'
  BY TrackedStep
<1>3. ASSUME TypeOK, Driven, Tracked, [Next]_vars PROVE [Whole]_vars
  <2> SUFFICES ASSUME NEW m \in Sender, OnAir(m), ~OnAir(m)'
               PROVE  m \in toMac' <=> air[m].strength = "decodable" /\ air[m].whole
    OBVIOUS
  <2>1. Heed => (OnAir(m)' <=> OnAir(m))
    BY <1>3 DEF Heed, OnAir, TypeOK, Signal
  <2>2. SetCarrierFreq => (OnAir(m)' <=> OnAir(m))
    BY <1>3 DEF SetCarrierFreq, OnAir, TypeOK, Signal
  <2>3. ASSUME NEW o \in Sender, NEW s \in Strength, SignalStart(o, s) PROVE OnAir(m)'
    <3>1. air[m] \in Signal
      BY <1>3 DEF TypeOK
    <3>2. CASE o = m
      BY <2>3, <3>2 DEF SignalStart
    <3>3. CASE o # m
      <4>1. air'[m] = [air[m] EXCEPT !.whole = @ /\ ~Disturbs(s)]
        BY <2>3, <3>3 DEF SignalStart
      <4> QED
        BY <3>1, <4>1 DEF OnAir, Signal
    <3> QED
      BY <3>2, <3>3
  <2>4. UNCHANGED vars => (OnAir(m)' <=> OnAir(m))
    BY DEF vars, OnAir
  <2>5. \E o \in Sender : SignalEnd(o)
    BY <1>3, <2>1, <2>2, <2>3, <2>4 DEF Next, Startup, Disable, Delete, SelfCommand,
       EnterState, ContinueTx, Command, MacPacket
  <2>6. SignalEnd(m)
    BY <1>3, <2>5 DEF SignalEnd, OnAir, TypeOK
  <2>7. m \in toMac' <=> Listening /\ receivedSignals[m] = "clean"
    BY <2>6 DEF SignalEnd
  <2> QED
    BY <2>7, <1>3 DEF Tracked
<1> QED
  BY <1>1, <1>2, <1>3, TypeCorrect, PTL DEF Spec, ReceivesWhole

=============================================================================
