------------------------ MODULE Mac802154_link_proofs ------------------------
(***************************************************************************)
(* A PAN of any number of devices, in any setting: the coordinator and the *)
(* devices agree on who belongs to the PAN and who owns a slot, what the   *)
(* nodes pass up and acknowledge is what the link promises, and a granted  *)
(* slot is its owner's alone.                                              *)
(***************************************************************************)
EXTENDS Mac802154_proofs

-----------------------------------------------------------------------------
(* What the helper functions do to the air and to the packets. *)

Targets(n, f) == (IF f.dst = BROADCAST THEN Node ELSE {f.dst} \cap Node) \ {n}
Wanting(s) == s.assignedGTS = 0 /\ par.requestGTS > 0
Request == Frame("GTS_REQUEST", Hub, 0, 0)
SameQueue(s, t) == t.currentPacket = s.currentPacket /\ t.TXBuffer = s.TXBuffer

\* What n has on the air stays as it is; a CCA begins in the CAP only, no timeout begins,
Holds(s, t) ==
    /\ t.frame = s.frame /\ t.to = s.to
    /\ t.timers["ACK_TIMEOUT"] \in {Off, s.timers["ACK_TIMEOUT"]}
    /\ t.timers["ATTEMPT_TX"] \in {Off, s.timers["ATTEMPT_TX"]}
    /\ Running(t, "PERFORM_CCA") =>
         \/ Running(s, "PERFORM_CCA")
         \/ t.macState = "CAP" /\ t.currentPacket # NoFrame

\* or the packet in service goes out, in time for its answer.
Sends(n, s, t) ==
    /\ t.currentPacket # NoFrame /\ t.frame = t.currentPacket /\ t.to = Targets(n, t.frame)
    /\ t.frame.dst = BROADCAST =>
         /\ t.timers["ATTEMPT_TX"] \in Exchange /\ Fits(t, t.timers["ATTEMPT_TX"])
         /\ t.timers["ACK_TIMEOUT"] \in {Off, s.timers["ACK_TIMEOUT"]}
    /\ t.frame.dst # BROADCAST =>
         /\ t.timers["ACK_TIMEOUT"] \in Exchange /\ Fits(t, t.timers["ACK_TIMEOUT"])
         /\ t.timers["ATTEMPT_TX"] \in {Off, s.timers["ATTEMPT_TX"]}
    /\ Running(t, "PERFORM_CCA") => t.macState = "GTS"
    /\ t.macState # "SLEEP"

\* A stretch of helpers that does either.
Moves(n, s, t) ==
    /\ t \in NodeState /\ SameOwn(s, t) /\ t.timers["FRAME_START"] = s.timers["FRAME_START"]
    /\ Holds(s, t) \/ Sends(n, s, t)

\* The packet that comes next, if there is one.
Follows(s, t) ==
    \/ /\ t.currentPacket = NoFrame /\ t.TXBuffer = s.TXBuffer
       /\ s.associated => ~Wanting(s) /\ s.TXBuffer = <<>>
    \/ /\ t.currentPacket = Request /\ t.TXBuffer = s.TXBuffer
       /\ s.associated /\ Wanting(s)
    \/ /\ s.TXBuffer # <<>> /\ t.currentPacket = Head(s.TXBuffer)
       /\ t.TXBuffer = Tail(s.TXBuffer) /\ s.associated /\ ~Wanting(s)

\* Nothing happens to the air when s moves to t and t is left alone.
LEMMA HoldsSelf ==
    ASSUME NEW n, NEW s \in NodeState
    PROVE  Holds(s, s) /\ Moves(n, s, s)
BY DEF Holds, Moves, SameOwn

\* Stopping a timer and then moving on is moving on.
LEMMA HoldsThen ==
    ASSUME NEW n, NEW s, NEW t, NEW u, SameOwn(s, t), Holds(s, t), Moves(n, t, u),
           t.timers["FRAME_START"] = s.timers["FRAME_START"],
           Running(t, "PERFORM_CCA") => Running(s, "PERFORM_CCA")
    PROVE  Moves(n, s, u)
BY DEF Holds, Moves, SameOwn, Sends

\* The attempts a node counts are integers.
LEMMA CountsOK ==
    ASSUME NEW s \in NodeState
    PROVE  s.retries \in Int /\ s.tried \in Int
BY DEF NodeState

\* transmitCurrentPacket sends the packet in service, if it fits.
LEMMA TransmitMoves ==
    ASSUME NEW n \in Node, NEW s \in NodeState, NEW d \in Exchange,
           Running(s, "PERFORM_CCA") => s.macState = "GTS", s.macState # "SLEEP"
    PROVE  LET t == transmitCurrentPacket(n, s, d)
           IN  /\ t \in NodeState /\ SameOwn(s, t) /\ SameQueue(s, t)
               /\ t.timers["FRAME_START"] = s.timers["FRAME_START"]
               /\ t = s \/ (s.currentPacket # NoFrame /\ Sends(n, s, t))
<1>1. CASE s.currentPacket = NoFrame \/ ~Fits(s, d)
  BY <1>1 DEF transmitCurrentPacket, SameOwn, SameQueue
<1>2. CASE ~(s.currentPacket = NoFrame \/ ~Fits(s, d))
  <2> DEFINE p == s.currentPacket
             a == Send(n, s, p)
             r == a.retries - 1
             k == a.tried + 1
             c == WithAttempts(a, r, k)
             x == IF p.dst = BROADCAST THEN "ATTEMPT_TX" ELSE "ACK_TIMEOUT"
             t == Set(c, x, d)
  <2>1. p \in AnyFrame
    BY DEF NodeState
  <2>2. /\ a \in NodeState /\ SameOwn(s, a) /\ SamePackets(s, a) /\ a.timers = s.timers
        /\ a.frame = p /\ a.to = Targets(n, p)
    BY <2>1, SendOK DEF Targets
  <2>3. transmitCurrentPacket(n, s, d) = t
    BY <1>2 DEF transmitCurrentPacket, WithAttempts
  <2> HIDE DEF a
  <2>4. r \in Int /\ k \in Int
    BY <2>2, CountsOK
  <2> HIDE DEF r, k
  <2>5. /\ c \in NodeState /\ SameOwn(a, c) /\ SameRadio(a, c) /\ c.timers = a.timers
        /\ c.currentPacket = a.currentPacket /\ c.TXBuffer = a.TXBuffer
    BY <2>2, <2>4, AttemptsOK
  <2> HIDE DEF c
  <2>6. x \in Timer /\ d \in Int
    BY DEF Timer, Exchange
  <2>7. /\ t \in NodeState /\ SameOwn(c, t) /\ SameRadio(c, t) /\ SamePackets(c, t)
        /\ \A y \in Timer : t.timers[y] = IF y = x THEN d ELSE c.timers[y]
    BY <2>5, <2>6, SetOK
  <2> HIDE DEF t
  <2>8. /\ SameOwn(s, t) /\ SameQueue(s, t) /\ t.frame = p /\ t.to = Targets(n, p)
        /\ \A y \in Timer : t.timers[y] = IF y = x THEN d ELSE s.timers[y]
    BY <2>2, <2>5, <2>7 DEF SameOwn, SamePackets, SameRadio, SameQueue
  <2>9. Fits(t, d)
    BY <1>2, <2>8 DEF Fits, SameOwn
  <2>10. t.macState = s.macState /\ t.currentPacket = p
    BY <2>8 DEF SameOwn, SameQueue
  <2>11. /\ t.timers["PERFORM_CCA"] = s.timers["PERFORM_CCA"]
         /\ t.timers["FRAME_START"] = s.timers["FRAME_START"]
    BY <2>8 DEF Timer
  <2>12. CASE p.dst = BROADCAST
    <3>1. t.timers["ATTEMPT_TX"] = d /\ t.timers["ACK_TIMEOUT"] = s.timers["ACK_TIMEOUT"]
      BY <2>8, <2>12 DEF Timer
    <3>2. Sends(n, s, t)
      BY <1>2, <2>8, <2>9, <2>10, <2>11, <2>12, <3>1 DEF Sends, Running
    <3> QED
      BY <1>2, <2>3, <2>7, <2>8, <2>11, <3>2
  <2>13. CASE p.dst # BROADCAST
    <3>1. t.timers["ACK_TIMEOUT"] = d /\ t.timers["ATTEMPT_TX"] = s.timers["ATTEMPT_TX"]
      BY <2>8, <2>13 DEF Timer
    <3>2. Sends(n, s, t)
      BY <1>2, <2>8, <2>9, <2>10, <2>11, <2>13, <3>1 DEF Sends, Running
    <3> QED
      BY <1>2, <2>3, <2>7, <2>8, <2>11, <3>2
  <2> QED
    BY <2>12, <2>13
<1> QED
  BY <1>1, <1>2

\* attemptTransmission's branches: in a slot it is sent, in the CAP a CCA begins.
LEMMA AttemptMoves ==
    ASSUME NEW n \in Node, NEW s \in NodeState, NEW b \in Backoff, NEW d \in Exchange
    PROVE  LET t == Attempt(n, s, b, d)
           IN  /\ Moves(n, s, t) /\ SameQueue(s, t)
               /\ s.currentPacket = NoFrame \/ Dormant(s) => t = s
               /\ s.macState # "GTS" => Holds(s, t)
<1>1. CASE s.currentPacket # NoFrame /\ s.macState = "GTS"
  <2> DEFINE t == transmitCurrentPacket(n, s, d)
  <2>1. Attempt(n, s, b, d) = t
    BY <1>1 DEF Attempt
  <2>2. /\ t \in NodeState /\ SameOwn(s, t) /\ SameQueue(s, t) /\ (t = s \/ Sends(n, s, t))
        /\ t.timers["FRAME_START"] = s.timers["FRAME_START"]
    BY <1>1, TransmitMoves
  <2> HIDE DEF t
  <2>3. Moves(n, s, t)
    BY <2>2, HoldsSelf DEF Moves
  <2> QED
    BY <1>1, <2>1, <2>2, <2>3 DEF Dormant
<1>2. CASE s.currentPacket # NoFrame /\ s.macState = "CAP" /\ ~GtsOnly(s.currentPacket)
  <2> DEFINE v == WithBackoffs(s, 0, FirstCW)
             t == Set(v, "PERFORM_CCA", b)
  <2>1. FirstCW \in Int /\ "PERFORM_CCA" \in Timer /\ b \in Int
    BY DEF FirstCW, Timer, Backoff
  <2>2. Attempt(n, s, b, d) = t
    BY <1>2 DEF Attempt, performCSMACA, WithBackoffs
  <2>3. /\ v \in NodeState /\ SameOwn(s, v) /\ SameRadio(s, v) /\ v.timers = s.timers
        /\ v.currentPacket = s.currentPacket /\ v.TXBuffer = s.TXBuffer
    BY <2>1, BackoffsOK
  <2> HIDE DEF v
  <2>4. /\ t \in NodeState /\ SameOwn(v, t) /\ SameRadio(v, t) /\ SamePackets(v, t)
        /\ \A x \in Timer : t.timers[x] = IF x = "PERFORM_CCA" THEN b ELSE v.timers[x]
    BY <2>1, <2>3, SetOK
  <2> HIDE DEF t
  <2>5. SameOwn(s, t) /\ SameQueue(s, t)
    BY <2>3, <2>4 DEF SameOwn, SamePackets, SameQueue
  <2>6. t.macState = "CAP" /\ t.currentPacket # NoFrame
    BY <1>2, <2>5 DEF SameOwn, SameQueue
  <2>7. Holds(s, t) /\ t.timers["FRAME_START"] = s.timers["FRAME_START"]
    BY <2>3, <2>4, <2>6 DEF Holds, SameRadio, Timer
  <2> QED
    BY <1>2, <2>2, <2>4, <2>5, <2>7 DEF Moves, Dormant
<1>3. CASE ~(s.currentPacket # NoFrame /\ s.macState = "GTS")
            /\ ~(s.currentPacket # NoFrame /\ s.macState = "CAP" /\ ~GtsOnly(s.currentPacket))
  <2>1. Attempt(n, s, b, d) = s
    BY <1>3 DEF Attempt
  <2> QED
    BY <2>1, HoldsSelf DEF SameQueue
<1> QED
  BY <1>1, <1>2, <1>3

\* transmitPacket puts p in service and waits when the radio or an answer is awaited.
LEMMA NextMoves ==
    ASSUME Setting, NEW n \in Node, NEW s \in NodeState, NEW p \in AnyFrame, p # NoFrame,
           NEW b \in Backoff, NEW d \in Exchange
    PROVE  LET t == transmitPacket(n, s, p, b, d)
           IN  /\ Moves(n, s, t) /\ t.currentPacket = p /\ t.TXBuffer = s.TXBuffer
               /\ (Running(s, "ATTEMPT_TX") \/ Running(s, "ACK_TIMEOUT"))
                    => SameRadio(s, t) /\ t.timers = s.timers
               /\ s.macState # "GTS" => Holds(s, t)
<1> DEFINE all == IF p.dst = BROADCAST THEN 1 ELSE par.macMaxFrameRetries
           a == WithPacket(s, p)
           c == WithAttempts(a, all, 0)
<1>1. all \in Int /\ 0 \in Int
  BY DEF Setting
<1>2. /\ a \in NodeState /\ SameOwn(s, a) /\ SameRadio(s, a) /\ a.timers = s.timers
      /\ a.currentPacket = p /\ a.TXBuffer = s.TXBuffer
  BY PacketOK
<1>3. transmitPacket(n, s, p, b, d) =
        IF Running(c, "ATTEMPT_TX") \/ Running(c, "ACK_TIMEOUT") \/ Dormant(c) THEN c
        ELSE Attempt(n, c, b, d)
  <2>1. c = [s EXCEPT !.currentPacket = p, !.tried = 0, !.retries = all]
    BY DEF WithAttempts, WithPacket, NodeState
  <2> QED
    BY <2>1 DEF transmitPacket
<1> HIDE DEF a, all
<1>4. /\ c \in NodeState /\ SameOwn(a, c) /\ SameRadio(a, c) /\ c.timers = a.timers
      /\ c.currentPacket = a.currentPacket /\ c.TXBuffer = a.TXBuffer
  BY <1>1, <1>2, AttemptsOK
<1> HIDE DEF c
<1>5. /\ SameOwn(s, c) /\ SameRadio(s, c) /\ c.timers = s.timers
      /\ c.currentPacket = p /\ c.TXBuffer = s.TXBuffer
  BY <1>2, <1>4 DEF SameOwn, SameRadio
<1>6. Holds(s, c)
  BY <1>5 DEF Holds, SameRadio, Running
<1>7. CASE Running(c, "ATTEMPT_TX") \/ Running(c, "ACK_TIMEOUT") \/ Dormant(c)
  BY <1>3, <1>4, <1>5, <1>6, <1>7 DEF Moves
<1>8. CASE ~(Running(c, "ATTEMPT_TX") \/ Running(c, "ACK_TIMEOUT") \/ Dormant(c))
  <2> DEFINE t == Attempt(n, c, b, d)
  <2>1. Moves(n, c, t) /\ SameQueue(c, t) /\ (c.macState # "GTS" => Holds(c, t))
    BY <1>4, AttemptMoves
  <2> HIDE DEF t
  <2>2. Moves(n, s, t)
    BY <1>5, <1>6, <2>1, HoldsThen DEF Running
  <2>3. ~Running(s, "ATTEMPT_TX") /\ ~Running(s, "ACK_TIMEOUT")
    BY <1>5, <1>8 DEF Running
  <2>4. t.currentPacket = p /\ t.TXBuffer = s.TXBuffer
    BY <1>5, <2>1 DEF SameQueue
  <2>5. s.macState # "GTS" => Holds(s, t)
    BY <1>5, <2>1 DEF Holds, SameOwn, SameRadio, Running
  <2> QED
    BY <1>3, <1>8, <2>2, <2>3, <2>4, <2>5 DEF t
<1> QED
  BY <1>7, <1>8

\* The buffer holds packets of the network layer.
Buffers(s) == \A i \in DOMAIN s.TXBuffer : s.TXBuffer[i].type = "DATA"

\* transmissionOutcome takes the request for a slot first, then the buffer's head.
LEMMA OutcomeMoves ==
    ASSUME Setting, NEW n \in Node, NEW s \in NodeState, Buffers(s), s.currentPacket = NoFrame,
           NEW b \in Backoff, NEW d \in Exchange
    PROVE  LET t == transmissionOutcome(n, s, b, d)
           IN  /\ Moves(n, s, t) /\ Follows(s, t)
               /\ s.macState # "GTS" => Holds(s, t)
<1>1. CASE ~s.associated
  BY <1>1, HoldsSelf DEF transmissionOutcome, Follows
<1>2. CASE s.associated /\ Wanting(s)
  <2> DEFINE t == transmitPacket(n, s, Request, b, d)
  <2>1. transmissionOutcome(n, s, b, d) = t
    BY <1>2 DEF transmissionOutcome, Wanting, Request
  <2>2. Request \in AnyFrame /\ Request # NoFrame
    BY DEF Request, AnyFrame, Frame, NoFrame, FrameType, Setting
  <2>3. Moves(n, s, t) /\ t.currentPacket = Request /\ t.TXBuffer = s.TXBuffer
        /\ (s.macState # "GTS" => Holds(s, t))
    BY <2>2, NextMoves
  <2> HIDE DEF t
  <2> QED
    BY <1>2, <2>1, <2>3 DEF Follows
<1>3. CASE s.associated /\ ~Wanting(s) /\ s.TXBuffer = <<>>
  BY <1>3, HoldsSelf DEF transmissionOutcome, Follows, Wanting
<1>4. CASE s.associated /\ ~Wanting(s) /\ s.TXBuffer # <<>>
  <2> DEFINE p == Head(s.TXBuffer)
             u == WithBuffer(s, Tail(s.TXBuffer))
             t == transmitPacket(n, u, p, b, d)
  <2>1. transmissionOutcome(n, s, b, d) = t
    BY <1>4 DEF transmissionOutcome, WithBuffer, Wanting
  <2>2. p \in AnyFrame /\ p.type = "DATA" /\ Tail(s.TXBuffer) \in Seq(AnyFrame)
    <3>1. s.TXBuffer \in Seq(AnyFrame)
      BY DEF NodeState
    <3>2. 1 \in DOMAIN s.TXBuffer /\ p = s.TXBuffer[1]
      BY <1>4, <3>1
    <3> QED
      BY <1>4, <3>1, <3>2 DEF Buffers
  <2>3. /\ u \in NodeState /\ SameOwn(s, u) /\ SameRadio(s, u) /\ u.timers = s.timers
        /\ u.currentPacket = s.currentPacket /\ u.TXBuffer = Tail(s.TXBuffer)
    BY <2>2, BufferOK
  <2>4. p # NoFrame
    BY <2>2 DEF NoFrame
  <2> HIDE DEF u, p
  <2>5. Moves(n, u, t) /\ t.currentPacket = p /\ t.TXBuffer = u.TXBuffer
        /\ (u.macState # "GTS" => Holds(u, t))
    BY <2>2, <2>3, <2>4, NextMoves
  <2> HIDE DEF t
  <2>6. Holds(s, u)
    BY <2>3 DEF Holds, SameRadio, Running
  <2>7. Moves(n, s, t)
    BY <2>3, <2>5, <2>6, HoldsThen DEF Running
  <2>8. s.macState # "GTS" => Holds(s, t)
    BY <2>3, <2>5 DEF Holds, SameOwn, SameRadio, Running
  <2>9. t.currentPacket = Head(s.TXBuffer) /\ t.TXBuffer = Tail(s.TXBuffer)
    BY <2>3, <2>5 DEF p
  <2> QED
    BY <1>4, <2>1, <2>7, <2>8, <2>9 DEF Follows
<1> QED
  BY <1>1, <1>2, <1>3, <1>4

\* Follows looks at a node's place and buffer only.
LEMMA FollowsSame ==
    ASSUME NEW s, NEW t, NEW u, SameOwn(s, t), t.TXBuffer = s.TXBuffer, Follows(t, u)
    PROVE  Follows(s, u)
BY DEF Follows, SameOwn, Wanting

\* clearCurrentPacket goes on to the next packet.
LEMMA ClearMoves ==
    ASSUME Setting, NEW n \in Node, NEW s \in NodeState, Buffers(s), s.currentPacket # NoFrame,
           NEW b \in Backoff, NEW d \in Exchange
    PROVE  LET t == clearCurrentPacket(n, s, b, d)
           IN  /\ Moves(n, s, t) /\ Follows(s, t)
               /\ s.macState # "GTS" => Holds(s, t)
<1> DEFINE u == WithPacket(s, NoFrame)
           t == transmissionOutcome(n, u, b, d)
<1>1. clearCurrentPacket(n, s, b, d) = t
  BY DEF clearCurrentPacket, WithPacket
<1>2. NoFrame \in AnyFrame
  BY NoFrameOK DEF Sound
<1>3. /\ u \in NodeState /\ SameOwn(s, u) /\ SameRadio(s, u) /\ u.timers = s.timers
      /\ u.currentPacket = NoFrame /\ u.TXBuffer = s.TXBuffer
  BY <1>2, PacketOK
<1> HIDE DEF u
<1>4. Buffers(u)
  BY <1>3 DEF Buffers
<1>5. Moves(n, u, t) /\ Follows(u, t) /\ (u.macState # "GTS" => Holds(u, t))
  BY <1>3, <1>4, OutcomeMoves
<1> HIDE DEF t
<1>6. Holds(s, u)
  BY <1>3 DEF Holds, SameRadio, Running
<1>7. Moves(n, s, t)
  BY <1>3, <1>5, <1>6, HoldsThen DEF Running
<1>8. s.macState # "GTS" => Holds(s, t)
  BY <1>3, <1>5 DEF Holds, SameOwn, SameRadio, Running
<1>9. Follows(s, t)
  BY <1>3, <1>5, FollowsSame
<1> QED
  BY <1>1, <1>7, <1>8, <1>9

\* attemptTransmission tries the packet in service or goes on to the next.
LEMMA AgainMoves ==
    ASSUME Setting, NEW n \in Node, NEW s \in NodeState, Buffers(s), NEW b \in Backoff, NEW d \in Exchange
    PROVE  LET t == attemptTransmission(n, s, b, d)
           IN  /\ Moves(n, s, t)
               /\ SameQueue(s, t) \/ (s.currentPacket # NoFrame /\ s.retries = 0 /\ Follows(s, t))
               /\ s.macState # "GTS" \/ s.currentPacket = NoFrame => Holds(s, t)
<1> DEFINE u == Stop(s, "ATTEMPT_TX")
<1>1. "ATTEMPT_TX" \in Timer
  BY DEF Timer
<1>2. /\ u \in NodeState /\ SameOwn(s, u) /\ SameRadio(s, u) /\ SamePackets(s, u)
      /\ \A x \in Timer : u.timers[x] = IF x = "ATTEMPT_TX" THEN Off ELSE s.timers[x]
  BY <1>1, StopOK
<1>3. attemptTransmission(n, s, b, d) =
        IF Dormant(u) THEN u
        ELSE IF u.currentPacket # NoFrame /\ u.retries = 0 THEN clearCurrentPacket(n, u, b, d)
        ELSE Attempt(n, u, b, d)
  BY DEF attemptTransmission
<1> HIDE DEF u
<1>4. /\ u.timers["ATTEMPT_TX"] = Off /\ u.timers["ACK_TIMEOUT"] = s.timers["ACK_TIMEOUT"]
      /\ u.timers["PERFORM_CCA"] = s.timers["PERFORM_CCA"]
      /\ u.timers["FRAME_START"] = s.timers["FRAME_START"]
  BY <1>2 DEF Timer
<1>5. Holds(s, u) /\ SameQueue(s, u) /\ u.retries = s.retries /\ u.macState = s.macState
  BY <1>2, <1>4 DEF Holds, SameRadio, SamePackets, SameQueue, Running, SameOwn
<1>6. CASE Dormant(u)
  BY <1>2, <1>3, <1>4, <1>5, <1>6 DEF Moves
<1>7. CASE ~Dormant(u) /\ u.currentPacket # NoFrame /\ u.retries = 0
  <2> DEFINE t == clearCurrentPacket(n, u, b, d)
  <2>1. Buffers(u)
    BY <1>5 DEF Buffers, SameQueue
  <2>2. Moves(n, u, t) /\ Follows(u, t) /\ (u.macState # "GTS" => Holds(u, t))
    BY <1>2, <1>7, <2>1, ClearMoves
  <2> HIDE DEF t
  <2>3. Moves(n, s, t)
    BY <1>2, <1>4, <1>5, <2>2, HoldsThen DEF Running
  <2>4. Follows(s, t)
    BY <1>2, <1>5, <2>2, FollowsSame DEF SameQueue
  <2>5. s.macState # "GTS" => Holds(s, t)
    BY <1>4, <1>5, <2>2 DEF Holds, Running
  <2>6. s.currentPacket # NoFrame /\ ~Dormant(s) /\ s.retries = 0
    BY <1>5, <1>7 DEF SameQueue, Dormant
  <2> QED
    BY <1>3, <1>7, <2>3, <2>4, <2>5, <2>6 DEF t
<1>8. CASE ~Dormant(u) /\ ~(u.currentPacket # NoFrame /\ u.retries = 0)
  <2> DEFINE t == Attempt(n, u, b, d)
  <2>1. /\ Moves(n, u, t) /\ SameQueue(u, t) /\ (u.macState # "GTS" => Holds(u, t))
        /\ u.currentPacket = NoFrame => t = u
    BY <1>2, AttemptMoves
  <2> HIDE DEF t
  <2>2. Moves(n, s, t)
    BY <1>2, <1>4, <1>5, <2>1, HoldsThen DEF Running
  <2>3. SameQueue(s, t)
    BY <1>5, <2>1 DEF SameQueue
  <2>4. s.macState # "GTS" \/ s.currentPacket = NoFrame => Holds(s, t)
    BY <1>4, <1>5, <2>1 DEF Holds, Running, SameQueue
  <2>5. ~Dormant(s)
    BY <1>5, <1>8 DEF Dormant
  <2> QED
    BY <1>3, <1>8, <2>2, <2>3, <2>4, <2>5 DEF t
<1> QED
  BY <1>6, <1>7, <1>8

\* What an ACK says is settled first: the PAN joined, the slot granted.
Settles(s, x, f) ==
    /\ x \in NodeState /\ SameRadio(s, x) /\ SameQueue(s, x) /\ x.retries = s.retries
    /\ x.lostBeacons = s.lostBeacons /\ x.capLeft = s.capLeft /\ x.gtsLeft = s.gtsLeft
    /\ x.adjacent = s.adjacent /\ x.disabled = s.disabled /\ x.guest = s.guest
    /\ x.carried = s.carried
    /\ \A y \in Timer : x.timers[y] = IF y = "ACK_TIMEOUT" THEN Off ELSE s.timers[y]
    /\ IF s.currentPacket.type = "ASSOCIATE"
       THEN x.associated /\ x.macState = "CAP"
       ELSE x.associated = s.associated /\ x.macState = s.macState
    /\ x.assignedGTS = IF s.currentPacket.type = "GTS_REQUEST" THEN f.slots ELSE s.assignedGTS

\* handleAckPacket then goes on to the next packet, or tries a packet again whose
\* number was not the one acknowledged.
LEMMA AckMoves ==
    ASSUME Setting, NEW n \in Node, NEW s \in NodeState, Buffers(s), NEW f \in AnyFrame,
           s.currentPacket # NoFrame, NEW b \in Backoff, NEW d \in Exchange
    PROVE  LET t == handleAckPacket(n, s, f, b, d)
           IN  \E x : /\ Settles(s, x, f) /\ Moves(n, x, t)
                      /\ Follows(x, t) \/ (SameQueue(x, t) /\ s.currentPacket.type \notin
                                                               {"ASSOCIATE", "GTS_REQUEST"})
                      /\ s.currentPacket.type = "ASSOCIATE" \/ x.macState # "GTS" => Holds(x, t)
<1> DEFINE t == Stop(s, "ACK_TIMEOUT")
           u == handleAckPacket(n, s, f, b, d)
<1>1. /\ t \in NodeState /\ SameOwn(s, t) /\ SameRadio(s, t) /\ SamePackets(s, t)
      /\ \A x \in Timer : t.timers[x] = IF x = "ACK_TIMEOUT" THEN Off ELSE s.timers[x]
  BY StopOK DEF Timer
<1>2. u = IF s.currentPacket.type = "ASSOCIATE"
          THEN clearCurrentPacket(n, [t EXCEPT !.associated = TRUE, !.macState = "CAP"], b, d)
          ELSE IF s.currentPacket.type = "GTS_REQUEST"
          THEN clearCurrentPacket(n, [t EXCEPT !.assignedGTS = f.slots], b, d)
          ELSE IF s.currentPacket.sn - 1 = f.sn THEN clearCurrentPacket(n, t, b, d)
          ELSE attemptTransmission(n, t, b, d)
  BY DEF handleAckPacket
<1> HIDE DEF t
<1>3. Buffers(t) /\ t.currentPacket = s.currentPacket
  BY <1>1 DEF Buffers, SamePackets
<1>4. CASE s.currentPacket.type = "ASSOCIATE"
  <2> DEFINE v == [t EXCEPT !.associated = TRUE]
             w == [v EXCEPT !.macState = "CAP"]
  <2>1. w = [t EXCEPT !.associated = TRUE, !.macState = "CAP"]
    BY <1>1 DEF NodeState
  <2>2. u = clearCurrentPacket(n, w, b, d)
    BY <1>2, <1>4, <2>1
  <2>3. /\ v \in NodeState /\ SamePackets(t, v) /\ SameRadio(t, v) /\ v.timers = t.timers
        /\ v.associated /\ v.macState = t.macState
        /\ v.assignedGTS = t.assignedGTS /\ v.lostBeacons = t.lostBeacons
        /\ v.capLeft = t.capLeft /\ v.gtsLeft = t.gtsLeft /\ v.adjacent = t.adjacent
        /\ v.disabled = t.disabled /\ v.guest = t.guest /\ v.carried = t.carried
    BY <1>1 DEF NodeState, SamePackets, SameRadio
  <2> HIDE DEF v
  <2>4. /\ w \in NodeState /\ SamePackets(v, w) /\ SameRadio(v, w) /\ w.timers = v.timers
        /\ w.associated = v.associated /\ w.macState = "CAP"
        /\ w.assignedGTS = v.assignedGTS /\ w.lostBeacons = v.lostBeacons
        /\ w.capLeft = v.capLeft /\ w.gtsLeft = v.gtsLeft /\ w.adjacent = v.adjacent
        /\ w.disabled = v.disabled /\ w.guest = v.guest /\ w.carried = v.carried
    BY <2>3 DEF NodeState, MacState, SamePackets, SameRadio
  <2> HIDE DEF w
  <2>5. Settles(s, w, f)
    BY <1>1, <1>4, <2>3, <2>4 DEF Settles, SameOwn, SamePackets, SameRadio, SameQueue
  <2>6. Buffers(w) /\ w.currentPacket # NoFrame
    BY <1>3, <2>5 DEF Buffers, Settles, SameQueue
  <2>7. Moves(n, w, u) /\ Follows(w, u) /\ Holds(w, u)
    BY <2>2, <2>4, <2>6, ClearMoves
  <2> QED
    BY <2>5, <2>7
<1>5. CASE s.currentPacket.type = "GTS_REQUEST"
  <2> DEFINE w == [t EXCEPT !.assignedGTS = f.slots]
  <2>1. u = clearCurrentPacket(n, w, b, d)
    BY <1>2, <1>5
  <2>2. f.slots \in Nat
    BY DEF AnyFrame
  <2>3. /\ w \in NodeState /\ SamePackets(t, w) /\ SameRadio(t, w) /\ w.timers = t.timers
        /\ w.associated = t.associated /\ w.macState = t.macState
        /\ w.assignedGTS = f.slots /\ w.lostBeacons = t.lostBeacons
        /\ w.capLeft = t.capLeft /\ w.gtsLeft = t.gtsLeft /\ w.adjacent = t.adjacent
        /\ w.disabled = t.disabled /\ w.guest = t.guest /\ w.carried = t.carried
    BY <1>1, <2>2 DEF NodeState, SamePackets, SameRadio
  <2> HIDE DEF w
  <2>4. Settles(s, w, f)
    BY <1>1, <1>5, <2>3 DEF Settles, SameOwn, SamePackets, SameRadio, SameQueue
  <2>5. Buffers(w) /\ w.currentPacket # NoFrame
    BY <1>3, <2>4 DEF Buffers, Settles, SameQueue
  <2>6. Moves(n, w, u) /\ Follows(w, u) /\ (w.macState # "GTS" => Holds(w, u))
    BY <2>1, <2>3, <2>5, ClearMoves
  <2> QED
    BY <1>5, <2>4, <2>6
<1>6. CASE s.currentPacket.type \notin {"ASSOCIATE", "GTS_REQUEST"}
  <2>1. Settles(s, t, f)
    BY <1>1, <1>6 DEF Settles, SameOwn, SamePackets, SameQueue
  <2>2. /\ Moves(n, t, u) /\ (Follows(t, u) \/ SameQueue(t, u))
        /\ t.macState # "GTS" => Holds(t, u)
    BY <1>1, <1>2, <1>3, <1>6, ClearMoves, AgainMoves
  <2> QED
    BY <1>6, <2>1, <2>2
<1> QED
  BY <1>4, <1>5, <1>6

\* acceptNewPacket serves it at once, or puts it behind the others.
LEMMA AcceptMoves ==
    ASSUME Setting, NEW n \in Node, NEW s \in NodeState, NEW p \in AnyFrame, p # NoFrame,
           NEW b \in Backoff, NEW d \in Exchange
    PROVE  LET t == acceptNewPacket(n, s, p, b, d)
           IN  /\ Moves(n, s, t)
               /\ \/ /\ s.associated /\ s.currentPacket = NoFrame
                     /\ t.currentPacket = p /\ t.TXBuffer = s.TXBuffer
                  \/ /\ ~s.associated \/ s.currentPacket # NoFrame
                     /\ t.currentPacket = s.currentPacket
                     /\ t.TXBuffer \in {s.TXBuffer, Append(s.TXBuffer, p)}
               /\ (Running(s, "ATTEMPT_TX") \/ Running(s, "ACK_TIMEOUT")
                     \/ ~s.associated \/ s.currentPacket # NoFrame)
                    => SameRadio(s, t) /\ t.timers = s.timers
               /\ s.macState # "GTS" => Holds(s, t)
<1> DEFINE t == acceptNewPacket(n, s, p, b, d)
<1>1. CASE s.associated /\ s.currentPacket = NoFrame
  <2>1. t = transmitPacket(n, s, p, b, d)
    BY <1>1 DEF acceptNewPacket
  <2> HIDE DEF t
  <2>2. /\ Moves(n, s, t) /\ t.currentPacket = p /\ t.TXBuffer = s.TXBuffer
        /\ (Running(s, "ATTEMPT_TX") \/ Running(s, "ACK_TIMEOUT"))
              => SameRadio(s, t) /\ t.timers = s.timers
        /\ s.macState # "GTS" => Holds(s, t)
    BY <2>1, NextMoves
  <2> QED
    BY <1>1, <2>2 DEF t
<1>2. CASE ~(s.associated /\ s.currentPacket = NoFrame)
  <2> DEFINE q == IF Len(s.TXBuffer) < macBufferSize THEN Append(s.TXBuffer, p) ELSE s.TXBuffer
  <2>1. q \in Seq(AnyFrame) /\ q \in {s.TXBuffer, Append(s.TXBuffer, p)}
    BY DEF NodeState
  <2>2. t = WithBuffer(s, q)
    BY <1>2 DEF acceptNewPacket, WithBuffer
  <2> HIDE DEF q, t
  <2>3. /\ t \in NodeState /\ SameOwn(s, t) /\ SameRadio(s, t) /\ t.timers = s.timers
        /\ t.currentPacket = s.currentPacket /\ t.TXBuffer = q
    BY <2>1, <2>2, BufferOK
  <2>4. Moves(n, s, t) /\ Holds(s, t)
    BY <2>3 DEF Moves, Holds, SameRadio, Running
  <2> QED
    BY <1>2, <2>1, <2>3, <2>4 DEF t
<1> QED
  BY <1>1, <1>2

\* An ACK goes out at once.
LEMMA ReplyMoves ==
    ASSUME NEW n \in Node, NEW s \in NodeState, NEW f \in AnyFrame
    PROVE  LET t == Reply(n, s, f)
           IN  /\ t \in NodeState /\ SameOwn(s, t) /\ SameQueue(s, t)
               /\ t.frame = f /\ t.to = Targets(n, f) /\ t.timers["ATTEMPT_TX"] = 0
               /\ \A x \in Timer \ {"ATTEMPT_TX"} : t.timers[x] = s.timers[x]
<1> DEFINE u == Send(n, s, f)
           t == Set(u, "ATTEMPT_TX", 0)
<1>1. /\ u \in NodeState /\ SameOwn(s, u) /\ SamePackets(s, u) /\ u.timers = s.timers
      /\ u.frame = f /\ u.to = Targets(n, f)
  BY SendOK DEF Targets
<1> HIDE DEF u
<1>2. "ATTEMPT_TX" \in Timer /\ 0 \in Int
  BY DEF Timer
<1>3. /\ t \in NodeState /\ SameOwn(u, t) /\ SameRadio(u, t) /\ SamePackets(u, t)
      /\ \A x \in Timer : t.timers[x] = IF x = "ATTEMPT_TX" THEN 0 ELSE u.timers[x]
  BY <1>1, <1>2, SetOK
<1> HIDE DEF t
<1>4. SameOwn(s, t) /\ SameQueue(s, t) /\ t.frame = f /\ t.to = Targets(n, f)
  BY <1>1, <1>3 DEF SameOwn, SamePackets, SameQueue, SameRadio
<1>5. t = Reply(n, s, f)
  BY DEF t, u, Reply
<1> QED
  BY <1>1, <1>2, <1>3, <1>4, <1>5

\* The place of n in the superframe that the coordinator announced last.
Placed(n, t) ==
    LET k == hub.announced
        mine == {i \in 1..k : hub.GTSlist[i] = n}
    IN  /\ t.capLeft = CAPend(k)
        /\ mine = {} => t.gtsLeft = 0 /\ ~t.adjacent
        /\ mine # {} => \E i \in mine : t.gtsLeft = gtsEnd(i) /\ t.adjacent = (i = k)

\* What the beacon leaves alone, and what it tells.
Begins(n, s, t) ==
    /\ t \in NodeState /\ SamePackets(s, t) /\ t.frame = s.frame /\ t.to = s.to
    /\ t.associated = s.associated /\ t.assignedGTS = s.assignedGTS /\ t.disabled = s.disabled
    /\ t.macState = "CAP" /\ t.guest = ~s.associated
    /\ t.carried <=> Running(s, "ACK_TIMEOUT")
    /\ \A x \in Transmissions : t.timers[x] = s.timers[x]
    /\ Placed(n, t)

\* A superframe begins.
LEMMA BeginsMoves ==
    ASSUME Setting, ListOK, NEW n \in Node, NEW s \in NodeState
    PROVE  Begins(n, s, Scheduled(n, Superframe(n, Stop(s, "BEACON_TIMEOUT"))))
<1> DEFINE u == Stop(s, "BEACON_TIMEOUT")
           v == Superframe(n, u)
           t == Scheduled(n, v)
           k == hub.announced
           mine == {i \in 1..k : hub.GTSlist[i] = n}
<1>1. /\ u \in NodeState /\ SameOwn(s, u) /\ SameRadio(s, u) /\ SamePackets(s, u)
      /\ \A x \in Timer : u.timers[x] = IF x = "BEACON_TIMEOUT" THEN Off ELSE s.timers[x]
  BY StopOK DEF Timer
<1> HIDE DEF u
<1> DEFINE i == CHOOSE j \in mine : TRUE
           g == IF mine = {} THEN 0 ELSE gtsEnd(i)
           z == mine # {} /\ i = k
<1>2. /\ v = WithBeacon(u, CAPend(k), g, z) /\ CAPend(k) \in Int /\ g \in Int /\ z \in BOOLEAN
      /\ mine = {} => g = 0 /\ ~z
      /\ mine # {} => i \in mine /\ g = gtsEnd(i) /\ z = (i = k)
  <2>1. CAPend(k) \in Int /\ \A j \in 1..k : gtsEnd(j) \in Int
    <3>1. k \in Nat
      BY DEF ListOK
    <3> QED
      BY <3>1, SlotsFit
  <2>2. CASE mine = {}
    <3>1. g = 0 /\ z = FALSE
      BY <2>2
    <3> DEFINE c == CAPend(k)
               w == ~u.associated
               y == Running(u, "ACK_TIMEOUT")
               e == WithBeacon(u, CAPend(k), 0, FALSE)
    <3>2. v = [u EXCEPT !.lostBeacons = 0, !.macState = "CAP", !.capLeft = c,
                        !.gtsLeft = 0, !.adjacent = FALSE, !.guest = w, !.carried = y]
      BY <2>2 DEF Superframe
    <3>3. e = [u EXCEPT !.lostBeacons = 0, !.macState = "CAP", !.capLeft = c,
                        !.gtsLeft = 0, !.adjacent = FALSE, !.guest = w, !.carried = y]
      BY DEF WithBeacon
    <3> HIDE DEF c, w, y, e, v
    <3>4. v = e
      BY <3>2, <3>3
    <3>5. WithBeacon(u, CAPend(k), g, z) = e
      <4> HIDE DEF g, z
      <4> QED
        BY <3>1 DEF e
    <3> QED
      BY <2>1, <2>2, <3>1, <3>4, <3>5
  <2>3. CASE mine # {}
    <3>1. i \in mine
      BY <2>3
    <3>2. g = gtsEnd(i) /\ z = (i = k)
      BY <2>3
    <3>3. v = [[u EXCEPT !.lostBeacons = 0, !.macState = "CAP", !.capLeft = CAPend(k),
                         !.gtsLeft = 0, !.adjacent = FALSE, !.guest = ~u.associated,
                         !.carried = Running(u, "ACK_TIMEOUT")]
               EXCEPT !.gtsLeft = gtsEnd(i), !.adjacent = (i = k)]
      BY <2>3 DEF Superframe
    <3> DEFINE c == CAPend(k)
               w == ~u.associated
               y == Running(u, "ACK_TIMEOUT")
    <3>4. v = [[u EXCEPT !.lostBeacons = 0, !.macState = "CAP", !.capLeft = c,
                         !.gtsLeft = 0, !.adjacent = FALSE, !.guest = w, !.carried = y]
               EXCEPT !.gtsLeft = g, !.adjacent = z]
      BY <3>2, <3>3
    <3> DEFINE e == WithBeacon(u, CAPend(k), g, z)
    <3>5. e = [u EXCEPT !.lostBeacons = 0, !.macState = "CAP", !.capLeft = c,
                        !.gtsLeft = g, !.adjacent = z, !.guest = w, !.carried = y]
      BY DEF WithBeacon
    <3> HIDE DEF c, g, w, y, z, e, v
    <3>6. v = e
      BY <1>1, <3>4, <3>5 DEF NodeState
    <3>7. g \in Int /\ z \in BOOLEAN
      BY <2>1, <3>1, <3>2
    <3> QED
      BY <2>1, <2>3, <3>1, <3>2, <3>6, <3>7 DEF e
  <2> QED
    BY <2>2, <2>3
<1> HIDE DEF i, g, z
<1>3. /\ v \in NodeState /\ SamePackets(u, v) /\ SameRadio(u, v) /\ v.timers = u.timers
      /\ v.associated = u.associated /\ v.assignedGTS = u.assignedGTS
      /\ v.disabled = u.disabled /\ v.macState = "CAP"
      /\ v.capLeft = CAPend(k) /\ v.gtsLeft = g /\ v.adjacent = z /\ v.guest = ~u.associated
      /\ v.carried <=> Running(u, "ACK_TIMEOUT")
  BY <1>1, <1>2, BeaconOK
<1> HIDE DEF v
<1>4. /\ t \in NodeState /\ Moved(v, t) /\ t.macState = v.macState
      /\ \A x \in Timer \ {"SLEEP_START", "BACK_TO_SETUP", "GTS_START"} :
           t.timers[x] = v.timers[x]
  BY <1>3, ScheduledOK
<1> HIDE DEF t
<1>5. \A x \in Transmissions : t.timers[x] = s.timers[x]
  BY <1>1, <1>3, <1>4 DEF Transmissions, Timer
<1>6. /\ t.capLeft = CAPend(k) /\ t.gtsLeft = g /\ t.adjacent = z /\ t.guest = ~s.associated
      /\ t.associated = s.associated /\ t.assignedGTS = s.assignedGTS /\ t.disabled = s.disabled
      /\ t.carried <=> Running(s, "ACK_TIMEOUT")
  <2>1. u.timers["ACK_TIMEOUT"] = s.timers["ACK_TIMEOUT"]
    BY <1>1 DEF Timer
  <2> QED
    BY <1>1, <1>3, <1>4, <2>1 DEF Moved, SameOwn, Running
<1>7. SamePackets(s, t) /\ t.frame = s.frame /\ t.to = s.to
  BY <1>1, <1>3, <1>4 DEF Moved, SamePackets, SameRadio
<1>8. Placed(n, t)
  <2>1. /\ t.capLeft = CAPend(k)
        /\ mine = {} => t.gtsLeft = 0 /\ ~t.adjacent
    BY <1>2, <1>6
  <2>2. mine # {} => \E j \in mine : t.gtsLeft = gtsEnd(j) /\ t.adjacent = (j = k)
    BY <1>2, <1>6
  <2> QED
    BY <2>1, <2>2 DEF Placed
<1>9. Begins(n, s, t)
  BY <1>3, <1>4, <1>5, <1>6, <1>7, <1>8 DEF Begins
<1> QED
  BY <1>9 DEF t, v, u

-----------------------------------------------------------------------------
(* What each step does to the node that takes it. *)

\* Time, and the superframe's timers: packets and frames stay as they are, and at
\* the start of a slot the next attempt waits for a tick.
Still(n, s, t) ==
    /\ t \in NodeState /\ SameQueue(s, t) /\ t.frame = s.frame /\ t.to = s.to
    /\ t.associated = s.associated /\ t.assignedGTS = s.assignedGTS /\ t.guest = s.guest
    /\ t.carried = s.carried
    /\ t.capLeft = s.capLeft /\ t.gtsLeft = s.gtsLeft /\ t.adjacent = s.adjacent
    /\ t.disabled = s.disabled
    /\ t.timers["ACK_TIMEOUT"] = s.timers["ACK_TIMEOUT"]
    /\ \/ t.timers["ATTEMPT_TX"] = s.timers["ATTEMPT_TX"] \/ s.to = {}
       \/ t.timers["ATTEMPT_TX"] = 1 /\ s.gtsLeft >= 3
    /\ Running(t, "PERFORM_CCA") => Running(s, "PERFORM_CCA")
    /\ t.macState \in {s.macState, "GTS", "SLEEP"} \/ (~s.associated /\ t.macState = "SETUP")
    /\ n = Hub => t.timers["FRAME_START"] = s.timers["FRAME_START"]

\* Two such changes in a row,
LEMMA StillTwice ==
    ASSUME NEW n, NEW s, NEW t, NEW u, Still(n, s, t), Still(n, t, u)
    PROVE  Still(n, s, u)
BY DEF Still, SameQueue

\* a timer that is set,
LEMMA StillSet ==
    ASSUME NEW n, NEW s \in NodeState, NEW k \in Int,
           NEW x \in Timer \ {"ACK_TIMEOUT", "PERFORM_CCA"}, n = Hub => x # "FRAME_START",
           x = "ATTEMPT_TX" => s.to = {} \/ (k = 1 /\ s.gtsLeft >= 3)
    PROVE  Still(n, s, Set(s, x, k))
<1> DEFINE t == Set(s, x, k)
<1>1. /\ t \in NodeState /\ SameOwn(s, t) /\ SameRadio(s, t) /\ SamePackets(s, t)
      /\ \A y \in Timer : t.timers[y] = IF y = x THEN k ELSE s.timers[y]
  BY SetOK
<1> HIDE DEF t
<1>2. /\ t.timers["ACK_TIMEOUT"] = s.timers["ACK_TIMEOUT"]
      /\ t.timers["PERFORM_CCA"] = s.timers["PERFORM_CCA"]
      /\ n = Hub => t.timers["FRAME_START"] = s.timers["FRAME_START"]
      /\ t.timers["ATTEMPT_TX"] = IF x = "ATTEMPT_TX" THEN k ELSE s.timers["ATTEMPT_TX"]
  BY <1>1 DEF Timer
<1>3. Still(n, s, t)
  BY <1>1, <1>2 DEF Still, SameOwn, SameRadio, SamePackets, SameQueue, Running
<1> QED
  BY <1>3 DEF t

\* a timer that is stopped,
LEMMA StillStop ==
    ASSUME NEW n, NEW s \in NodeState, NEW x \in Timer \ {"ACK_TIMEOUT"},
           n = Hub => x # "FRAME_START", x = "ATTEMPT_TX" => s.to = {}
    PROVE  Still(n, s, Stop(s, x))
<1> DEFINE t == Stop(s, x)
<1>1. /\ t \in NodeState /\ SameOwn(s, t) /\ SameRadio(s, t) /\ SamePackets(s, t)
      /\ \A y \in Timer : t.timers[y] = IF y = x THEN Off ELSE s.timers[y]
  BY StopOK
<1> HIDE DEF t
<1>2. /\ t.timers["ACK_TIMEOUT"] = s.timers["ACK_TIMEOUT"]
      /\ t.timers["PERFORM_CCA"] \in {Off, s.timers["PERFORM_CCA"]}
      /\ n = Hub => t.timers["FRAME_START"] = s.timers["FRAME_START"]
      /\ t.timers["ATTEMPT_TX"] = IF x = "ATTEMPT_TX" THEN Off ELSE s.timers["ATTEMPT_TX"]
  BY <1>1 DEF Timer
<1>3. Still(n, s, t)
  BY <1>1, <1>2 DEF Still, SameOwn, SameRadio, SamePackets, SameQueue, Running
<1> QED
  BY <1>3 DEF t

\* another place in the superframe.
LEMMA StillPlace ==
    ASSUME NEW n, NEW s \in NodeState, NEW x \in MacState, NEW a \in BOOLEAN,
           x \in {s.macState, "GTS", "SLEEP"} \/ (~s.associated /\ x = "SETUP")
    PROVE  Still(n, s, WithPlace(s, x, a))
<1> DEFINE t == WithPlace(s, x, a)
<1>1. t \in NodeState /\ Moved(s, t) /\ t.timers = s.timers /\ t.macState = x
  BY PlaceOK
<1> HIDE DEF t
<1>2. Still(n, s, t)
  BY <1>1 DEF Still, Moved, SamePackets, SameQueue, Running
<1> QED
  BY <1>2 DEF t

\* A step of n alone, whose nodes go from s to t.
Alone(n, t) == mac'[n] = t /\ \A k \in Node \ {n} : mac'[k] = mac[k]
Keeps(n) == \E t : Alone(n, t) /\ Still(n, mac[n], t)

\* They leave the others alone.
LEMMA KeepsStill ==
    ASSUME NodesOK, NEW n \in Node, NEW t, Becomes(n, t), Still(n, mac[n], t)
    PROVE  Keeps(n)
BY Became DEF Keeps, Alone

\* The coordinator's clock and the radio apart, the superframe's timers keep it all.
LEMMA FrameStartKeeps ==
    ASSUME Setting, NodesOK, NEW n \in Node, FrameStart(n)
    PROVE  Keeps(n)
<1> DEFINE s == mac[n]
           t == Stop(s, "FRAME_START")
           u == WithPlace(t, t.macState, TRUE)
           v == Set(u, "BEACON_TIMEOUT", 2)
<1>1. n # Hub /\ s \in NodeState
  BY DEF FrameStart, NodesOK
<1>2. Still(n, s, t)
  BY <1>1, StillStop DEF Timer
<1>3. t \in NodeState /\ t.macState \in MacState
  BY <1>2 DEF Still, NodeState
<1>4. Becomes(n, v)
  <2>1. [t EXCEPT !.awake = TRUE] = u
    BY <1>3 DEF WithPlace, NodeState
  <2> QED
    BY <2>1 DEF FrameStart, After
<1> HIDE DEF t
<1>5. Still(n, t, u)
  BY <1>3, StillPlace
<1> HIDE DEF u
<1>6. Still(n, u, v)
  <2>1. u \in NodeState
    BY <1>5 DEF Still
  <2> QED
    BY <1>1, <2>1, StillSet DEF Timer
<1> HIDE DEF v
<1> QED
  BY <1>2, <1>4, <1>5, <1>6, StillTwice, KeepsStill

\* The slot begins.
LEMMA GtsStartKeeps ==
    ASSUME Setting, NodesOK, NEW n \in Node, GtsStart(n)
    PROVE  Keeps(n)
<1> DEFINE s == mac[n]
           t == Stop(s, "GTS_START")
           u == WithPlace(t, "GTS", TRUE)
           w == Set(u, "ATTEMPT_TX", 1)
           v == Set(w, "SLEEP_START", u.gtsLeft)
<1>1. n # Hub /\ s \in NodeState /\ s.gtsLeft >= 3
  <2>1. n # Hub /\ s \in NodeState /\ Timed(s) /\ s.timers["GTS_START"] = 0
    BY DeviceOK DEF GtsStart, Timer, Due
  <2>2. Running(s, "GTS_START")
    BY <2>1 DEF Running, Off
  <2>3. par.requestGTS > 0 /\ par.requestGTS \in Nat /\ 0 = s.gtsLeft - 2 * par.requestGTS - 1
    BY <2>1, <2>2 DEF Timed, Setting
  <2>4. s.gtsLeft \in Int
    BY <2>1 DEF NodeState
  <2> QED
    BY <2>1, <2>3, <2>4
<1>2. Still(n, s, t)
  BY <1>1, StillStop DEF Timer
<1>3. t \in NodeState /\ t.gtsLeft = s.gtsLeft
  BY <1>2 DEF Still
<1>4. Becomes(n, v)
  BY DEF GtsStart, After, WithPlace
<1> HIDE DEF t
<1>5. Still(n, t, u)
  BY <1>3, StillPlace DEF MacState
<1> HIDE DEF u
<1>6. u \in NodeState /\ u.gtsLeft = s.gtsLeft /\ u.gtsLeft \in Int
  BY <1>3, <1>5 DEF Still, NodeState
<1>7. Still(n, u, w)
  BY <1>1, <1>6, StillSet DEF Timer
<1>8. w \in NodeState
  BY <1>7 DEF Still
<1> HIDE DEF w
<1>9. Still(n, w, v)
  BY <1>1, <1>6, <1>8, StillSet DEF Timer
<1> HIDE DEF v
<1> QED
  BY <1>2, <1>4, <1>5, <1>7, <1>9, StillTwice, KeepsStill

\* It is time to sleep.
LEMMA SleepStartKeeps ==
    ASSUME Setting, NodesOK, NEW n \in Node, SleepStart(n)
    PROVE  Keeps(n)
<1> DEFINE s == mac[n]
           t == Stop(s, "SLEEP_START")
           u == WithPlace(t, "SLEEP", FALSE)
           v == Stop(u, "PERFORM_CCA")
<1>1. s \in NodeState
  BY DEF NodesOK
<1>2. Still(n, s, t)
  BY <1>1, StillStop DEF Timer
<1>3. t \in NodeState
  BY <1>2 DEF Still
<1>4. Becomes(n, IF Running(t, "BEACON_TIMEOUT") THEN t ELSE v)
  BY DEF SleepStart, After, WithPlace
<1> HIDE DEF t
<1>5. Still(n, t, u)
  BY <1>3, StillPlace DEF MacState
<1>6. u \in NodeState
  BY <1>5 DEF Still
<1> HIDE DEF u
<1>7. Still(n, u, v)
  BY <1>6, StillStop DEF Timer
<1> HIDE DEF v
<1>8. Still(n, s, v)
  BY <1>2, <1>5, <1>7, StillTwice
<1> QED
  BY <1>2, <1>4, <1>8, KeepsStill

\* The CAP ends for a node that did not join.
LEMMA BackToSetupKeeps ==
    ASSUME Setting, NodesOK, NEW n \in Node, BackToSetup(n)
    PROVE  Keeps(n)
<1> DEFINE s == mac[n]
           t == Stop(s, "BACK_TO_SETUP")
           u == WithPlace(t, "SETUP", t.awake)
<1>1. s \in NodeState
  BY DEF NodesOK
<1>2. Still(n, s, t)
  BY <1>1, StillStop DEF Timer
<1>3. t \in NodeState /\ t.awake \in BOOLEAN
  BY <1>2 DEF Still, NodeState
<1>4. Becomes(n, IF t.associated THEN t ELSE u)
  <2>1. [t EXCEPT !.macState = "SETUP"] = u
    BY <1>3 DEF WithPlace, NodeState
  <2> QED
    BY <2>1 DEF BackToSetup, After
<1> HIDE DEF t
<1>5. ~t.associated => Still(n, t, u)
  BY <1>3, StillPlace DEF MacState
<1> HIDE DEF u
<1> QED
  BY <1>2, <1>4, <1>5, StillTwice, KeepsStill

\* A CCA that is not made.
LEMMA NoCcaKeeps ==
    ASSUME Setting, NodesOK, NEW n \in Node, CcaInVain(n) \/ CcaNotValid(n)
    PROVE  Keeps(n)
<1> DEFINE s == mac[n]
           t == Stop(s, "PERFORM_CCA")
           u == WithPlace(t, t.macState, TRUE)
<1>1. s \in NodeState
  BY DEF NodesOK
<1>2. Still(n, s, t)
  BY <1>1, StillStop DEF Timer
<1>3. t \in NodeState /\ t.macState \in MacState
  BY <1>2 DEF Still, NodeState
<1>4. Becomes(n, t) \/ Becomes(n, u)
  <2>1. [t EXCEPT !.awake = TRUE] = u
    BY <1>3 DEF WithPlace, NodeState
  <2> QED
    BY <2>1 DEF CcaInVain, CcaNotValid, After
<1> HIDE DEF t
<1>5. Still(n, t, u)
  BY <1>3, StillPlace
<1> HIDE DEF u
<1> QED
  BY <1>2, <1>4, <1>5, StillTwice, KeepsStill

\* An attempt: nothing was on the air, and the packet in service is tried or given up.
Tries(n, s, t) ==
    /\ s.to = {} /\ ~s.disabled /\ Moves(n, s, t)
    /\ SameQueue(s, t) \/ (s.currentPacket # NoFrame /\ Follows(s, t))
    /\ s.currentPacket = NoFrame \/ (s.macState = "SETUP" /\ ~Running(s, "PERFORM_CCA")) => Holds(s, t)

\* n waits for no ACK that is on its way.
Unanswered(n) ==
    \/ \A m \in Node : ~(n \in mac[m].to /\ mac[m].frame.type = "ACK")
    \/ ~Running(mac[n], "ACK_TIMEOUT")
    \/ Running(mac[n], "PERFORM_CCA") /\ Assesses(n)

Attempting(n) == \E t : Alone(n, t) /\ Tries(n, mac[n], t) /\ Unanswered(n)

\* Timers and counters first, and then the attempt.
LEMMA TriesThen ==
    ASSUME Setting, NEW n \in Node, NEW s \in NodeState, NEW t \in NodeState, NEW b \in Backoff, NEW d \in Exchange,
           s.to = {}, ~s.disabled, Buffers(s), SameOwn(s, t), SameQueue(s, t), Holds(s, t),
           t.timers["FRAME_START"] = s.timers["FRAME_START"],
           Running(t, "PERFORM_CCA") => Running(s, "PERFORM_CCA")
    PROVE  Tries(n, s, attemptTransmission(n, t, b, d))
<1> DEFINE u == attemptTransmission(n, t, b, d)
<1>1. Buffers(t) /\ t.currentPacket = s.currentPacket
  BY DEF Buffers, SameQueue
<1>2. /\ Moves(n, t, u)
      /\ SameQueue(t, u) \/ (t.currentPacket # NoFrame /\ t.retries = 0 /\ Follows(t, u))
      /\ t.macState # "GTS" \/ t.currentPacket = NoFrame => Holds(t, u)
  BY <1>1, AgainMoves
<1> HIDE DEF u
<1>3. Moves(n, s, u)
  BY <1>2, HoldsThen
<1>4. SameQueue(s, u) \/ (s.currentPacket # NoFrame /\ Follows(s, u))
  <2>1. SameQueue(t, u) => SameQueue(s, u)
    BY DEF SameQueue
  <2>2. Follows(t, u) => Follows(s, u)
    BY FollowsSame DEF SameQueue
  <2> QED
    BY <1>1, <1>2, <2>1, <2>2
<1>5. s.currentPacket = NoFrame \/ s.macState = "SETUP" => Holds(s, u)
  BY <1>1, <1>2 DEF Holds, SameOwn
<1>6. Tries(n, s, u)
  BY <1>3, <1>4, <1>5 DEF Tries
<1> QED
  BY <1>6 DEF u

\* What is known of a node one of whose timers has fired.
LEMMA FiresOK ==
    ASSUME Setting, NodesOK, NEW n \in Node, NEW x \in Timer, Fires(n, x)
    PROVE  /\ mac[n] \in NodeState /\ ~mac[n].disabled /\ mac[n].to = {} /\ Buffers(mac[n])
           /\ mac[n].timers[x] = 0
BY DueOK DEF Fires, Due, Transmitting, NodesOK, Fit, Carries, Buffers

\* No answer has come.
LEMMA AckTimeoutAttempts ==
    ASSUME Setting, NodesOK, NEW n \in Node, AckTimeout(n)
    PROVE  Attempting(n)
<1> DEFINE s == mac[n]
           t == Stop(s, "ACK_TIMEOUT")
<1>1. s \in NodeState /\ ~s.disabled /\ s.to = {} /\ Buffers(s)
  BY FiresOK DEF AckTimeout, Timer
<1>2. PICK b \in Backoff, d \in Exchange : Becomes(n, attemptTransmission(n, t, b, d))
  BY DEF AckTimeout, After
<1>3. /\ t \in NodeState /\ SameOwn(s, t) /\ SameRadio(s, t) /\ SamePackets(s, t)
      /\ \A x \in Timer : t.timers[x] = IF x = "ACK_TIMEOUT" THEN Off ELSE s.timers[x]
  BY <1>1, StopOK DEF Timer
<1> HIDE DEF s, t
<1>4. /\ t.timers["FRAME_START"] = s.timers["FRAME_START"]
      /\ t.timers["PERFORM_CCA"] = s.timers["PERFORM_CCA"]
      /\ t.timers["ATTEMPT_TX"] = s.timers["ATTEMPT_TX"]
      /\ t.timers["ACK_TIMEOUT"] = Off
  BY <1>3 DEF Timer
<1>5. SameQueue(s, t) /\ Holds(s, t) /\ (Running(t, "PERFORM_CCA") => Running(s, "PERFORM_CCA"))
  BY <1>3, <1>4 DEF SameQueue, SamePackets, Holds, SameRadio, Running
<1>6. Tries(n, s, attemptTransmission(n, t, b, d))
  BY <1>1, <1>3, <1>4, <1>5, TriesThen
<1>7. Unanswered(n)
  BY DEF AckTimeout, Unanswered
<1> QED
  BY <1>2, <1>6, <1>7, Became DEF Attempting, Alone, s

\* It is time for another attempt, unless an answer is still awaited.
LEMMA AttemptTxAttempts ==
    ASSUME Setting, NodesOK, NEW n \in Node, AttemptTx(n)
    PROVE  Attempting(n) \/ (Keeps(n) /\ Running(mac[n], "ACK_TIMEOUT"))
<1> DEFINE s == mac[n]
           t == Stop(s, "ATTEMPT_TX")
<1>1. s \in NodeState /\ ~s.disabled /\ s.to = {} /\ Buffers(s)
  BY FiresOK DEF AttemptTx, Timer
<1>2. /\ t \in NodeState /\ SameOwn(s, t) /\ SameRadio(s, t) /\ SamePackets(s, t)
      /\ \A x \in Timer : t.timers[x] = IF x = "ATTEMPT_TX" THEN Off ELSE s.timers[x]
  BY <1>1, StopOK DEF Timer
<1>3. CASE Running(t, "ACK_TIMEOUT")
  <2>1. Becomes(n, t)
    BY <1>3 DEF AttemptTx, After
  <2>2. Still(n, s, t)
    BY <1>1, StillStop DEF Timer
  <2>3. Running(s, "ACK_TIMEOUT")
    BY <1>2, <1>3 DEF Running, Timer
  <2> QED
    BY <2>1, <2>2, <2>3, KeepsStill
<1>4. CASE ~Running(t, "ACK_TIMEOUT")
  <2>1. PICK b \in Backoff, d \in Exchange : Becomes(n, attemptTransmission(n, t, b, d))
    BY <1>4 DEF AttemptTx, After
  <2> HIDE DEF s, t
  <2>2. /\ t.timers["FRAME_START"] = s.timers["FRAME_START"]
        /\ t.timers["PERFORM_CCA"] = s.timers["PERFORM_CCA"]
        /\ t.timers["ACK_TIMEOUT"] = s.timers["ACK_TIMEOUT"]
        /\ t.timers["ATTEMPT_TX"] = Off
    BY <1>2 DEF Timer
  <2>3. SameQueue(s, t) /\ Holds(s, t) /\ (Running(t, "PERFORM_CCA") => Running(s, "PERFORM_CCA"))
    BY <1>2, <2>2 DEF SameQueue, SamePackets, Holds, SameRadio, Running
  <2>4. Tries(n, s, attemptTransmission(n, t, b, d))
    BY <1>1, <1>2, <2>2, <2>3, TriesThen
  <2>5. Unanswered(n)
    BY <1>4, <2>2 DEF Unanswered, Running, s
  <2> QED
    BY <2>1, <2>4, <2>5, Became DEF Attempting, Alone, s
<1> QED
  BY <1>3, <1>4

\* The channel is assessed: counters change.
LEMMA AssessMoves ==
    ASSUME NEW s \in NodeState, NEW r \in Int, NEW k \in Int, NEW NB \in Int, NEW CW \in Int
    PROVE  LET u == WithBackoffs(WithAttempts(Stop(s, "PERFORM_CCA"), r, k), NB, CW)
           IN  /\ u \in NodeState /\ SameOwn(s, u) /\ SameQueue(s, u) /\ Holds(s, u)
               /\ u.timers["FRAME_START"] = s.timers["FRAME_START"] /\ ~Running(u, "PERFORM_CCA")
<1> DEFINE t == Stop(s, "PERFORM_CCA")
           a == WithAttempts(t, r, k)
           u == WithBackoffs(a, NB, CW)
<1>1. /\ t \in NodeState /\ SameOwn(s, t) /\ SameRadio(s, t) /\ SamePackets(s, t)
      /\ \A x \in Timer : t.timers[x] = IF x = "PERFORM_CCA" THEN Off ELSE s.timers[x]
  BY StopOK DEF Timer
<1> HIDE DEF t
<1>2. /\ a \in NodeState /\ SameOwn(t, a) /\ SameRadio(t, a) /\ a.timers = t.timers
      /\ a.currentPacket = t.currentPacket /\ a.TXBuffer = t.TXBuffer
  BY <1>1, AttemptsOK
<1> HIDE DEF a
<1>3. /\ u \in NodeState /\ SameOwn(a, u) /\ SameRadio(a, u) /\ u.timers = a.timers
      /\ u.currentPacket = a.currentPacket /\ u.TXBuffer = a.TXBuffer
  BY <1>2, BackoffsOK
<1> HIDE DEF u
<1>4. SameOwn(s, u) /\ SameQueue(s, u) /\ SameRadio(s, u)
  BY <1>1, <1>2, <1>3 DEF SameOwn, SamePackets, SameRadio, SameQueue
<1>5. /\ u.timers["FRAME_START"] = s.timers["FRAME_START"] /\ u.timers["PERFORM_CCA"] = Off
      /\ u.timers["ATTEMPT_TX"] = s.timers["ATTEMPT_TX"]
      /\ u.timers["ACK_TIMEOUT"] = s.timers["ACK_TIMEOUT"]
  BY <1>1, <1>2, <1>3 DEF Timer
<1>6. Holds(s, u)
  BY <1>4, <1>5 DEF Holds, SameRadio, Running
<1> QED
  BY <1>3, <1>4, <1>5, <1>6 DEF u, a, t, Running

\* CSMA-CA goes on.
LEMMA BackoffTries ==
    ASSUME NEW n \in Node, NEW s \in NodeState, NEW u \in NodeState, NEW b \in Backoff, s.to = {}, ~s.disabled,
           SameOwn(s, u), SameQueue(s, u), Holds(s, u),
           u.timers["FRAME_START"] = s.timers["FRAME_START"], Running(s, "PERFORM_CCA")
    PROVE  Tries(n, s, performCSMACA(u, b))
<1> DEFINE v == Set(u, "PERFORM_CCA", b)
<1>1. /\ v \in NodeState /\ SameOwn(u, v) /\ SameRadio(u, v) /\ SamePackets(u, v)
      /\ \A x \in Timer : v.timers[x] = IF x = "PERFORM_CCA" THEN b ELSE u.timers[x]
  <2>1. "PERFORM_CCA" \in Timer /\ b \in Int
    BY DEF Timer, Backoff
  <2> QED
    BY <2>1, SetOK
<1>2. performCSMACA(u, b) = v
  BY DEF performCSMACA
<1> HIDE DEF v
<1>3. /\ v.timers["FRAME_START"] = u.timers["FRAME_START"]
      /\ v.timers["ATTEMPT_TX"] = u.timers["ATTEMPT_TX"]
      /\ v.timers["ACK_TIMEOUT"] = u.timers["ACK_TIMEOUT"]
  BY <1>1 DEF Timer
<1>4. SameOwn(s, v) /\ SameQueue(s, v) /\ Holds(s, v)
  BY <1>1, <1>3 DEF SameOwn, SamePackets, SameQueue, SameRadio, Holds
<1> QED
  BY <1>1, <1>2, <1>3, <1>4 DEF Tries, Moves

\* The channel is clear.
LEMMA CcaClearAttempts ==
    ASSUME Setting, NodesOK, NEW n \in Node, CcaClear(n)
    PROVE  Attempting(n)
<1> DEFINE s == mac[n]
           t == Stop(s, "PERFORM_CCA")
           u == WithBackoffs(WithAttempts(t, s.retries, s.tried), s.NB, s.CW - 1)
<1>1. /\ s \in NodeState /\ ~s.disabled /\ s.to = {} /\ s.macState # "SLEEP"
      /\ Running(s, "PERFORM_CCA") /\ Unanswered(n)
  BY FiresOK DEF CcaClear, Timer, Assesses, Running, Off, Unanswered
<1>2. /\ s.NB \in Int /\ s.CW \in Int /\ s.CW - 1 \in Int /\ s.retries \in Int /\ s.tried \in Int
  BY <1>1 DEF NodeState
<1>3. [After(n, "PERFORM_CCA") EXCEPT !.CW = @ - 1] = u
  <2>1. t \in NodeState /\ SamePackets(s, t)
    BY <1>1, StopOK DEF Timer
  <2>2. t.retries = s.retries /\ t.tried = s.tried /\ t.NB = s.NB /\ t.CW = s.CW
    BY <2>1 DEF SamePackets
  <2> HIDE DEF t
  <2>3. [t EXCEPT !.CW = s.CW - 1] = u
    BY <2>1, <2>2 DEF WithBackoffs, WithAttempts, NodeState
  <2> QED
    BY <2>2, <2>3 DEF After, t
<1>4. CcaClear(n) => IF u.CW > 0 THEN Becomes(n, performCSMACA(u, 0))
                     ELSE \E d \in Exchange : Becomes(n, transmitCurrentPacket(n, u, d))
  BY <1>3 DEF CcaClear
<1>5. /\ u \in NodeState /\ SameOwn(s, u) /\ SameQueue(s, u) /\ Holds(s, u)
      /\ u.timers["FRAME_START"] = s.timers["FRAME_START"] /\ ~Running(u, "PERFORM_CCA")
  <2> HIDE DEF s
  <2> QED
    BY <1>1, <1>2, AssessMoves
<1> HIDE DEF u
<1>6. CASE u.CW > 0
  <2>1. Becomes(n, performCSMACA(u, 0)) /\ 0 \in Backoff
    BY <1>4, <1>6 DEF Backoff, Setting
  <2>2. Tries(n, s, performCSMACA(u, 0))
    BY <1>1, <1>5, <2>1, BackoffTries
  <2> QED
    BY <1>1, <2>1, <2>2, Became DEF Attempting, Alone
<1>7. CASE ~(u.CW > 0)
  <2>1. PICK d \in Exchange : Becomes(n, transmitCurrentPacket(n, u, d))
    BY <1>4, <1>7
  <2> DEFINE v == transmitCurrentPacket(n, u, d)
  <2>2. /\ v \in NodeState /\ SameOwn(u, v) /\ SameQueue(u, v)
        /\ v.timers["FRAME_START"] = u.timers["FRAME_START"]
        /\ v = u \/ (u.currentPacket # NoFrame /\ Sends(n, u, v))
    BY <1>1, <1>5, TransmitMoves DEF SameOwn
  <2> HIDE DEF v, s
  <2>3. Moves(n, u, v) /\ (u.currentPacket = NoFrame => v = u)
    BY <1>5, <2>2, HoldsSelf DEF Moves
  <2>4. Moves(n, s, v)
    BY <1>5, <2>3, HoldsThen
  <2>5. SameQueue(s, v) /\ (s.currentPacket = NoFrame => Holds(s, v))
    BY <1>5, <2>2, <2>3 DEF SameQueue
  <2>6. Tries(n, s, v)
    BY <1>1, <2>4, <2>5 DEF Tries
  <2> QED
    BY <1>1, <2>1, <2>6, Became DEF Attempting, Alone, v, s
<1> QED
  BY <1>6, <1>7

\* The channel is busy.
LEMMA CcaBusyAttempts ==
    ASSUME Setting, NodesOK, NEW n \in Node, CcaBusy(n)
    PROVE  Attempting(n)
<1> DEFINE s == mac[n]
           t == Stop(s, "PERFORM_CCA")
           j == s.NB + 1
           u == WithBackoffs(WithAttempts(t, s.retries, s.tried), j, FirstCW)
           failed == IF s.currentPacket = NoFrame THEN 0 ELSE 1
           w == WithBackoffs(WithAttempts(t, s.retries - 1, s.tried + failed), j, FirstCW)
           v == [After(n, "PERFORM_CCA") EXCEPT !.CW = FirstCW, !.NB = @ + 1]
<1>1. /\ s \in NodeState /\ ~s.disabled /\ s.to = {} /\ Buffers(s)
      /\ Running(s, "PERFORM_CCA") /\ Unanswered(n)
  BY FiresOK DEF CcaBusy, Timer, Assesses, Running, Off, Unanswered
<1>2. /\ j \in Int /\ FirstCW \in Int /\ s.retries \in Int /\ s.tried \in Int
      /\ s.retries - 1 \in Int /\ s.tried + failed \in Int
  BY <1>1 DEF NodeState, FirstCW
<1>3. t \in NodeState /\ SamePackets(s, t)
  BY <1>1, StopOK DEF Timer
<1>4. /\ v = u /\ [v EXCEPT !.retries = @ - 1, !.tried = @ + failed] = w
      /\ v.currentPacket = s.currentPacket
  <2>1. /\ t.retries = s.retries /\ t.tried = s.tried /\ t.NB = s.NB
        /\ t.currentPacket = s.currentPacket
    BY <1>3 DEF SamePackets
  <2> HIDE DEF t
  <2>2. v = [t EXCEPT !.CW = FirstCW, !.NB = j]
    BY <2>1 DEF After, t
  <2>3. [t EXCEPT !.CW = FirstCW, !.NB = j] = u
    BY <1>3, <2>1 DEF WithBackoffs, WithAttempts, NodeState
  <2>4. u.retries = s.retries /\ u.tried = s.tried /\ u.currentPacket = t.currentPacket
    BY <1>3 DEF WithBackoffs, WithAttempts, NodeState
  <2>5. [u EXCEPT !.retries = s.retries - 1, !.tried = s.tried + failed] = w
    BY <1>3 DEF WithBackoffs, WithAttempts, NodeState
  <2> QED
    BY <2>1, <2>2, <2>3, <2>4, <2>5
<1> HIDE DEF failed
<1>5. PICK b \in Backoff, d \in Exchange :
        Becomes(n, IF v.NB <= par.macMaxCSMABackoffs THEN performCSMACA(v, b)
                   ELSE attemptTransmission(n,
                          [v EXCEPT !.retries = @ - 1, !.tried = @ + failed], b, d))
  <2> HIDE DEF v
  <2>1. \E b \in Backoff, d \in Exchange :
          Becomes(n, IF v.NB <= par.macMaxCSMABackoffs THEN performCSMACA(v, b)
                     ELSE attemptTransmission(n,
                            [v EXCEPT !.retries = @ - 1,
                                      !.tried = @ + (IF v.currentPacket = NoFrame THEN 0 ELSE 1)],
                            b, d))
    BY DEF CcaBusy, v
  <2> QED
    BY <1>4, <2>1 DEF failed
<1>6. Becomes(n, performCSMACA(u, b)) \/ Becomes(n, attemptTransmission(n, w, b, d))
  BY <1>4, <1>5
<1>7. /\ u \in NodeState /\ SameOwn(s, u) /\ SameQueue(s, u) /\ Holds(s, u)
      /\ u.timers["FRAME_START"] = s.timers["FRAME_START"] /\ ~Running(u, "PERFORM_CCA")
  <2> HIDE DEF s, j
  <2> QED
    BY <1>1, <1>2, AssessMoves
<1>8. /\ w \in NodeState /\ SameOwn(s, w) /\ SameQueue(s, w) /\ Holds(s, w)
      /\ w.timers["FRAME_START"] = s.timers["FRAME_START"] /\ ~Running(w, "PERFORM_CCA")
  <2> DEFINE r == s.retries - 1
             k == s.tried + failed
  <2>1. r \in Int /\ k \in Int
    BY <1>2
  <2> HIDE DEF s, j, r, k
  <2>2. LET x == WithBackoffs(WithAttempts(Stop(s, "PERFORM_CCA"), r, k), j, FirstCW)
        IN  /\ x \in NodeState /\ SameOwn(s, x) /\ SameQueue(s, x) /\ Holds(s, x)
            /\ x.timers["FRAME_START"] = s.timers["FRAME_START"] /\ ~Running(x, "PERFORM_CCA")
    BY <1>1, <1>2, <2>1, AssessMoves
  <2> QED
    BY <2>2 DEF r, k
<1> HIDE DEF u, w
<1>9. Tries(n, s, performCSMACA(u, b))
  BY <1>1, <1>7, BackoffTries
<1>10. Tries(n, s, attemptTransmission(n, w, b, d))
  <2> HIDE DEF s
  <2> QED
    BY <1>1, <1>8, TriesThen
<1> QED
  BY <1>1, <1>6, <1>9, <1>10, Became DEF Attempting, Alone

\* The PAN is lost: the packet in service goes with it, what is on the air does not.
Leaves(n, s, t) ==
    /\ t \in NodeState /\ t.currentPacket = NoFrame /\ t.TXBuffer = s.TXBuffer
    /\ t.frame = s.frame /\ t.to = s.to /\ t.disabled = s.disabled /\ t.guest = s.guest
    /\ t.carried = s.carried
    /\ ~t.associated /\ t.assignedGTS = 0 /\ t.macState = "SETUP"
    /\ t.capLeft = s.capLeft /\ t.gtsLeft = s.gtsLeft /\ t.adjacent = s.adjacent
    /\ \A x \in Transmissions : t.timers[x] = s.timers[x]

\* The wait for a beacon ends a tick after it was due.
Quits(n) ==
    /\ \E t : Alone(n, t) /\ Leaves(n, mac[n], t)
    /\ n # Hub /\ ~mac[n].disabled
    /\ n \in mac[Hub].to => mac[Hub].frame.type # "BEACON"
    /\ ~mac[Hub].disabled => mac[Hub].timers["FRAME_START"] + 1 = Interval

\* A missed beacon is counted; the last one costs the PAN.
LEMMA BeaconTimeoutQuits ==
    ASSUME Setting, NodesOK, NEW n \in Node, BeaconTimeout(n)
    PROVE  Quits(n) \/ Keeps(n)
<1> DEFINE s == mac[n]
           k == s.lostBeacons + 1
           a == Stop(s, "BEACON_TIMEOUT")
           t == WithLost(a, k)
           u == WithPlace(t, "SLEEP", FALSE)
           v == Set(u, "FRAME_START", Interval - 2)
           w == WithoutPAN(t)
           h == mac[Hub]
<1>1. /\ n # Hub /\ ~s.disabled /\ s \in NodeState /\ NodeOK(n, s)
      /\ Paced(h, n, s) /\ s.timers["BEACON_TIMEOUT"] = 0
  BY DeviceOK DEF BeaconTimeout, Timer, Due
<1>2. ~h.disabled => h.timers["FRAME_START"] \in 0..Interval
  BY HubClock
<1>3. /\ n \in h.to => h.frame.type # "BEACON"
      /\ ~h.disabled => h.timers["FRAME_START"] + 1 = Interval
  <2> HIDE DEF s, h
  <2> QED
    BY <1>1, <1>2, MissedOK
<1>4. a \in NodeState /\ Still(n, s, a) /\ a.lostBeacons = s.lostBeacons
      /\ SameOwn(s, a) /\ SameRadio(s, a) /\ SamePackets(s, a)
      /\ \A x \in Timer : a.timers[x] = IF x = "BEACON_TIMEOUT" THEN Off ELSE s.timers[x]
  BY <1>1, StillStop, StopOK DEF Timer, SameOwn
<1>5. [After(n, "BEACON_TIMEOUT") EXCEPT !.lostBeacons = @ + 1] = t
  BY <1>4 DEF After, WithLost
<1>6. Becomes(n, w) \/ Becomes(n, v) \/ Becomes(n, t)
  <2>1. Becomes(n,
             IF t.lostBeacons >= par.maxLostBeacons
             THEN [t EXCEPT !.macState = "SETUP", !.associated = FALSE,
                            !.assignedGTS = 0, !.currentPacket = NoFrame]
             ELSE IF t.associated
             THEN Set([t EXCEPT !.macState = "SLEEP", !.awake = FALSE],
                      "FRAME_START", Interval - 2)
             ELSE t)
    BY <1>5 DEF BeaconTimeout
  <2> HIDE DEF t
  <2> QED
    BY <2>1 DEF WithoutPAN, WithPlace
<1>7. k \in Int
  BY <1>1 DEF NodeState
<1> HIDE DEF k, a
<1>8. /\ t \in NodeState /\ SameQueue(a, t) /\ SameRadio(a, t) /\ t.timers = a.timers
      /\ t.macState = a.macState /\ t.associated = a.associated /\ t.assignedGTS = a.assignedGTS
      /\ t.capLeft = a.capLeft /\ t.gtsLeft = a.gtsLeft /\ t.adjacent = a.adjacent
      /\ t.disabled = a.disabled /\ t.guest = a.guest /\ t.carried = a.carried
  BY <1>4, <1>7 DEF WithLost, NodeState, SameQueue, SameRadio
<1> HIDE DEF t
<1>9. Still(n, a, t)
  BY <1>8 DEF Still, SameRadio, SameQueue, Running
<1>10. Still(n, s, t)
  BY <1>4, <1>9, StillTwice
<1>11. CASE Becomes(n, t)
  BY <1>10, <1>11, KeepsStill
<1>12. CASE Becomes(n, v)
  <2>1. Still(n, t, u)
    BY <1>8, StillPlace DEF MacState
  <2>2. u \in NodeState
    BY <2>1 DEF Still
  <2> HIDE DEF u
  <2>3. Still(n, u, v)
    <3>1. Interval - 2 \in Int /\ "FRAME_START" \in Timer \ {"ACK_TIMEOUT", "PERFORM_CCA"}
      BY DEF Setting, Timer
    <3> QED
      BY <1>1, <2>2, <3>1, StillSet
  <2> HIDE DEF v
  <2>4. Still(n, s, v)
    BY <1>10, <2>1, <2>3, StillTwice
  <2> QED
    BY <1>12, <2>4, KeepsStill
<1>13. CASE Becomes(n, w)
  <2>1. NoFrame \in AnyFrame
    BY NoFrameOK DEF Sound
  <2>2. /\ w \in NodeState /\ SameRadio(t, w) /\ w.timers = t.timers
        /\ w.macState = "SETUP" /\ ~w.associated /\ w.assignedGTS = 0
        /\ w.currentPacket = NoFrame /\ w.TXBuffer = t.TXBuffer
        /\ w.capLeft = t.capLeft /\ w.gtsLeft = t.gtsLeft /\ w.disabled = t.disabled
        /\ w.adjacent = t.adjacent /\ w.guest = t.guest /\ w.carried = t.carried
    BY <1>8, <2>1, LosePAN
  <2> HIDE DEF w
  <2>3. \A x \in Transmissions : w.timers[x] = s.timers[x]
    BY <1>4, <1>8, <2>2 DEF Transmissions, Timer
  <2>4. Leaves(n, s, w)
    BY <1>4, <1>8, <2>2, <2>3 DEF Leaves, SameOwn, SamePackets, SameRadio, SameQueue
  <2> QED
    BY <1>1, <1>3, <1>13, <2>4, Became DEF Quits, Alone
<1> QED
  BY <1>6, <1>11, <1>12, <1>13

Join == Frame("ASSOCIATE", Hub, 0, 0)

\* A beacon: the node has its place in the superframe, and begins to join or to send.
Hears(n, s, t) ==
    /\ t \in NodeState /\ s.to = {} /\ ~s.disabled /\ Placed(n, t)
    /\ t.frame = s.frame /\ t.to = s.to
    /\ t.timers["ACK_TIMEOUT"] \in {Off, s.timers["ACK_TIMEOUT"]}
    /\ t.associated = s.associated /\ t.assignedGTS = s.assignedGTS
    /\ ~t.disabled /\ t.macState = "CAP" /\ t.guest = ~s.associated
    /\ t.carried <=> Running(s, "ACK_TIMEOUT")
    /\ s.associated =>
         SameQueue(s, t) \/ (s.currentPacket # NoFrame /\ Follows(s, t))
    /\ ~s.associated => t.currentPacket \in {Join, NoFrame} /\ t.TXBuffer = s.TXBuffer

\* n takes a frame of m, and becomes t.
Handover(m, n, t) ==
    /\ m # n /\ n \in mac[m].to /\ mac'[n] = t /\ mac'[m] = Taken(mac[m], n)
    /\ \A k \in Node \ {m, n} : mac'[k] = mac[k]

\* So it is when Takes says so.
LEMMA TakesExchange ==
    ASSUME NodesOK, NEW m \in Node, NEW n \in Node, n \in mac[m].to, NEW t, Takes(m, n, t)
    PROVE  Handover(m, n, t)
<1>1. m # n /\ mac \in [Node -> NodeState]
  BY DEF NodesOK, NodeOK, Carries
<1> QED
  BY <1>1 DEF Takes, Handover

\* ReceiveBeacon, as a step of the coordinator and the node that hears it.
LEMMA BeaconHeard ==
    ASSUME Setting, NodesOK, ListOK, NEW n \in Node, ReceiveBeacon(n)
    PROVE  /\ mac[Hub].frame.type = "BEACON"
           /\ \E t : Handover(Hub, n, t) /\ Hears(n, mac[n], t)
<1> DEFINE s == mac[n]
           u == Scheduled(n, Superframe(n, Stop(s, "BEACON_TIMEOUT")))
<1>1. /\ Hub # n /\ n \in mac[Hub].to /\ mac[Hub].frame.type = "BEACON" /\ Hub \in Node
      /\ s \in NodeState /\ s.to = {} /\ ~s.disabled /\ Buffers(s)
  <2>1. Arrives(Hub, n, "BEACON") /\ Hub \in Node
    BY DEF ReceiveBeacon, Setting
  <2>2. NodeOK(n, s)
    BY DEF NodesOK
  <2> QED
    BY <2>1, <2>2, ArrivesOK DEF Arrives, Transmitting, NodeOK, Carries, Buffers
<1>2. PICK b \in Backoff, d \in Exchange :
        Takes(Hub, n, Set(attemptTransmission(n, receiveBeacon_node(n, u, b, d), b, d),
                          "FRAME_START", Interval - 1))
  BY DEF ReceiveBeacon
<1>3. Begins(n, s, u)
  <2> HIDE DEF s
  <2> QED
    BY <1>1, BeginsMoves
<1> DEFINE v == receiveBeacon_node(n, u, b, d)
           w == attemptTransmission(n, v, b, d)
           t == Set(w, "FRAME_START", Interval - 1)
<1> HIDE DEF u, s
<1>4. /\ u \in NodeState /\ u.macState = "CAP" /\ u.currentPacket = s.currentPacket
      /\ u.TXBuffer = s.TXBuffer /\ Buffers(u) /\ u.associated = s.associated
      /\ u.assignedGTS = s.assignedGTS /\ u.frame = s.frame /\ u.to = s.to
      /\ u.timers["ACK_TIMEOUT"] = s.timers["ACK_TIMEOUT"]
  BY <1>1, <1>3 DEF Begins, SamePackets, Buffers, Transmissions
<1>5. /\ v \in NodeState /\ SameOwn(u, v) /\ Holds(u, v) /\ v.TXBuffer = u.TXBuffer
      /\ IF u.associated THEN v = u ELSE v.currentPacket = Join
  <2>1. CASE u.associated
    BY <1>4, <2>1, HoldsSelf DEF receiveBeacon_node, SameOwn
  <2>2. CASE ~u.associated
    <3>1. v = transmitPacket(n, u, Join, b, d)
      BY <2>2 DEF receiveBeacon_node, Join
    <3>2. Join \in AnyFrame /\ Join # NoFrame
      BY DEF Join, AnyFrame, Frame, NoFrame, FrameType, Setting
    <3> HIDE DEF v
    <3>3. Moves(n, u, v) /\ v.currentPacket = Join /\ v.TXBuffer = u.TXBuffer /\ Holds(u, v)
      BY <1>4, <3>1, <3>2, NextMoves
    <3> QED
      BY <2>2, <3>3 DEF Moves
  <2> QED
    BY <2>1, <2>2
<1> HIDE DEF v
<1>6. Buffers(v) /\ v.macState = "CAP"
  BY <1>4, <1>5 DEF Buffers, SameOwn
<1>7. /\ w \in NodeState /\ SameOwn(v, w) /\ Holds(v, w)
      /\ SameQueue(v, w) \/ (v.currentPacket # NoFrame /\ Follows(v, w))
  BY <1>5, <1>6, AgainMoves DEF Moves
<1> HIDE DEF w
<1>8. /\ t \in NodeState /\ SameOwn(w, t) /\ SameRadio(w, t) /\ SamePackets(w, t)
      /\ \A x \in Timer : t.timers[x] = IF x = "FRAME_START" THEN Interval - 1 ELSE w.timers[x]
  <2>1. "FRAME_START" \in Timer /\ Interval - 1 \in Int
    BY DEF Timer, Setting
  <2> QED
    BY <1>7, <2>1, SetOK
<1>9. t = Set(w, "FRAME_START", Interval - 1)
  OBVIOUS
<1> HIDE DEF t
<1>10. t.timers["ACK_TIMEOUT"] = w.timers["ACK_TIMEOUT"]
  BY <1>8 DEF Timer
<1>11. SameOwn(u, t) /\ t.frame = s.frame /\ t.to = s.to
  BY <1>4, <1>5, <1>7, <1>8 DEF SameOwn, Holds, SameRadio
<1>12. SameQueue(w, t)
  BY <1>8 DEF SameQueue, SamePackets
<1>13. t.timers["ACK_TIMEOUT"] \in {Off, s.timers["ACK_TIMEOUT"]}
  BY <1>4, <1>5, <1>7, <1>10 DEF Holds
<1>14. Placed(n, t)
  BY <1>3, <1>11 DEF Begins, Placed, SameOwn
<1>15. SameQueue(v, t) \/ (v.currentPacket # NoFrame /\ Follows(v, t))
  BY <1>7, <1>12 DEF SameQueue, Follows
<1>16. s.associated => SameQueue(s, t) \/ (s.currentPacket # NoFrame /\ Follows(s, t))
  BY <1>4, <1>5, <1>15 DEF SameQueue, Follows, Wanting
<1>17. ~s.associated => t.currentPacket \in {Join, NoFrame} /\ t.TXBuffer = s.TXBuffer
  BY <1>4, <1>5, <1>15 DEF SameQueue, Follows, SameOwn
<1>18. Hears(n, s, t)
  BY <1>1, <1>3, <1>4, <1>8, <1>11, <1>13, <1>14, <1>16, <1>17 DEF Hears, SameOwn, Begins
<1>19. Handover(Hub, n, t)
  BY <1>1, <1>2, <1>9, TakesExchange DEF w, v
<1> QED
  BY <1>1, <1>18, <1>19 DEF s

\* An ACK to m goes out at once.
Answers(m, s, f, t) ==
    /\ t \in NodeState /\ s.to = {} /\ ~s.disabled /\ SameOwn(s, t) /\ SameQueue(s, t)
    /\ f.type = "ACK" /\ f.dst = m /\ t.frame = f /\ t.to = {m}
    /\ t.timers["ATTEMPT_TX"] = 0
    /\ \A x \in Timer \ {"ATTEMPT_TX"} : t.timers[x] = s.timers[x]

\* What Arrives says of the two nodes.
LEMMA ArrivesAt ==
    ASSUME Setting, NodesOK, NEW m \in Node, NEW n \in Node, NEW type, Arrives(m, n, type)
    PROVE  /\ m # n /\ n \in mac[m].to /\ mac[m].frame.type = type /\ mac[m] \in NodeState
           /\ mac[n] \in NodeState /\ mac[n].to = {} /\ ~mac[n].disabled /\ Buffers(mac[n])
BY DEF Arrives, Transmitting, NodesOK, NodeOK, Carries, Buffers

\* Reply is such an answer.
LEMMA AnswersWhat ==
    ASSUME Setting, NEW m \in Node, NEW n \in Node, m # n, NEW s \in NodeState, s.to = {}, ~s.disabled,
           NEW f \in AnyFrame, f.type = "ACK", f.dst = m
    PROVE  Answers(m, s, f, Reply(n, s, f))
<1>1. Targets(n, f) = {m}
  BY DEF Targets, Setting
<1> QED
  BY <1>1, ReplyMoves DEF Answers

\* ReceiveAssociate: the coordinator answers a request to join,
LEMMA AssociateAnswered ==
    ASSUME Setting, NodesOK, NEW m \in Node, ReceiveAssociate(m)
    PROVE  /\ mac[m].frame.type = "ASSOCIATE"
           /\ \E t : Handover(m, Hub, t) /\ Answers(m, mac[Hub], Frame("ACK", m, 0, 0), t)
<1> DEFINE f == Frame("ACK", m, 0, 0)
<1>1. /\ m # Hub /\ Hub \in mac[m].to /\ mac[m].frame.type = "ASSOCIATE" /\ Hub \in Node
      /\ mac[Hub] \in NodeState /\ mac[Hub].to = {} /\ ~mac[Hub].disabled
  BY ArrivesAt DEF ReceiveAssociate, Setting
<1>2. f \in AnyFrame /\ f.type = "ACK" /\ f.dst = m
  BY DEF AnyFrame, Frame, FrameType, Setting
<1>3. Takes(m, Hub, Reply(Hub, mac[Hub], f))
  BY DEF ReceiveAssociate
<1> HIDE DEF f
<1>4. Answers(m, mac[Hub], f, Reply(Hub, mac[Hub], f))
  BY <1>1, <1>2, AnswersWhat
<1>5. Handover(m, Hub, Reply(Hub, mac[Hub], f))
  BY <1>1, <1>3, TakesExchange
<1> QED
  BY <1>1, <1>4, <1>5 DEF f

Granted(m) == IF Listed(m) \/ Accommodates(m) THEN par.requestGTS ELSE 0

\* ReceiveGtsRequest: and one for a slot, with what it grants.
LEMMA GtsRequestAnswered ==
    ASSUME Setting, NodesOK, NEW m \in Node, ReceiveGtsRequest(m)
    PROVE  /\ mac[m].frame.type = "GTS_REQUEST"
           /\ \E t : /\ Handover(m, Hub, t)
                     /\ Answers(m, mac[Hub], Frame("ACK", m, 0, Granted(m)), t)
<1> DEFINE f == Frame("ACK", m, 0, Granted(m))
<1>1. /\ m # Hub /\ Hub \in mac[m].to /\ mac[m].frame.type = "GTS_REQUEST" /\ Hub \in Node
      /\ mac[Hub] \in NodeState /\ mac[Hub].to = {} /\ ~mac[Hub].disabled
  BY ArrivesAt DEF ReceiveGtsRequest, Setting
<1>2. f \in AnyFrame /\ f.type = "ACK" /\ f.dst = m
  BY DEF AnyFrame, Frame, FrameType, Setting, Granted
<1>3. Takes(m, Hub, Reply(Hub, mac[Hub], f))
  BY DEF ReceiveGtsRequest, Granted
<1> HIDE DEF f
<1>4. Answers(m, mac[Hub], f, Reply(Hub, mac[Hub], f))
  BY <1>1, <1>2, AnswersWhat
<1>5. Handover(m, Hub, Reply(Hub, mac[Hub], f))
  BY <1>1, <1>3, TakesExchange
<1> QED
  BY <1>1, <1>4, <1>5 DEF f

\* ReceiveData: a packet for all is not answered, one for n is, with its number.
LEMMA DataAnswered ==
    ASSUME Setting, NodesOK, NEW m \in Node, NEW n \in Node, ReceiveData(m, n)
    PROVE  /\ mac[m].frame.type = "DATA" /\ ~mac[n].disabled
           /\ \/ mac[m].frame.dst = BROADCAST /\ Handover(m, n, mac[n])
              \/ /\ mac[m].frame.dst # BROADCAST
                 /\ \E t : /\ Handover(m, n, t)
                           /\ Answers(m, mac[n], Frame("ACK", m, mac[m].frame.sn - 1, 0), t)
<1> DEFINE k == mac[m].frame.sn - 1
           f == Frame("ACK", m, k, 0)
<1>1. /\ m # n /\ n \in mac[m].to /\ mac[m].frame.type = "DATA"
      /\ mac[n] \in NodeState /\ mac[n].to = {} /\ ~mac[n].disabled
  BY ArrivesAt DEF ReceiveData
<1>2. k \in Nat
  <2>1. Sound(mac[m].frame)
    BY DEF NodesOK, NodeOK, Carries
  <2> QED
    BY <1>1, <2>1 DEF Sound, AnyFrame
<1>3. Takes(m, n, IF mac[m].frame.dst = BROADCAST THEN mac[n] ELSE Reply(n, mac[n], f))
  BY DEF ReceiveData
<1> HIDE DEF k
<1>4. f \in AnyFrame /\ f.type = "ACK" /\ f.dst = m
  BY <1>2 DEF AnyFrame, Frame, FrameType, Setting
<1> HIDE DEF f
<1>5. Answers(m, mac[n], f, Reply(n, mac[n], f))
  BY <1>1, <1>4, AnswersWhat
<1>6. CASE mac[m].frame.dst = BROADCAST
  <2>1. Handover(m, n, mac[n])
    BY <1>1, <1>3, <1>6, TakesExchange
  <2> QED
    BY <1>1, <1>6, <2>1
<1>7. CASE mac[m].frame.dst # BROADCAST
  <2>1. Handover(m, n, Reply(n, mac[n], f))
    BY <1>1, <1>3, <1>7, TakesExchange
  <2> QED
    BY <1>1, <1>5, <1>7, <2>1 DEF f, k
<1> QED
  BY <1>6, <1>7

\* An ACK: what it says is settled, and the node goes on.
Learns(n, s, f, t) ==
    /\ s.to = {} /\ ~s.disabled
    /\ \/ s.currentPacket = NoFrame /\ t = s
       \/ \E x : /\ s.currentPacket # NoFrame /\ Settles(s, x, f) /\ Moves(n, x, t)
                 /\ Follows(x, t) \/ (SameQueue(x, t) /\ s.currentPacket.type \notin
                                                          {"ASSOCIATE", "GTS_REQUEST"})
                 /\ s.currentPacket.type = "ASSOCIATE" \/ x.macState # "GTS" => Holds(x, t)

\* ReceiveAck, as a step of the one who sent the ACK and the node that hears it.
LEMMA AckLearned ==
    ASSUME Setting, NodesOK, NEW m \in Node, NEW n \in Node, ReceiveAck(m, n)
    PROVE  /\ mac[m].frame.type = "ACK"
           /\ \E t : Handover(m, n, t) /\ Learns(n, mac[n], mac[m].frame, t)
<1> DEFINE f == mac[m].frame
           s == mac[n]
<1>1. /\ m # n /\ n \in mac[m].to /\ mac[m].frame.type = "ACK" /\ f \in AnyFrame
      /\ s \in NodeState /\ s.to = {} /\ ~s.disabled /\ Buffers(s)
  BY ArrivesAt DEF ReceiveAck, NodeState
<1>2. CASE s.currentPacket = NoFrame
  <2>1. Takes(m, n, s)
    BY <1>2 DEF ReceiveAck
  <2>2. Learns(n, s, f, s)
    BY <1>1, <1>2 DEF Learns
  <2> QED
    BY <1>1, <2>1, <2>2, TakesExchange
<1>3. CASE s.currentPacket # NoFrame
  <2>1. PICK b \in Backoff, d \in Exchange : Takes(m, n, handleAckPacket(n, s, f, b, d))
    BY <1>3 DEF ReceiveAck
  <2> DEFINE t == handleAckPacket(n, s, f, b, d)
  <2>2. Handover(m, n, t)
    BY <1>1, <2>1, TakesExchange
  <2>3. Learns(n, s, f, t)
    <3> HIDE DEF s, f
    <3>1. \E x : /\ Settles(s, x, f) /\ Moves(n, x, t)
                 /\ Follows(x, t) \/ (SameQueue(x, t) /\ s.currentPacket.type \notin
                                                          {"ASSOCIATE", "GTS_REQUEST"})
                 /\ s.currentPacket.type = "ASSOCIATE" \/ x.macState # "GTS" => Holds(x, t)
      BY <1>1, <1>3, AckMoves
    <3> HIDE DEF t
    <3> QED
      BY <1>1, <1>3, <3>1 DEF Learns
  <2> QED
    BY <1>1, <2>2, <2>3
<1> QED
  BY <1>2, <1>3

\* A new packet is served or waits its turn; what is under way goes on.
Accepts(n, s, p, t) ==
    /\ Moves(n, s, t) /\ ~s.disabled
    /\ \/ /\ s.associated /\ s.currentPacket = NoFrame
          /\ t.currentPacket = p /\ t.TXBuffer = s.TXBuffer
       \/ /\ ~s.associated \/ s.currentPacket # NoFrame
          /\ t.currentPacket = s.currentPacket
          /\ t.TXBuffer \in {s.TXBuffer, Append(s.TXBuffer, p)}
    /\ (Running(s, "ATTEMPT_TX") \/ Running(s, "ACK_TIMEOUT")
          \/ ~s.associated \/ s.currentPacket # NoFrame)
         => SameRadio(s, t) /\ t.timers = s.timers
    /\ s.macState # "GTS" => Holds(s, t)

\* FromNetworkLayer: the packet takes the number after the last.
LEMMA PacketAccepted ==
    ASSUME Setting, NodesOK, sent \in [Node -> Seq(Address)],
           NEW n \in Node, NEW dst \in Address, FromNetworkLayer(n, dst)
    PROVE  \E t : /\ Alone(n, t)
                  /\ Accepts(n, mac[n], Frame("DATA", dst, Len(sent[n]) + 1, 0), t)
<1> DEFINE s == mac[n]
           p == Frame("DATA", dst, Len(sent[n]) + 1, 0)
<1>1. PICK b \in Backoff, d \in Exchange : Becomes(n, acceptNewPacket(n, s, p, b, d))
  BY DEF FromNetworkLayer
<1>2. s \in NodeState /\ ~s.disabled
  BY DEF FromNetworkLayer, NodesOK
<1>3. p \in AnyFrame /\ p # NoFrame
  <2>1. Len(sent[n]) + 1 \in Nat
    OBVIOUS
  <2> QED
    BY <2>1 DEF Frame, AnyFrame, FrameType, NoFrame, Setting
<1> DEFINE t == acceptNewPacket(n, s, p, b, d)
<1>4. Accepts(n, s, p, t)
  <2> HIDE DEF s, p
  <2> QED
    BY <1>2, <1>3, AcceptMoves DEF Accepts
<1>5. Alone(n, t)
  BY <1>1, Became DEF Alone
<1> QED
  BY <1>4, <1>5

\* One receiver less.
Loses(n, s, t) ==
    /\ t \in NodeState /\ n \in s.to /\ SameOwn(s, t) /\ SamePackets(s, t)
    /\ t.timers = s.timers /\ t.to = s.to \ {n}
    /\ t.frame = IF s.to = {n} THEN NoFrame ELSE s.frame

\* So it is when a frame is taken,
LEMMA TakenLoses ==
    ASSUME Setting, NodesOK, NEW m \in Node, NEW n \in Node, n \in mac[m].to
    PROVE  Loses(n, mac[m], Taken(mac[m], n))
<1> DEFINE s == mac[m]
           t == Taken(s, n)
<1>1. NodeOK(m, s) /\ s \in NodeState
  BY DEF NodesOK
<1>2. t \in NodeState /\ SameOwn(s, t) /\ SamePackets(s, t) /\ t.timers = s.timers
  <2> HIDE DEF s
  <2> QED
    BY <1>1, TakenOK DEF NodeOK, s
<1>3. t.to = s.to \ {n} /\ t.frame = IF s.to = {n} THEN NoFrame ELSE s.frame
  <2> DEFINE g == IF s.to = {n} THEN NoFrame ELSE s.frame
             c == s.to \ {n}
  <2>1. t = [s EXCEPT !.to = c, !.frame = g]
    BY DEF Taken
  <2> HIDE DEF s, c, g, t
  <2>2. t.to = c /\ t.frame = g
    BY <1>1, <2>1 DEF NodeState
  <2> QED
    BY <2>2 DEF c, g
<1> QED
  BY <1>2, <1>3 DEF Loses

\* or lost.
LEMMA LoseAlone ==
    ASSUME Setting, NodesOK, NEW m \in Node, NEW n \in Node, Lose(m, n)
    PROVE  \E t : Alone(m, t) /\ Loses(n, mac[m], t)
BY TakenLoses, Became DEF Lose, Alone

\* Death: the timers are gone, the frame on the air is not.
Dies(s, t) ==
    /\ t \in NodeState /\ SamePackets(s, t) /\ SameRadio(s, t) /\ t.disabled
    /\ t.macState = s.macState /\ t.associated = s.associated /\ t.guest = s.guest
    /\ t.carried = s.carried
    /\ t.assignedGTS = s.assignedGTS
    /\ t.capLeft = s.capLeft /\ t.gtsLeft = s.gtsLeft /\ t.adjacent = s.adjacent
    /\ \A x \in Timer : t.timers[x] = Off

\* Disable is the death of n alone.
LEMMA DisableDies ==
    ASSUME Setting, NodesOK, NEW n \in Node, Disable(n)
    PROVE  \E t : Alone(n, t) /\ Dies(mac[n], t)
<1> DEFINE s == mac[n]
           u == [s EXCEPT !.disabled = TRUE]
           off == [x \in Timer |-> Off]
           t == [u EXCEPT !.timers = off]
<1>1. s \in NodeState
  BY DEF NodesOK
<1>2. Becomes(n, t)
  BY <1>1 DEF Disable, NodeState
<1>3. /\ u \in NodeState /\ u.disabled /\ SamePackets(s, u) /\ SameRadio(s, u)
      /\ u.macState = s.macState /\ u.associated = s.associated /\ u.guest = s.guest
      /\ u.carried = s.carried
      /\ u.assignedGTS = s.assignedGTS
      /\ u.capLeft = s.capLeft /\ u.gtsLeft = s.gtsLeft /\ u.adjacent = s.adjacent
  BY <1>1 DEF NodeState, SamePackets, SameRadio
<1> HIDE DEF u
<1>4. off \in [Timer -> Int] /\ \A x \in Timer : off[x] = Off
  BY DEF Off
<1> HIDE DEF off
<1>5. /\ t \in NodeState /\ SamePackets(u, t) /\ SameRadio(u, t) /\ SameOwn(u, t)
      /\ t.timers = off
  BY <1>3, <1>4 DEF NodeState, SamePackets, SameRadio, SameOwn
<1> HIDE DEF t
<1>6. Dies(s, t)
  BY <1>3, <1>4, <1>5 DEF Dies, SamePackets, SameRadio, SameOwn
<1> QED
  BY <1>2, <1>6, Became DEF Alone

\* A tick of the node whose state is s, when nothing is due.
Ticks(s, t) ==
    /\ t \in NodeState /\ SamePackets(s, t) /\ SameRadio(s, t)
    /\ t.macState = s.macState /\ t.associated = s.associated
    /\ t.assignedGTS = s.assignedGTS /\ t.lostBeacons = s.lostBeacons
    /\ t.adjacent = s.adjacent /\ t.disabled = s.disabled /\ t.guest = s.guest
    /\ t.carried = s.carried
    /\ t.capLeft = Less(s.capLeft) /\ t.gtsLeft = Less(s.gtsLeft)
    /\ \A x \in Timer : t.timers[x] = Less(s.timers[x]) /\ s.timers[x] # 0
    /\ s.to # {} => Lasts(s)

\* Tick is a tick of every node.
LEMMA TickTicks ==
    ASSUME NodesOK, Tick, NEW n \in Node
    PROVE  Ticks(mac[n], mac'[n])
<1> DEFINE s == mac[n]
           t == Ticked(s)
<1>1. mac' = [k \in Node |-> Ticked(mac[k])]
  BY DEF Tick, Ticked
<1>2. mac'[n] = t
  BY <1>1
<1>3. s \in NodeState /\ (\A x \in Timer : s.timers[x] # 0) /\ (s.to # {} => Lasts(s))
  BY DEF NodesOK, Tick, Due, Transmitting
<1> HIDE DEF s
<1>4. Ticks(s, t)
  BY <1>3, TickedFields DEF Ticks
<1> QED
  BY <1>2, <1>4 DEF s, t

\* The coordinator sends its beacon to all.
Announces(h, t) ==
    /\ t \in NodeState /\ h.to = {} /\ ~h.disabled /\ ~t.disabled
    /\ h.timers["FRAME_START"] = 0 /\ t.timers["FRAME_START"] = Interval
    /\ SamePackets(h, t) /\ t.macState = "CAP"
    /\ t.frame = Frame("BEACON", BROADCAST, 0, 0) /\ t.to = Node \ {Hub}
    /\ t.associated = h.associated /\ t.assignedGTS = h.assignedGTS
    /\ t.capLeft = CAPend(Len(hub.GTSlist)) /\ t.gtsLeft = h.gtsLeft
    /\ t.timers["ATTEMPT_TX"] = 0
    /\ \A x \in Timer \ {"FRAME_START", "ATTEMPT_TX"} : t.timers[x] = h.timers[x]

\* HubFrameStart: the beacon announces the whole list, which always leaves a CAP.
LEMMA HubBegins ==
    ASSUME Setting, NodesOK, ListOK, HubFrameStart
    PROVE  /\ \E t : Alone(Hub, t) /\ Announces(mac[Hub], t)
           /\ hub'.associatedDevices = hub.associatedDevices /\ hub'.GTSlist = hub.GTSlist
           /\ hub'.announced = Len(hub.GTSlist)
<1> DEFINE s == mac[Hub]
           k == Len(hub.GTSlist)
           c == CAPend(k)
           f == Frame("BEACON", BROADCAST, 0, 0)
           a == [s EXCEPT !.macState = "CAP"]
           e == [a EXCEPT !.capLeft = c]
           v == Reply(Hub, e, f)
           t == Set(v, "FRAME_START", Interval)
<1>1. /\ Hub \in Node /\ s \in NodeState /\ s.to = {} /\ s.timers["FRAME_START"] = 0 /\ ~s.disabled
  BY DueOK DEF HubFrameStart, Fires, Transmitting, NodesOK, Setting, Due, Timer
<1>2. k \in Nat /\ c \in Int /\ c > 0
  <2>1. k \in Nat /\ c >= 2 * minCAPLength
    BY DEF ListOK
  <2> HIDE DEF k
  <2>2. c \in Int
    BY <2>1, SlotsFit
  <2> HIDE DEF c
  <2> QED
    BY <2>1, <2>2 DEF Setting
<1>3. prepareBeacon_hub = k
  BY <1>2 DEF prepareBeacon_hub
<1>4. /\ Becomes(Hub, t)
      /\ hub' = [hub EXCEPT !.announced = k, !.GTSlist = IF k = 0 THEN <<>> ELSE @]
  <2>1. [s EXCEPT !.macState = "CAP", !.capLeft = CAPend(k)] = e
    BY <1>1 DEF NodeState
  <2> HIDE DEF e, k
  <2> QED
    BY <1>3, <2>1 DEF HubFrameStart
<1>5. /\ hub'.associatedDevices = hub.associatedDevices /\ hub'.GTSlist = hub.GTSlist
      /\ hub'.announced = k
  <2>1. k = 0 => hub.GTSlist = <<>>
    BY DEF ListOK
  <2>2. hub' = [hub EXCEPT !.announced = k]
    BY <1>4, <2>1 DEF ListOK
  <2> QED
    BY <1>2, <2>2 DEF ListOK
<1> HIDE DEF c
<1>6. /\ a \in NodeState /\ SamePackets(s, a) /\ a.timers = s.timers /\ a.macState = "CAP"
      /\ a.associated = s.associated /\ a.assignedGTS = s.assignedGTS /\ a.disabled = s.disabled
      /\ a.gtsLeft = s.gtsLeft
  BY <1>1 DEF NodeState, SamePackets, MacState
<1> HIDE DEF a
<1>7. /\ e \in NodeState /\ SamePackets(a, e) /\ e.timers = a.timers /\ e.macState = a.macState
      /\ e.associated = a.associated /\ e.assignedGTS = a.assignedGTS /\ e.disabled = a.disabled
      /\ e.capLeft = c /\ e.gtsLeft = a.gtsLeft
  BY <1>2, <1>6 DEF NodeState, SamePackets
<1> HIDE DEF e
<1>8. f \in AnyFrame /\ f.dst = BROADCAST
  BY DEF Setting, Frame, AnyFrame, FrameType
<1> HIDE DEF f
<1>9. /\ v \in NodeState /\ SameOwn(e, v) /\ SamePackets(e, v)
      /\ v.frame = f /\ v.to = Node \ {Hub}
      /\ v.timers["ATTEMPT_TX"] = 0
      /\ \A x \in Timer \ {"ATTEMPT_TX"} : v.timers[x] = e.timers[x]
  <2> DEFINE u == Send(Hub, e, f)
  <2>1. /\ u \in NodeState /\ SameOwn(e, u) /\ SamePackets(e, u) /\ u.timers = e.timers
        /\ u.frame = f /\ u.to = Node \ {Hub}
    BY <1>1, <1>7, <1>8, SendOK
  <2>2. v = Set(u, "ATTEMPT_TX", 0)
    BY DEF Reply
  <2> HIDE DEF u, v
  <2>3. /\ v \in NodeState /\ SameOwn(u, v) /\ SameRadio(u, v) /\ SamePackets(u, v)
        /\ \A x \in Timer : v.timers[x] = IF x = "ATTEMPT_TX" THEN 0 ELSE u.timers[x]
    BY <2>1, <2>2, SetOK DEF Timer
  <2> QED
    BY <2>1, <2>3 DEF SameOwn, SamePackets, SameRadio, Timer
<1> HIDE DEF v
<1>10. /\ t \in NodeState /\ SameOwn(v, t) /\ SameRadio(v, t) /\ SamePackets(v, t)
       /\ \A x \in Timer : t.timers[x] = IF x = "FRAME_START" THEN Interval ELSE v.timers[x]
  <2>1. "FRAME_START" \in Timer /\ Interval \in Int
    BY DEF Timer, Setting
  <2> QED
    BY <1>9, <2>1, SetOK
<1> HIDE DEF t
<1>11. /\ SamePackets(s, t) /\ t.macState = "CAP" /\ t.frame = f /\ t.to = Node \ {Hub}
       /\ t.associated = s.associated /\ t.assignedGTS = s.assignedGTS
       /\ t.disabled = s.disabled /\ t.capLeft = c /\ t.gtsLeft = s.gtsLeft
  BY <1>6, <1>7, <1>9, <1>10 DEF SamePackets, SameOwn, SameRadio
<1>12. /\ t.timers["FRAME_START"] = Interval /\ t.timers["ATTEMPT_TX"] = 0
       /\ \A x \in Timer \ {"FRAME_START", "ATTEMPT_TX"} : t.timers[x] = s.timers[x]
  BY <1>6, <1>7, <1>9, <1>10 DEF Timer
<1>13. Announces(s, t)
  BY <1>1, <1>10, <1>11, <1>12 DEF Announces, f, c, k
<1> QED
  BY <1>1, <1>4, <1>5, <1>13, Became DEF Alone

-----------------------------------------------------------------------------
(* Who belongs to the PAN and who owns a slot: a device believes only what the *)
(* coordinator, or an ACK on its way from it, has granted.                     *)

Members == hub.associatedDevices \cup {Hub}
Owners == {n \in Node : Listed(n)} \cup {Hub}

Owed(n, s, A, L) ==
    /\ s.associated => n \in A
    /\ s.currentPacket.type \in {"DATA", "GTS_REQUEST"} => s.associated
    /\ s.frame.type \in {"DATA", "GTS_REQUEST"} => n \in A
    /\ s.assignedGTS # 0 => n \in L
    /\ s.frame.type = "ACK" => \A k \in s.to : k \in A /\ (s.frame.slots # 0 => k \in L)

AllOwed == \A n \in Node : Owed(n, mac[n], Members, Owners)

\* Grants are never taken back.
LEMMA OwedGrows ==
    ASSUME NEW n, NEW s, NEW A, NEW L, NEW B, NEW M, Owed(n, s, A, L), A \subseteq B, L \subseteq M
    PROVE  Owed(n, s, B, M)
BY DEF Owed

\* The packet that follows is one that a member of the PAN sends.
LEMMA FollowsWhat ==
    ASSUME NEW s \in NodeState, Buffers(s), NEW t, Follows(s, t)
    PROVE  /\ t.currentPacket.type \in {"none", "GTS_REQUEST", "DATA"}
           /\ t.currentPacket.type # "none" => s.associated
           /\ t.currentPacket.type = "none" => t.currentPacket = NoFrame
           /\ t.currentPacket.type = "GTS_REQUEST" => s.associated /\ Wanting(s)
<1>1. s.TXBuffer # <<>> => 1 \in DOMAIN s.TXBuffer /\ Head(s.TXBuffer) = s.TXBuffer[1]
  BY DEF NodeState
<1> QED
  BY <1>1 DEF Follows, Buffers, NoFrame, Request, Frame

\* The helpers send nothing that is not due to the node.
LEMMA OwedMoves ==
    ASSUME NEW n \in Node, NEW s \in NodeState, Buffers(s), NEW A, NEW L, Owed(n, s, A, L), NEW t,
           Moves(n, s, t), SameQueue(s, t) \/ Follows(s, t), s.currentPacket.type # "ACK"
    PROVE  Owed(n, t, A, L)
<1>1. /\ t.currentPacket.type # "ACK"
      /\ t.currentPacket.type \in {"DATA", "GTS_REQUEST"} => s.associated
  BY FollowsWhat DEF SameQueue, Owed
<1>2. t.associated = s.associated /\ t.assignedGTS = s.assignedGTS
  BY DEF Moves, SameOwn
<1>3. (t.frame = s.frame /\ t.to = s.to) \/ t.frame = t.currentPacket
  BY DEF Moves, Holds, Sends
<1> QED
  BY <1>1, <1>2, <1>3 DEF Owed

\* A step of one node.
LEMMA OwedAlone ==
    ASSUME AllOwed, hub' = hub, NEW n \in Node, NEW t, Alone(n, t), Owed(n, t, Members, Owners)
    PROVE  AllOwed'
<1>1. Members' = Members /\ Owners' = Owners
  BY DEF Members, Owners, Listed
<1>2. \A k \in Node : Owed(k, mac'[k], Members, Owners)
  BY DEF Alone, AllOwed
<1> QED
  BY <1>1, <1>2 DEF AllOwed, Owed

\* A frame of m that n takes.
LEMMA OwedExchange ==
    ASSUME Setting, NodesOK, AllOwed, Members \subseteq Members', Owners \subseteq Owners',
           NEW m \in Node, NEW n \in Node, NEW t, Handover(m, n, t), Owed(n, t, Members', Owners')
    PROVE  AllOwed'
<1> DEFINE u == Taken(mac[m], n)
<1>1. Owed(m, u, Members, Owners)
  <2>1. Loses(n, mac[m], u)
    BY TakenLoses DEF Handover
  <2>2. Owed(m, mac[m], Members, Owners)
    BY DEF AllOwed
  <2> HIDE DEF u
  <2> QED
    BY <2>1, <2>2 DEF Owed, Loses, SameOwn, SamePackets, NoFrame
<1>2. Owed(m, u, Members', Owners')
  BY <1>1, OwedGrows
<1> HIDE DEF u
<1>3. \A k \in Node : Owed(k, mac[k], Members', Owners')
  BY OwedGrows DEF AllOwed
<1>4. \A k \in Node : Owed(k, mac'[k], Members', Owners')
  BY <1>2, <1>3 DEF Handover, u
<1> QED
  BY <1>4 DEF AllOwed, Owed

\* What the timers of a node come to.
LEMMA TimersKinds ==
    ASSUME Setting, NodesOK, NEW n \in Node, Timers(n)
    PROVE  Keeps(n) \/ Attempting(n) \/ Quits(n)
<1>1. CASE FrameStart(n) \/ GtsStart(n) \/ SleepStart(n) \/ BackToSetup(n)
  BY <1>1, FrameStartKeeps, GtsStartKeeps, SleepStartKeeps, BackToSetupKeeps
<1>2. CASE CcaInVain(n) \/ CcaNotValid(n)
  BY <1>2, NoCcaKeeps
<1>3. CASE BeaconTimeout(n)
  BY <1>3, BeaconTimeoutQuits
<1>4. CASE AckTimeout(n) \/ AttemptTx(n) \/ CcaClear(n) \/ CcaBusy(n)
  BY <1>4, AckTimeoutAttempts, AttemptTxAttempts, CcaClearAttempts, CcaBusyAttempts
<1> QED
  BY <1>1, <1>2, <1>3, <1>4 DEF Timers

\* What the invariant says of a node at work.
LEMMA NodeFacts ==
    ASSUME NodesOK, NEW n \in Node
    PROVE  /\ mac[n] \in NodeState /\ Buffers(mac[n])
           /\ mac[n].currentPacket.type \in {"none", "ASSOCIATE", "GTS_REQUEST", "DATA"}
           /\ mac[n].currentPacket.type = "none" => mac[n].currentPacket = NoFrame
BY DEF NodesOK, NodeOK, Carries, Buffers

\* A node owes its place to the coordinator whatever its timers do,
LEMMA OwedTimers ==
    ASSUME Setting, NodesOK, AllOwed, NEW n \in Node, Timers(n), hub' = hub
    PROVE  AllOwed'
<1> DEFINE s == mac[n]
<1>1. /\ Owed(n, s, Members, Owners) /\ s \in NodeState /\ Buffers(s)
      /\ s.currentPacket.type # "ACK"
  BY NodeFacts DEF AllOwed
<1>2. CASE Keeps(n)
  <2>1. PICK t : Alone(n, t) /\ Still(n, s, t)
    BY <1>2 DEF Keeps
  <2>2. Owed(n, t, Members, Owners)
    BY <1>1, <2>1 DEF Owed, Still, SameQueue
  <2> QED
    BY <2>1, <2>2, OwedAlone
<1>3. CASE Attempting(n)
  <2>1. PICK t : Alone(n, t) /\ Tries(n, s, t)
    BY <1>3 DEF Attempting
  <2>2. Owed(n, t, Members, Owners)
    BY <1>1, <2>1, OwedMoves DEF Tries
  <2> QED
    BY <2>1, <2>2, OwedAlone
<1>4. CASE Quits(n)
  <2>1. PICK t : Alone(n, t) /\ Leaves(n, s, t)
    BY <1>4 DEF Quits
  <2>2. Owed(n, t, Members, Owners)
    BY <1>1, <2>1 DEF Owed, Leaves, NoFrame
  <2> QED
    BY <2>1, <2>2, OwedAlone
<1> QED
  BY <1>2, <1>3, <1>4, TimersKinds

\* with a beacon,
LEMMA OwedBeacon ==
    ASSUME Setting, NodesOK, ListOK, AllOwed, NEW n \in Node, ReceiveBeacon(n)
    PROVE  AllOwed'
<1> DEFINE s == mac[n]
<1>1. hub' = hub /\ Hub \in Node
  BY DEF ReceiveBeacon, Setting
<1>2. Owed(n, s, Members, Owners) /\ s \in NodeState /\ Buffers(s)
  BY NodeFacts DEF AllOwed
<1>3. PICK t : Handover(Hub, n, t) /\ Hears(n, s, t)
  BY BeaconHeard
<1> HIDE DEF s
<1>4. t.currentPacket.type \in {"DATA", "GTS_REQUEST"} => s.associated
  BY <1>2, <1>3, FollowsWhat DEF Hears, SameQueue, Join, Frame, NoFrame, Owed
<1>5. Owed(n, t, Members, Owners)
  BY <1>2, <1>3, <1>4 DEF Owed, Hears
<1>6. Members' = Members /\ Owners' = Owners
  BY <1>1 DEF Members, Owners, Listed
<1> QED
  BY <1>1, <1>3, <1>5, <1>6, OwedExchange

\* Who answers owes nothing new himself, if the addressee may have the answer.
LEMMA OwedAnswer ==
    ASSUME NEW n \in Node, NEW s, NEW A, NEW L, Owed(n, s, A, L),
           NEW m, NEW sn, NEW k, NEW t, Answers(m, s, Frame("ACK", m, sn, k), t),
           m \in A, k # 0 => m \in L
    PROVE  Owed(n, t, A, L)
BY DEF Owed, Answers, SameOwn, SameQueue, Frame

\* with a request to join,
LEMMA OwedAssociate ==
    ASSUME Setting, NodesOK, AllOwed, NEW m \in Node, ReceiveAssociate(m), ListOK
    PROVE  AllOwed'
<1>1. PICK t : Handover(m, Hub, t) /\ Answers(m, mac[Hub], Frame("ACK", m, 0, 0), t)
  BY AssociateAnswered
<1>2. /\ hub'.associatedDevices = hub.associatedDevices \cup {m}
      /\ hub'.GTSlist = hub.GTSlist /\ Hub \in Node
  BY DEF ReceiveAssociate, ListOK, Setting
<1>3. Members \subseteq Members' /\ Owners' = Owners /\ m \in Members'
  BY <1>2 DEF Members, Owners, Listed
<1>4. Owed(Hub, mac[Hub], Members', Owners')
  BY <1>2, <1>3, OwedGrows DEF AllOwed
<1>5. Owed(Hub, t, Members', Owners')
  BY <1>1, <1>2, <1>3, <1>4, OwedAnswer
<1> QED
  BY <1>1, <1>2, <1>3, <1>5, OwedExchange

\* with a request for a slot,
LEMMA OwedGtsRequest ==
    ASSUME Setting, NodesOK, AllOwed, NEW m \in Node, ReceiveGtsRequest(m), ListOK
    PROVE  AllOwed'
<1>1. /\ mac[m].frame.type = "GTS_REQUEST" /\ Hub \in Node
      /\ \E t : Handover(m, Hub, t) /\ Answers(m, mac[Hub], Frame("ACK", m, 0, Granted(m)), t)
  BY GtsRequestAnswered DEF Setting
<1>2. PICK t : Handover(m, Hub, t) /\ Answers(m, mac[Hub], Frame("ACK", m, 0, Granted(m)), t)
  BY <1>1
<1>3. hub' = IF ~Listed(m) /\ Accommodates(m)
             THEN [hub EXCEPT !.GTSlist = Append(@, m)] ELSE hub
  BY DEF ReceiveGtsRequest
<1>4. m \in Members /\ Members' = Members
  <2>1. m \in Members
    BY <1>1 DEF AllOwed, Owed
  <2> QED
    BY <1>3, <2>1 DEF Members, ListOK
<1>5. Owners \subseteq Owners' /\ (Granted(m) # 0 => m \in Owners')
  <2>1. CASE ~Listed(m) /\ Accommodates(m)
    <3>1. /\ hub'.GTSlist = Append(hub.GTSlist, m) /\ hub.GTSlist \in Seq(Device)
      BY <1>3, <2>1 DEF ListOK
    <3>2. /\ DOMAIN hub.GTSlist \subseteq DOMAIN hub'.GTSlist
          /\ \A i \in DOMAIN hub.GTSlist : hub'.GTSlist[i] = hub.GTSlist[i]
          /\ \E i \in DOMAIN hub'.GTSlist : hub'.GTSlist[i] = m
      BY <3>1
    <3> QED
      BY <3>2 DEF Owners, Listed
  <2>2. CASE ~(~Listed(m) /\ Accommodates(m))
    BY <1>3, <2>2 DEF Owners, Listed, Granted
  <2> QED
    BY <2>1, <2>2
<1>6. Owed(Hub, mac[Hub], Members', Owners')
  BY <1>1, <1>4, <1>5, OwedGrows DEF AllOwed
<1>7. Owed(Hub, t, Members', Owners')
  BY <1>1, <1>2, <1>4, <1>5, <1>6, OwedAnswer
<1> QED
  BY <1>1, <1>2, <1>4, <1>5, <1>7, OwedExchange

\* with a packet or an ACK that arrives,
LEMMA OwedReceive ==
    ASSUME Setting, NodesOK, AllOwed, NEW m \in Node, NEW n \in Node, Receive(m, n)
    PROVE  AllOwed'
<1> DEFINE s == mac[n]
           f == mac[m].frame
<1>1. /\ Owed(n, s, Members, Owners) /\ s \in NodeState /\ Buffers(s)
      /\ s.currentPacket.type # "ACK" /\ Owed(m, mac[m], Members, Owners)
  BY NodeFacts DEF AllOwed
<1>2. Members' = Members /\ Owners' = Owners
  BY DEF Receive, ReceiveData, ReceiveAck, Members, Owners, Listed
<1>3. CASE ReceiveData(m, n)
  <2>1. f.type = "DATA" /\ m \in Members
    BY <1>1, <1>3, DataAnswered DEF Owed
  <2>2. CASE Handover(m, n, s)
    BY <1>1, <1>2, <2>2, OwedExchange
  <2>3. ASSUME NEW t, Handover(m, n, t), Answers(m, s, Frame("ACK", m, f.sn - 1, 0), t)
        PROVE  AllOwed'
    <3>1. Owed(n, t, Members, Owners)
      BY <1>1, <2>1, <2>3, OwedAnswer
    <3> QED
      BY <1>2, <2>3, <3>1, OwedExchange
  <2> QED
    BY <1>3, <2>2, <2>3, DataAnswered
<1>4. CASE ReceiveAck(m, n)
  <2>1. PICK t : Handover(m, n, t) /\ Learns(n, s, f, t)
    BY <1>4, AckLearned
  <2>2. n \in Members /\ (f.slots # 0 => n \in Owners)
    BY <1>1, <1>4, <2>1, AckLearned DEF Owed, Handover
  <2> HIDE DEF s, f
  <2>3. CASE s.currentPacket = NoFrame /\ t = s
    BY <1>1, <1>2, <2>1, <2>3, OwedExchange DEF s
  <2>4. ASSUME NEW x, Settles(s, x, f), Moves(n, x, t), Follows(x, t) \/ SameQueue(x, t),
               s.currentPacket # NoFrame
        PROVE  AllOwed'
    <3>1. x \in NodeState /\ Buffers(x) /\ x.currentPacket.type # "ACK"
      BY <1>1, <2>4 DEF Settles, SameQueue, Buffers
    <3>2. Owed(n, x, Members, Owners)
      BY <1>1, <2>2, <2>4 DEF Owed, Settles, SameQueue, SameRadio
    <3>3. Owed(n, t, Members, Owners)
      BY <2>4, <3>1, <3>2, OwedMoves
    <3> QED
      BY <1>2, <2>1, <3>3, OwedExchange
  <2> QED
    BY <2>1, <2>3, <2>4 DEF Learns
<1> QED
  BY <1>3, <1>4 DEF Receive

\* and with everything else.
LEMMA OwedStep ==
    ASSUME IInv, AllOwed, Next
    PROVE  AllOwed'
<1>1. Setting /\ NodesOK /\ ListOK /\ sent \in [Node -> Seq(Address)]
  BY SettingOK DEF IInv
<1>2. CASE Tick
  <2>1. Members' = Members /\ Owners' = Owners
    BY <1>2 DEF Tick, Members, Owners, Listed
  <2>2. ASSUME NEW n \in Node PROVE Owed(n, mac'[n], Members, Owners)
    <3>1. Ticks(mac[n], mac'[n]) /\ Owed(n, mac[n], Members, Owners)
      BY <1>1, <1>2, TickTicks DEF AllOwed
    <3> QED
      BY <3>1 DEF Owed, Ticks, SamePackets, SameRadio
  <2> QED
    BY <2>1, <2>2 DEF AllOwed, Owed
<1>3. CASE HubFrameStart
  <2>1. PICK t : Alone(Hub, t) /\ Announces(mac[Hub], t)
    BY <1>1, <1>3, HubBegins
  <2>2. Members' = Members /\ Owners' = Owners /\ Hub \in Node
    BY <1>1, <1>3, HubBegins DEF Members, Owners, Listed, Setting
  <2>3. Owed(Hub, mac[Hub], Members, Owners)
    BY <2>2 DEF AllOwed
  <2>4. Owed(Hub, t, Members, Owners)
    BY <2>1, <2>3 DEF Owed, Announces, SamePackets, Frame
  <2>5. \A k \in Node : Owed(k, mac'[k], Members, Owners)
    BY <2>1, <2>4 DEF AllOwed, Alone
  <2> QED
    BY <2>2, <2>5 DEF AllOwed, Owed
<1>4. ASSUME NEW n \in Node, Timers(n) PROVE AllOwed'
  <2>1. hub' = hub
    BY <1>4 DEF Timers, FrameStart, GtsStart, BeaconTimeout, AckTimeout, AttemptTx, SleepStart,
                BackToSetup, CcaInVain, CcaNotValid, CcaClear, CcaBusy
  <2> QED
    BY <1>1, <1>4, <2>1, OwedTimers
<1>5. ASSUME NEW n \in Node, Disable(n) PROVE AllOwed'
  <2>1. PICK t : Alone(n, t) /\ Dies(mac[n], t)
    BY <1>1, <1>5, DisableDies
  <2>2. Owed(n, mac[n], Members, Owners)
    BY DEF AllOwed
  <2>3. Owed(n, t, Members, Owners)
    BY <2>1, <2>2 DEF Owed, Dies, SamePackets, SameRadio
  <2> QED
    BY <1>5, <2>1, <2>3, OwedAlone DEF Disable
<1>6. ASSUME NEW n \in Node, ReceiveBeacon(n) PROVE AllOwed'
  BY <1>1, <1>6, OwedBeacon
<1>7. ASSUME NEW m \in Node, ReceiveAssociate(m) PROVE AllOwed'
  BY <1>1, <1>7, OwedAssociate
<1>8. ASSUME NEW m \in Node, ReceiveGtsRequest(m) PROVE AllOwed'
  BY <1>1, <1>8, OwedGtsRequest
<1>9. ASSUME NEW n \in Node, NEW m \in Node, Receive(m, n) PROVE AllOwed'
  BY <1>1, <1>9, OwedReceive
<1>10. ASSUME NEW n \in Node, NEW m \in Node, Lose(m, n) PROVE AllOwed'
  <2>1. PICK t : Alone(m, t) /\ Loses(n, mac[m], t)
    BY <1>1, <1>10, LoseAlone
  <2>2. Owed(m, mac[m], Members, Owners)
    BY DEF AllOwed
  <2>3. Owed(m, t, Members, Owners)
    BY <2>1, <2>2 DEF Owed, Loses, SameOwn, SamePackets, NoFrame
  <2> QED
    BY <1>10, <2>1, <2>3, OwedAlone DEF Lose
<1>11. ASSUME NEW n \in Node, NEW x \in par.traffic, FromNetworkLayer(n, x[2]) PROVE AllOwed'
  <2>1. x[2] \in Address /\ hub' = hub
    BY <1>1, <1>11 DEF Setting, FromNetworkLayer
  <2>2. PICK dst \in Address : dst = x[2]
    BY <2>1
  <2> DEFINE p == Frame("DATA", dst, Len(sent[n]) + 1, 0)
  <2>3. PICK t : Alone(n, t) /\ Accepts(n, mac[n], p, t)
    BY <1>1, <1>11, <2>2, PacketAccepted
  <2>4. /\ Owed(n, mac[n], Members, Owners) /\ mac[n].currentPacket.type # "ACK"
        /\ p.type = "DATA"
    BY <1>1, NodeFacts DEF AllOwed, Frame
  <2> HIDE DEF p
  <2>5. Owed(n, t, Members, Owners)
    BY <2>3, <2>4 DEF Owed, Accepts, Moves, Holds, Sends, SameOwn
  <2> QED
    BY <2>1, <2>3, <2>5, OwedAlone
<1> QED
  BY <1>2, <1>3, <1>4, <1>5, <1>6, <1>7, <1>8, <1>9, <1>10, <1>11 DEF Next

\* It is so in all behaviours.
THEOREM OwedInductive == Spec => []AllOwed
<1>1. Init => AllOwed
  <2> SUFFICES ASSUME Init, NEW n \in Node PROVE Owed(n, mac[n], Members, Owners)
    BY DEF AllOwed
  <2>1. mac[n] = Startup(n)
    BY DEF Init
  <2>2. /\ mac[n].associated = (n = Hub) /\ mac[n].currentPacket.type = "none"
        /\ mac[n].frame.type = "none" /\ mac[n].assignedGTS = 0
    BY <2>1 DEF Startup, NoFrame
  <2> QED
    BY <2>2 DEF Owed, Members
<1>2. IInv /\ AllOwed /\ [Next]_vars => AllOwed'
  <2>1. ASSUME AllOwed, UNCHANGED vars PROVE AllOwed'
    BY <2>1 DEF vars, AllOwed, Owed, Members, Owners, Listed
  <2> QED
    BY <2>1, OwedStep
<1> QED
  BY <1>1, <1>2, Inductive, PTL DEF Spec

\* The coordinator keeps what it has granted: every device in the PAN is on its
\* list of devices and every slot a device believes to own on its list of slots,
\* whatever requests and ACKs are lost, repeated or late.
THEOREM GrantsKeptAlways == Spec => []GrantsKept
<1>1. IInv /\ AllOwed => GrantsKept
  <2> SUFFICES ASSUME IInv, AllOwed PROVE GrantsKept
    OBVIOUS
  <2>1. /\ Len(hub.GTSlist) <= MaxGTS /\ CAPend(Len(hub.GTSlist)) >= 2 * minCAPLength
        /\ \A i, j \in DOMAIN hub.GTSlist : hub.GTSlist[i] = hub.GTSlist[j] => i = j
    BY DEF IInv, ListOK
  <2>2. ASSUME NEW n \in Device
        PROVE  /\ mac[n].associated => n \in hub.associatedDevices
               /\ mac[n].assignedGTS # 0 => Listed(n)
    <3>1. n \in Node /\ n # Hub
      BY SettingOK DEF IInv, Setting
    <3>2. Owed(n, mac[n], Members, Owners)
      BY <3>1 DEF AllOwed
    <3> QED
      BY <3>1, <3>2 DEF Owed, Members, Owners
  <2> QED
    BY <2>1, <2>2 DEF GrantsKept
<1> QED
  BY <1>1, OwedInductive, Inductive, PTL

-----------------------------------------------------------------------------
(* What is on the air, and the slot a device asks for and has. *)

\* A frame for one address is for that address only, what a device asks for it
\* asks the coordinator, and a timer runs while anything is on the air.
Asked(f) == f.type \in {"ASSOCIATE", "GTS_REQUEST"} => f.dst = Hub

OnAir(s) ==
    /\ s.to # {} /\ s.frame.dst # BROADCAST => s.to = {s.frame.dst}
    /\ Asked(s.frame) /\ Asked(s.currentPacket)
    /\ ~s.disabled /\ s.to # {} =>
         /\ s.frame.type \in Own /\ s.frame.dst # BROADCAST => Running(s, "ACK_TIMEOUT")
         /\ ~(s.frame.type \in Own /\ s.frame.dst # BROADCAST) => Running(s, "ATTEMPT_TX")

\* A member that wants a slot and has none asks for it before all else,
Asks(n, s) ==
    n # Hub /\ s.associated /\ Wanting(s) => s.currentPacket.type = "GTS_REQUEST"

\* and a device that waits for its first beacon is no member.
Seated(n, s) == n # Hub /\ s.macState = "SETUP" => ~s.associated

Local(n, s) == OnAir(s) /\ Asks(n, s) /\ Seated(n, s)
AllLocal == \A n \in Node : Local(n, mac[n])

\* The packets that may be in service.
Serves(s) == s.currentPacket.type \in Own \/ s.currentPacket = NoFrame

\* A packet of the node's own goes out.
LEMMA LocalSends ==
    ASSUME NEW n \in Node, NEW s, NEW t \in NodeState, Sends(n, s, t), SameOwn(s, t),
           Asked(t.currentPacket), Serves(t), Seated(n, s)
    PROVE  OnAir(t) /\ Seated(n, t)
<1>1. t.frame.type \in Own /\ t.frame = t.currentPacket /\ t.to = Targets(n, t.frame)
  BY DEF Sends, Serves
<1>2. t.to # {} /\ t.frame.dst # BROADCAST => t.to = {t.frame.dst}
  BY <1>1 DEF Targets
<1>3. /\ t.frame.dst # BROADCAST => Running(t, "ACK_TIMEOUT")
      /\ t.frame.dst = BROADCAST => Running(t, "ATTEMPT_TX")
  BY DEF Sends, Exchange, Running, Off
<1>4. OnAir(t)
  BY <1>1, <1>2, <1>3 DEF OnAir, Own
<1>5. Seated(n, t)
  BY DEF Seated, SameOwn
<1> QED
  BY <1>4, <1>5

\* A stretch of helpers, with nothing on the air before.
LEMMA LocalMoves ==
    ASSUME Setting, NEW n \in Node, NEW s \in NodeState, Buffers(s), s.to = {}, NEW t,
           Moves(n, s, t), (SameQueue(s, t) /\ Asks(n, s)) \/ Follows(s, t),
           Asked(s.frame), Asked(s.currentPacket), Serves(s), Seated(n, s)
    PROVE  Local(n, t)
<1>1. /\ t \in NodeState /\ SameOwn(s, t) /\ (Holds(s, t) \/ Sends(n, s, t))
  BY DEF Moves
<1>2. Asked(t.currentPacket) /\ Serves(t)
  <2>1. CASE SameQueue(s, t)
    BY <2>1 DEF SameQueue, Serves
  <2>2. CASE Follows(s, t)
    <3>1. s.TXBuffer # <<>> => 1 \in DOMAIN s.TXBuffer /\ Head(s.TXBuffer) = s.TXBuffer[1]
      BY DEF NodeState
    <3> QED
      BY <2>2, <3>1 DEF Follows, Asked, Serves, Request, Frame, NoFrame, Buffers, Own
  <2> QED
    BY <2>1, <2>2
<1>3. Asks(n, t)
  <2>1. t.associated = s.associated /\ (Wanting(t) <=> Wanting(s))
    BY <1>1 DEF SameOwn, Wanting
  <2>2. CASE SameQueue(s, t) /\ Asks(n, s)
    BY <2>1, <2>2 DEF Asks, SameQueue
  <2>3. CASE Follows(s, t)
    BY <2>1, <2>3 DEF Asks, Follows, Request, Frame
  <2> QED
    BY <2>2, <2>3
<1>4. CASE Holds(s, t)
  <2>1. OnAir(t)
    BY <1>2, <1>4 DEF OnAir, Holds
  <2>2. Seated(n, t)
    BY <1>1 DEF Seated, SameOwn
  <2> QED
    BY <1>3, <2>1, <2>2 DEF Local
<1>5. CASE Sends(n, s, t)
  BY <1>1, <1>2, <1>3, <1>5, LocalSends DEF Local
<1> QED
  BY <1>1, <1>4, <1>5

\* All nodes, in the next state.
LEMMA LocalNext ==
    ASSUME par' = par, \A k \in Node : Local(k, mac'[k])
    PROVE  AllLocal'
BY DEF AllLocal, Local, OnAir, Asked, Asks, Wanting, Seated, Running

\* A step of one node.
LEMMA LocalAlone ==
    ASSUME par' = par, AllLocal, NEW n \in Node, NEW t, Alone(n, t), Local(n, t)
    PROVE  AllLocal'
BY LocalNext DEF Alone, AllLocal

\* A frame of m that n takes.
LEMMA LocalLoses ==
    ASSUME NEW m \in Node, NEW n \in Node, NEW s, NEW t, Local(m, s), Loses(n, s, t)
    PROVE  Local(m, t)
<1>1. SameOwn(s, t) /\ SamePackets(s, t) /\ t.timers = s.timers /\ t.to = s.to \ {n}
      /\ n \in s.to /\ t.frame = IF s.to = {n} THEN NoFrame ELSE s.frame
  BY DEF Loses
<1>2. t.to # {} => t.frame = s.frame /\ s.to # {}
  BY <1>1
<1>3. t.to # {} /\ t.frame.dst # BROADCAST => t.to = {t.frame.dst}
  BY <1>1, <1>2 DEF Local, OnAir
<1>4. Asked(t.frame) /\ Asked(t.currentPacket)
  BY <1>1 DEF Local, OnAir, Asked, NoFrame, SamePackets
<1>5. OnAir(t)
  BY <1>1, <1>2, <1>3, <1>4 DEF Local, OnAir, SameOwn, Running
<1>6. Asks(m, t) /\ Seated(m, t)
  BY <1>1 DEF Local, Asks, Seated, SameOwn, SamePackets, Wanting
<1> QED
  BY <1>5, <1>6 DEF Local

\* All others keep what is theirs.
LEMMA LocalExchange ==
    ASSUME Setting, NodesOK, par' = par, AllLocal, NEW m \in Node, NEW n \in Node, NEW t,
           Handover(m, n, t), Local(n, t)
    PROVE  AllLocal'
<1> DEFINE u == Taken(mac[m], n)
<1>1. Loses(n, mac[m], u)
  BY TakenLoses DEF Handover
<1> HIDE DEF u
<1>2. Local(m, u)
  BY <1>1, LocalLoses DEF AllLocal
<1>3. \A k \in Node : Local(k, mac'[k])
  BY <1>2 DEF Handover, AllLocal, u
<1> QED
  BY <1>3, LocalNext

\* The timers of a node,
LEMMA LocalTimers ==
    ASSUME Setting, NodesOK, AllLocal, NEW n \in Node, Timers(n), par' = par
    PROVE  AllLocal'
<1> DEFINE s == mac[n]
<1>1. /\ Local(n, s) /\ s \in NodeState /\ Buffers(s) /\ Serves(s)
  BY NodeFacts DEF AllLocal, Serves, Own
<1>2. CASE Keeps(n)
  <2>1. PICK t : Alone(n, t) /\ Still(n, s, t)
    BY <1>2 DEF Keeps
  <2> HIDE DEF s
  <2>2. OnAir(t)
    <3>1. /\ t.frame = s.frame /\ t.to = s.to /\ t.currentPacket = s.currentPacket
          /\ t.disabled = s.disabled
          /\ t.timers["ACK_TIMEOUT"] = s.timers["ACK_TIMEOUT"]
      BY <2>1 DEF Still, SameQueue
    <3>2. \/ t.timers["ATTEMPT_TX"] = s.timers["ATTEMPT_TX"] \/ s.to = {}
          \/ t.timers["ATTEMPT_TX"] = 1
      BY <2>1 DEF Still
    <3> QED
      BY <1>1, <3>1, <3>2 DEF Local, OnAir, Running, Off
  <2>3. Asks(n, t)
    BY <1>1, <2>1 DEF Local, Asks, Still, SameQueue, Wanting
  <2>4. Seated(n, t)
    BY <1>1, <2>1 DEF Local, Seated, Still
  <2> QED
    BY <2>1, <2>2, <2>3, <2>4, LocalAlone DEF Local
<1>3. CASE Attempting(n)
  <2>1. PICK t : Alone(n, t) /\ Tries(n, s, t)
    BY <1>3 DEF Attempting
  <2> HIDE DEF s
  <2>2. /\ s.to = {} /\ Moves(n, s, t) /\ (SameQueue(s, t) \/ Follows(s, t))
    BY <2>1 DEF Tries
  <2>3. Local(n, t)
    BY <1>1, <2>2, LocalMoves DEF Local, OnAir
  <2> QED
    BY <2>1, <2>3, LocalAlone
<1>4. CASE Quits(n)
  <2>1. PICK t : Alone(n, t) /\ Leaves(n, s, t)
    BY <1>4 DEF Quits
  <2> HIDE DEF s
  <2>2. /\ t.timers["ACK_TIMEOUT"] = s.timers["ACK_TIMEOUT"]
        /\ t.timers["ATTEMPT_TX"] = s.timers["ATTEMPT_TX"]
    BY <2>1 DEF Leaves, Transmissions
  <2>3. OnAir(t)
    BY <1>1, <2>1, <2>2 DEF Local, OnAir, Leaves, Running, Asked, NoFrame
  <2>4. Asks(n, t) /\ Seated(n, t)
    BY <1>1, <2>1 DEF Local, Asks, Seated, Leaves
  <2> QED
    BY <2>1, <2>3, <2>4, LocalAlone DEF Local
<1> QED
  BY <1>2, <1>3, <1>4, TimersKinds

\* a beacon,
LEMMA LocalBeacon ==
    ASSUME Setting, NodesOK, ListOK, AllLocal, NEW n \in Node, ReceiveBeacon(n)
    PROVE  AllLocal'
<1> DEFINE s == mac[n]
<1>1. par' = par /\ Hub \in Node
  BY DEF ReceiveBeacon, Setting
<1>2. Local(n, s) /\ s \in NodeState /\ Buffers(s)
  BY NodeFacts DEF AllLocal
<1>3. PICK t : Handover(Hub, n, t) /\ Hears(n, s, t)
  BY BeaconHeard
<1> HIDE DEF s
<1>4. Asked(t.currentPacket)
  <2>1. s.TXBuffer # <<>> => 1 \in DOMAIN s.TXBuffer /\ Head(s.TXBuffer) = s.TXBuffer[1]
    BY <1>2 DEF NodeState
  <2>2. s.associated => SameQueue(s, t) \/ Follows(s, t)
    BY <1>3 DEF Hears
  <2>3. ~s.associated => t.currentPacket \in {Join, NoFrame}
    BY <1>3 DEF Hears
  <2> QED
    BY <1>2, <2>1, <2>2, <2>3
       DEF Local, OnAir, SameQueue, Follows, Asked, Join, Request, Frame, NoFrame, Buffers
<1>5. OnAir(t)
  BY <1>2, <1>3, <1>4 DEF Local, OnAir, Hears
<1>6. Asks(n, t)
  <2>1. /\ t.associated = s.associated /\ t.assignedGTS = s.assignedGTS
        /\ s.associated => SameQueue(s, t) \/ Follows(s, t)
    BY <1>3 DEF Hears
  <2> QED
    BY <1>2, <2>1 DEF Local, Asks, SameQueue, Follows, Wanting, Request, Frame
<1>7. Seated(n, t)
  BY <1>3 DEF Hears, Seated
<1> QED
  BY <1>1, <1>3, <1>5, <1>6, <1>7, LocalExchange DEF Local

\* frames of others that are answered,
LEMMA LocalAnswers ==
    ASSUME NEW n \in Node, NEW s, NEW t, Local(n, s), NEW m \in Node, NEW f, Answers(m, s, f, t)
    PROVE  Local(n, t)
<1>1. /\ t.timers["ATTEMPT_TX"] = 0 /\ t.timers["ACK_TIMEOUT"] = s.timers["ACK_TIMEOUT"]
      /\ t.frame = f /\ f.type = "ACK" /\ f.dst = m /\ t.to = {m}
      /\ SameOwn(s, t) /\ SameQueue(s, t)
  BY DEF Answers, Timer
<1>2. OnAir(t)
  BY <1>1 DEF Local, OnAir, Asked, SameQueue, Own, Running, Off
<1>3. Asks(n, t) /\ Seated(n, t)
  BY <1>1 DEF Local, Asks, Seated, SameOwn, SameQueue, Wanting
<1> QED
  BY <1>2, <1>3 DEF Local

\* an ACK,
LEMMA LocalLearns ==
    ASSUME Setting, NEW n \in Node, NEW s \in NodeState, Buffers(s), Serves(s),
           Local(n, s), NEW f, NEW t, Learns(n, s, f, t)
    PROVE  Local(n, t)
<1>1. ASSUME NEW x, Settles(s, x, f), Moves(n, x, t), s.to = {},
             Follows(x, t) \/ (SameQueue(x, t) /\ s.currentPacket.type \notin
                                                   {"ASSOCIATE", "GTS_REQUEST"})
      PROVE  Local(n, t)
  <2>1. x \in NodeState /\ Buffers(x) /\ Serves(x) /\ x.to = {}
        /\ Asked(x.frame) /\ Asked(x.currentPacket)
    BY <1>1 DEF Settles, SameQueue, SameRadio, Buffers, Serves, Local, OnAir
  <2>2. Seated(n, x)
    BY <1>1 DEF Settles, Seated, Local
  <2>3. s.currentPacket.type \notin {"ASSOCIATE", "GTS_REQUEST"} => Asks(n, x)
    BY <1>1 DEF Settles, Local, Asks, SameQueue, Wanting
  <2> QED
    BY <1>1, <2>1, <2>2, <2>3, LocalMoves
<1> QED
  BY <1>1 DEF Learns

\* and a packet handed down.
LEMMA LocalAccepts ==
    ASSUME Setting, NEW n \in Node, NEW s \in NodeState, Buffers(s), Serves(s),
           Local(n, s), NEW p, p.type = "DATA", NEW t, Accepts(n, s, p, t)
    PROVE  Local(n, t)
<1>1. t \in NodeState /\ SameOwn(s, t) /\ (Holds(s, t) \/ Sends(n, s, t)) /\ ~s.disabled
  BY DEF Accepts, Moves
<1>2. Asked(t.currentPacket) /\ Serves(t)
  BY DEF Accepts, Local, OnAir, Asked, Serves, Own
<1>3. Asks(n, t)
  BY <1>1 DEF Accepts, Local, Asks, SameOwn, Wanting, NoFrame
<1>4. CASE SameRadio(s, t) /\ t.timers = s.timers
  <2>1. OnAir(t)
    BY <1>1, <1>2, <1>4 DEF Local, OnAir, SameRadio, SameOwn, Running
  <2>2. Seated(n, t)
    BY <1>1, <1>4 DEF Local, Seated, SameOwn
  <2> QED
    BY <1>3, <2>1, <2>2 DEF Local
<1>5. CASE s.associated /\ s.currentPacket = NoFrame /\ ~Running(s, "ATTEMPT_TX")
            /\ ~Running(s, "ACK_TIMEOUT")
  <2>1. s.to = {}
    BY <1>1, <1>5 DEF Local, OnAir
  <2>2. CASE Holds(s, t)
    <3>1. OnAir(t)
      BY <1>2, <2>1, <2>2 DEF Local, OnAir, Holds
    <3>2. Seated(n, t)
      BY <1>1 DEF Local, Seated, SameOwn
    <3> QED
      BY <1>3, <3>1, <3>2 DEF Local
  <2>3. CASE Sends(n, s, t)
    BY <1>1, <1>2, <1>3, <2>3, LocalSends DEF Local
  <2> QED
    BY <1>1, <2>2, <2>3
<1> QED
  BY <1>4, <1>5 DEF Accepts

\* A tick: a timer that runs goes on, none begins.
LEMMA TicksRunning ==
    ASSUME NEW s \in NodeState, Ranged(s), NEW t, Ticks(s, t), NEW x \in Timer
    PROVE  Running(t, x) <=> Running(s, x)
<1>1. s.timers[x] \in Int /\ s.timers[x] >= -1 /\ s.timers[x] # 0
  BY DEF NodeState, Ranged, Ticks, Off
<1>2. t.timers[x] = IF s.timers[x] > 0 THEN s.timers[x] - 1 ELSE s.timers[x]
  BY DEF Ticks, Less
<1> QED
  BY <1>1, <1>2 DEF Running, Off

\* All else stays in its place.
LEMMA LocalTicks ==
    ASSUME NEW n \in Node, NEW s \in NodeState, Ranged(s), Local(n, s), NEW t, Ticks(s, t)
    PROVE  Local(n, t)
<1>1. /\ SamePackets(s, t) /\ SameRadio(s, t) /\ t.macState = s.macState
      /\ t.associated = s.associated /\ t.assignedGTS = s.assignedGTS
      /\ t.disabled = s.disabled
  BY DEF Ticks
<1>2. /\ Running(t, "ATTEMPT_TX") <=> Running(s, "ATTEMPT_TX")
      /\ Running(t, "ACK_TIMEOUT") <=> Running(s, "ACK_TIMEOUT")
  BY TicksRunning DEF Timer
<1>3. OnAir(t)
  BY <1>1, <1>2 DEF Local, OnAir, SameRadio, SamePackets
<1>4. Asks(n, t) /\ Seated(n, t)
  BY <1>1 DEF Local, Asks, Seated, SamePackets, Wanting
<1> QED
  BY <1>3, <1>4 DEF Local

\* Every step keeps it.
LEMMA LocalStep ==
    ASSUME IInv, AllLocal, Next
    PROVE  AllLocal'
<1>1. Setting /\ NodesOK /\ ListOK /\ sent \in [Node -> Seq(Address)]
  BY SettingOK DEF IInv
<1>2. ASSUME NEW n \in Node
      PROVE  Local(n, mac[n]) /\ Serves(mac[n]) /\ mac[n] \in NodeState /\ Buffers(mac[n])
  BY <1>1, NodeFacts DEF AllLocal, Serves, Own
<1>3. CASE Tick
  <2>1. ASSUME NEW n \in Node PROVE Local(n, mac'[n])
    <3>1. Ticks(mac[n], mac'[n]) /\ Ranged(mac[n])
      BY <1>1, <1>3, TickTicks DEF NodesOK, NodeOK
    <3> QED
      BY <1>2, <3>1, LocalTicks
  <2> QED
    BY <1>3, <2>1, LocalNext DEF Tick
<1>4. CASE HubFrameStart
  <2>1. PICK t : Alone(Hub, t) /\ Announces(mac[Hub], t)
    BY <1>1, <1>4, HubBegins
  <2>2. Hub \in Node /\ t.timers["ATTEMPT_TX"] = 0
    BY <1>1, <2>1 DEF Setting, Announces
  <2>3. t.frame.type = "BEACON" /\ t.frame.dst = BROADCAST /\ Asked(t.currentPacket)
    BY <1>2, <2>1, <2>2 DEF Announces, Frame, SamePackets, Local, OnAir
  <2>4. OnAir(t)
    BY <2>2, <2>3 DEF OnAir, Asked, Running, Off
  <2>5. Local(Hub, t)
    BY <2>4 DEF Local, Asks, Seated
  <2> QED
    BY <1>4, <2>1, <2>2, <2>5, LocalAlone DEF HubFrameStart
<1>5. ASSUME NEW n \in Node, Timers(n) PROVE AllLocal'
  <2>1. par' = par
    BY <1>5 DEF Timers, FrameStart, GtsStart, BeaconTimeout, AckTimeout, AttemptTx, SleepStart,
                BackToSetup, CcaInVain, CcaNotValid, CcaClear, CcaBusy
  <2> QED
    BY <1>1, <1>5, <2>1, LocalTimers
<1>6. ASSUME NEW n \in Node, Disable(n) PROVE AllLocal'
  <2>1. PICK t : Alone(n, t) /\ Dies(mac[n], t)
    BY <1>1, <1>6, DisableDies
  <2>2. OnAir(t)
    BY <1>2, <2>1 DEF Local, OnAir, Dies, SamePackets, SameRadio
  <2>3. Asks(n, t) /\ Seated(n, t)
    BY <1>2, <2>1 DEF Local, Asks, Seated, Dies, SamePackets, Wanting
  <2> QED
    BY <1>6, <2>1, <2>2, <2>3, LocalAlone DEF Disable, Local
<1>7. ASSUME NEW n \in Node, ReceiveBeacon(n) PROVE AllLocal'
  BY <1>1, <1>7, LocalBeacon
<1>8. ASSUME NEW m \in Node, ReceiveAssociate(m) PROVE AllLocal'
  <2>1. PICK t : Handover(m, Hub, t) /\ Answers(m, mac[Hub], Frame("ACK", m, 0, 0), t)
    BY <1>1, <1>8, AssociateAnswered
  <2>2. Hub \in Node /\ par' = par
    BY <1>1, <1>8 DEF Setting, ReceiveAssociate
  <2>3. Local(Hub, t)
    BY <1>2, <2>1, <2>2, LocalAnswers
  <2> QED
    BY <1>1, <2>1, <2>2, <2>3, LocalExchange
<1>9. ASSUME NEW m \in Node, ReceiveGtsRequest(m) PROVE AllLocal'
  <2>1. PICK t : Handover(m, Hub, t) /\ Answers(m, mac[Hub], Frame("ACK", m, 0, Granted(m)), t)
    BY <1>1, <1>9, GtsRequestAnswered
  <2>2. Hub \in Node /\ par' = par
    BY <1>1, <1>9 DEF Setting, ReceiveGtsRequest
  <2>3. Local(Hub, t)
    BY <1>2, <2>1, <2>2, LocalAnswers
  <2> QED
    BY <1>1, <2>1, <2>2, <2>3, LocalExchange
<1>10. ASSUME NEW n \in Node, NEW m \in Node, ReceiveData(m, n) PROVE AllLocal'
  <2>1. par' = par
    BY <1>10 DEF ReceiveData
  <2>2. CASE Handover(m, n, mac[n])
    BY <1>1, <1>2, <2>1, <2>2, LocalExchange
  <2>3. ASSUME NEW t, Handover(m, n, t),
               Answers(m, mac[n], Frame("ACK", m, mac[m].frame.sn - 1, 0), t)
        PROVE  AllLocal'
    <3>1. Local(n, t)
      BY <1>2, <2>3, LocalAnswers
    <3> QED
      BY <1>1, <2>1, <2>3, <3>1, LocalExchange
  <2> QED
    BY <1>1, <1>10, <2>2, <2>3, DataAnswered
<1>11. ASSUME NEW n \in Node, NEW m \in Node, ReceiveAck(m, n) PROVE AllLocal'
  <2>1. par' = par
    BY <1>11 DEF ReceiveAck
  <2>2. PICK t : Handover(m, n, t) /\ Learns(n, mac[n], mac[m].frame, t)
    BY <1>1, <1>11, AckLearned
  <2>3. Local(n, t)
    BY <1>1, <1>2, <2>2, LocalLearns
  <2> QED
    BY <1>1, <2>1, <2>2, <2>3, LocalExchange
<1>12. ASSUME NEW n \in Node, NEW m \in Node, Lose(m, n) PROVE AllLocal'
  <2>1. PICK t : Alone(m, t) /\ Loses(n, mac[m], t)
    BY <1>1, <1>12, LoseAlone
  <2>2. Local(m, t)
    BY <1>2, <2>1, LocalLoses
  <2> QED
    BY <1>12, <2>1, <2>2, LocalAlone DEF Lose
<1>13. ASSUME NEW n \in Node, NEW x \in par.traffic, FromNetworkLayer(n, x[2]) PROVE AllLocal'
  <2>1. x[2] \in Address /\ par' = par
    BY <1>1, <1>13 DEF Setting, FromNetworkLayer
  <2>2. PICK dst \in Address : dst = x[2]
    BY <2>1
  <2> DEFINE p == Frame("DATA", dst, Len(sent[n]) + 1, 0)
  <2>3. PICK t : Alone(n, t) /\ Accepts(n, mac[n], p, t)
    BY <1>1, <1>13, <2>2, PacketAccepted
  <2>4. p.type = "DATA"
    BY DEF Frame
  <2> HIDE DEF p
  <2>5. Local(n, t)
    BY <1>1, <1>2, <2>3, <2>4, LocalAccepts
  <2> QED
    BY <2>1, <2>3, <2>5, LocalAlone
<1> QED
  BY <1>3, <1>4, <1>5, <1>6, <1>7, <1>8, <1>9, <1>10, <1>11, <1>12, <1>13 DEF Next, Receive

-----------------------------------------------------------------------------
(* The packets of a node are served in the order they were handed down. *)

\* s moves to t without a new packet: the packet in service stays, leaves or is
\* followed by the buffer's head, and only it goes on the air.
Flows(s, t) ==
    /\ t.frame = s.frame \/ t.frame = t.currentPacket \/ t.frame.type # "DATA"
    /\ \/ /\ t.TXBuffer = s.TXBuffer
          /\ t.currentPacket = s.currentPacket \/ t.currentPacket.type # "DATA"
       \/ /\ s.TXBuffer # <<>> /\ t.TXBuffer = Tail(s.TXBuffer)
          /\ t.currentPacket = Head(s.TXBuffer)

AllFlow == \A k \in Node : Flows(mac[k], mac'[k])

\* The helpers do no more than that.
LEMMA MovesFlow ==
    ASSUME NEW n, NEW s, NEW t, Moves(n, s, t), SameQueue(s, t) \/ Follows(s, t)
    PROVE  Flows(s, t)
<1>1. t.frame = s.frame \/ t.frame = t.currentPacket
  BY DEF Moves, Holds, Sends
<1> QED
  BY <1>1 DEF SameQueue, Follows, Flows, NoFrame, Request, Frame

\* A step of one node,
LEMMA AloneFlows ==
    ASSUME NEW n \in Node, NEW t, Alone(n, t), Flows(mac[n], t)
    PROVE  AllFlow
BY DEF Alone, AllFlow, Flows

\* and a frame that one takes.
LEMMA ExchangeFlows ==
    ASSUME Setting, NodesOK, NEW m \in Node, NEW n \in Node, NEW t, Handover(m, n, t),
           Flows(mac[n], t)
    PROVE  AllFlow
<1> DEFINE u == Taken(mac[m], n)
<1>1. Loses(n, mac[m], u)
  BY TakenLoses DEF Handover
<1> HIDE DEF u
<1>2. Flows(mac[m], u)
  BY <1>1 DEF Loses, SamePackets, Flows, NoFrame
<1>3. ASSUME NEW k \in Node PROVE Flows(mac[k], mac'[k])
  <2>1. k # m /\ k # n => mac'[k] = mac[k]
    BY DEF Handover
  <2>2. Flows(mac[k], mac[k])
    BY DEF Flows
  <2> QED
    BY <1>2, <2>1, <2>2 DEF Handover, u
<1> QED
  BY <1>3 DEF AllFlow

\* What a beacon sets going,
LEMMA HearsFlows ==
    ASSUME NEW n, NEW s, NEW t, Hears(n, s, t)
    PROVE  Flows(s, t)
<1>1. t.frame = s.frame
  BY DEF Hears
<1>2. CASE s.associated
  BY <1>1, <1>2 DEF Hears, SameQueue, Follows, Flows, NoFrame, Request, Frame
<1>3. CASE ~s.associated
  BY <1>1, <1>3 DEF Hears, Flows, NoFrame, Join, Frame
<1> QED
  BY <1>2, <1>3

\* and an ACK.
LEMMA LearnsFlows ==
    ASSUME NEW n, NEW s, NEW f, NEW t, Learns(n, s, f, t)
    PROVE  Flows(s, t)
<1>1. CASE t = s
  BY <1>1 DEF Flows
<1>2. ASSUME NEW x, Settles(s, x, f), Moves(n, x, t), Follows(x, t) \/ SameQueue(x, t)
      PROVE  Flows(s, t)
  <2>1. Flows(x, t) /\ x.frame = s.frame /\ SameQueue(s, x)
    BY <1>2, MovesFlow DEF Settles, SameRadio
  <2> QED
    BY <2>1 DEF Flows, SameQueue
<1> QED
  BY <1>1, <1>2 DEF Learns

\* So it is in every step but that of a new packet.
LEMMA StepFlows ==
    ASSUME IInv, Next
    PROVE  \/ AllFlow
           \/ \E n \in Node, x \in par.traffic : FromNetworkLayer(n, x[2])
<1>1. Setting /\ NodesOK /\ ListOK
  BY SettingOK DEF IInv
<1>2. CASE Tick
  <2>1. ASSUME NEW n \in Node PROVE Flows(mac[n], mac'[n])
    <3>1. Ticks(mac[n], mac'[n])
      BY <1>1, <1>2, TickTicks
    <3> QED
      BY <3>1 DEF Ticks, SamePackets, SameRadio, Flows
  <2> QED
    BY <2>1 DEF AllFlow
<1>3. CASE HubFrameStart
  <2>1. PICK t : Alone(Hub, t) /\ Announces(mac[Hub], t)
    BY <1>1, <1>3, HubBegins
  <2>2. Hub \in Node
    BY <1>1 DEF Setting
  <2>3. Flows(mac[Hub], t)
    BY <2>1 DEF Announces, SamePackets, Frame, Flows
  <2> QED
    BY <2>1, <2>2, <2>3, AloneFlows
<1>4. ASSUME NEW n \in Node, Timers(n) PROVE AllFlow
  <2>1. ASSUME NEW t, Alone(n, t), Still(n, mac[n], t) PROVE AllFlow
    <3>1. Flows(mac[n], t)
      BY <2>1 DEF Still, SameQueue, Flows
    <3> QED
      BY <2>1, <3>1, AloneFlows
  <2>2. ASSUME NEW t, Alone(n, t), Tries(n, mac[n], t) PROVE AllFlow
    <3>1. Flows(mac[n], t)
      BY <2>2, MovesFlow DEF Tries
    <3> QED
      BY <2>2, <3>1, AloneFlows
  <2>3. ASSUME NEW t, Alone(n, t), Leaves(n, mac[n], t) PROVE AllFlow
    <3>1. Flows(mac[n], t)
      BY <2>3 DEF Leaves, Flows, NoFrame
    <3> QED
      BY <2>3, <3>1, AloneFlows
  <2>4. Keeps(n) \/ Attempting(n) \/ Quits(n)
    BY <1>1, <1>4, TimersKinds
  <2> QED
    BY <2>1, <2>2, <2>3, <2>4 DEF Keeps, Attempting, Quits
<1>5. ASSUME NEW n \in Node, Disable(n) PROVE AllFlow
  <2>1. PICK t : Alone(n, t) /\ Dies(mac[n], t)
    BY <1>1, <1>5, DisableDies
  <2>2. Flows(mac[n], t)
    BY <2>1 DEF Dies, SamePackets, SameRadio, Flows
  <2> QED
    BY <2>1, <2>2, AloneFlows
<1>6. ASSUME NEW n \in Node, ReceiveBeacon(n) PROVE AllFlow
  <2>1. PICK t : Handover(Hub, n, t) /\ Hears(n, mac[n], t)
    BY <1>1, <1>6, BeaconHeard
  <2>2. Hub \in Node /\ Flows(mac[n], t)
    BY <1>1, <2>1, HearsFlows DEF Setting
  <2> QED
    BY <1>1, <2>1, <2>2, ExchangeFlows
<1>7. ASSUME NEW m \in Node, NEW n \in Node, NEW f, NEW t, Handover(m, n, t),
             Answers(m, mac[n], f, t)
      PROVE  AllFlow
  <2>1. Flows(mac[n], t)
    BY <1>7 DEF Answers, SameQueue, Flows
  <2> QED
    BY <1>1, <1>7, <2>1, ExchangeFlows
<1>8. ASSUME NEW m \in Node, ReceiveAssociate(m) \/ ReceiveGtsRequest(m) PROVE AllFlow
  <2>1. Hub \in Node
    BY <1>1 DEF Setting
  <2> QED
    BY <1>1, <1>7, <1>8, <2>1, AssociateAnswered, GtsRequestAnswered
<1>9. ASSUME NEW n \in Node, NEW m \in Node, ReceiveData(m, n) PROVE AllFlow
  <2>1. Flows(mac[n], mac[n])
    BY DEF Flows
  <2> QED
    BY <1>1, <1>7, <1>9, <2>1, DataAnswered, ExchangeFlows
<1>10. ASSUME NEW n \in Node, NEW m \in Node, ReceiveAck(m, n) PROVE AllFlow
  <2>1. PICK t : Handover(m, n, t) /\ Learns(n, mac[n], mac[m].frame, t)
    BY <1>1, <1>10, AckLearned
  <2>2. Flows(mac[n], t)
    BY <2>1, LearnsFlows
  <2> QED
    BY <1>1, <2>1, <2>2, ExchangeFlows
<1>11. ASSUME NEW n \in Node, NEW m \in Node, Lose(m, n) PROVE AllFlow
  <2>1. PICK t : Alone(m, t) /\ Loses(n, mac[m], t)
    BY <1>1, <1>11, LoseAlone
  <2>2. Flows(mac[m], t)
    BY <2>1 DEF Loses, SamePackets, Flows, NoFrame
  <2> QED
    BY <2>1, <2>2, AloneFlows
<1> QED
  BY <1>2, <1>3, <1>4, <1>5, <1>6, <1>8, <1>9, <1>10, <1>11 DEF Next, Receive

\* p is the packet of its number among those handed down, q.
Given(q, p) == p.sn \in DOMAIN q /\ q[p.sn] = p.dst

InOrder(s, q) ==
    LET b == s.TXBuffer
        c == s.currentPacket
        f == s.frame
    IN  /\ \A i \in DOMAIN b : Given(q, b[i])
        /\ \A i, j \in DOMAIN b : i < j => b[i].sn < b[j].sn
        /\ c.type = "DATA" => Given(q, c) /\ \A i \in DOMAIN b : c.sn < b[i].sn
        /\ f.type = "DATA" =>
             /\ Given(q, f) /\ \A i \in DOMAIN b : f.sn < b[i].sn
             /\ c.type = "DATA" => f.sn <= c.sn

\* Whoever let the packet of number h through has seen none of those to come.
Seen(s, h) ==
    /\ s.currentPacket.type = "DATA" => h <= s.currentPacket.sn
    /\ s.frame.type = "DATA" => h <= s.frame.sn
    /\ \A i \in DOMAIN s.TXBuffer : h < s.TXBuffer[i].sn

\* What has been passed up by m, from n: up to the number kept for n.
Passed(m) == {delivered[m][i] : i \in DOMAIN delivered[m]}

History(m, n) ==
    /\ \A k \in Nat : <<n, k>> \in Passed(m) => k <= pktHistory[m][n]
    /\ pktHistory[m][n] > 0 => <<n, pktHistory[m][n]>> \in Passed(m)
    /\ pktHistory[m][n] <= Len(sent[n])

AllOrdered ==
    \A n \in Node : /\ InOrder(mac[n], sent[n])
                    /\ \A m \in Node : Seen(mac[n], pktHistory[m][n]) /\ History(m, n)

\* The frames of a buffer are numbered.
LEMMA Numbered ==
    ASSUME NEW b \in Seq(AnyFrame), NEW i \in DOMAIN b
    PROVE  b[i].sn \in Int
<1>1. b[i] \in AnyFrame
  OBVIOUS
<1> QED
  BY <1>1 DEF AnyFrame

\* Packets that flow stay in order,
LEMMA FlowsOrder ==
    ASSUME NEW s \in NodeState, Buffers(s), NEW t, Flows(s, t), NEW q, InOrder(s, q)
    PROVE  InOrder(t, q)
<1> DEFINE b == s.TXBuffer
           e == t.TXBuffer
<1>1. CASE e = b /\ (t.currentPacket = s.currentPacket \/ t.currentPacket.type # "DATA")
  <2>1. s.currentPacket.sn <= s.currentPacket.sn
    BY DEF NodeState, AnyFrame
  <2> QED
    BY <1>1, <2>1 DEF Flows, InOrder
<1>2. CASE b # <<>> /\ e = Tail(b) /\ t.currentPacket = Head(b)
  <2>1. b \in Seq(AnyFrame)
    BY DEF NodeState
  <2>2. /\ 1 \in DOMAIN b /\ Head(b) = b[1] /\ DOMAIN b \subseteq Int
        /\ \A i \in DOMAIN e : i + 1 \in DOMAIN b /\ i > 0 /\ e[i] = b[i + 1] /\ i \in Int
    <3> HIDE DEF b, e
    <3>1. b # <<>> /\ e = Tail(b)
      BY <1>2
    <3> QED
      BY <2>1, <3>1
  <2>3. \A i \in DOMAIN b : Given(q, b[i]) /\ b[i].sn \in Int
    BY <2>1, Numbered DEF InOrder
  <2>4. \A i, j \in DOMAIN b : i < j => b[i].sn < b[j].sn
    BY DEF InOrder
  <2>5. /\ \A i \in DOMAIN e : Given(q, e[i]) /\ b[1].sn < e[i].sn
        /\ \A i, j \in DOMAIN e : i < j => e[i].sn < e[j].sn
    BY <2>2, <2>3, <2>4
  <2>6. t.frame.type = "DATA" => t.frame = b[1] \/ t.frame = s.frame
    BY <1>2, <2>2 DEF Flows
  <2>7. s.frame.type = "DATA" => Given(q, s.frame) /\ s.frame.sn < b[1].sn /\ s.frame.sn \in Int
    BY <2>2 DEF InOrder, NodeState, AnyFrame
  <2> HIDE DEF b, e
  <2>8. \A i \in DOMAIN e : e[i].sn \in Int
    BY <2>2, <2>3
  <2>9. t.currentPacket = b[1] /\ Given(q, b[1]) /\ b[1].sn \in Int
    BY <1>2, <2>2, <2>3
  <2>10. t.frame.type = "DATA" => Given(q, t.frame) /\ t.frame.sn <= b[1].sn
                                  /\ \A i \in DOMAIN e : t.frame.sn < e[i].sn
    BY <2>5, <2>6, <2>7, <2>8, <2>9
  <2> QED
    BY <2>5, <2>9, <2>10 DEF InOrder, e
<1> QED
  BY <1>1, <1>2 DEF Flows

\* and new to those they are for.
LEMMA FlowsSeen ==
    ASSUME NEW s \in NodeState, NEW t, Flows(s, t), NEW h \in Nat, Seen(s, h)
    PROVE  Seen(t, h)
<1> DEFINE b == s.TXBuffer
           e == t.TXBuffer
<1>1. CASE e = b /\ (t.currentPacket = s.currentPacket \/ t.currentPacket.type # "DATA")
  BY <1>1 DEF Flows, Seen
<1>2. CASE b # <<>> /\ e = Tail(b) /\ t.currentPacket = Head(b)
  <2>1. b \in Seq(AnyFrame)
    BY DEF NodeState
  <2>2. /\ 1 \in DOMAIN b /\ Head(b) = b[1]
        /\ \A i \in DOMAIN e : i + 1 \in DOMAIN b /\ e[i] = b[i + 1]
    <3> HIDE DEF b, e
    <3>1. b # <<>> /\ e = Tail(b)
      BY <1>2
    <3> QED
      BY <2>1, <3>1
  <2>3. \A i \in DOMAIN b : h < b[i].sn /\ b[i].sn \in Int
    BY <2>1, Numbered DEF Seen
  <2>4. t.frame.type = "DATA" => t.frame = b[1] \/ (t.frame = s.frame /\ h <= s.frame.sn)
    BY <1>2, <2>2 DEF Flows, Seen
  <2> HIDE DEF b, e
  <2>5. h < b[1].sn /\ b[1].sn \in Int /\ t.currentPacket = b[1]
    BY <1>2, <2>2, <2>3
  <2>6. \A i \in DOMAIN e : h < e[i].sn
    BY <2>2, <2>3
  <2>7. h <= b[1].sn
    BY <2>5
  <2> QED
    BY <2>4, <2>5, <2>6, <2>7 DEF Seen, e
<1> QED
  BY <1>1, <1>2 DEF Flows

\* A new packet has the next number.
LEMMA AcceptsOrder ==
    ASSUME NEW n, NEW s \in NodeState, Served(s), NEW q \in Seq(Address), NEW dst \in Address, InOrder(s, q),
           NEW p, p.type = "DATA", p.sn = Len(q) + 1, p.dst = dst, NEW t, Accepts(n, s, p, t)
    PROVE  /\ InOrder(t, Append(q, dst))
           /\ \A h \in Nat : h <= Len(q) /\ Seen(s, h) => Seen(t, h)
<1> DEFINE b == s.TXBuffer
           e == t.TXBuffer
           c == s.currentPacket
           r == Append(q, dst)
<1>1. /\ Len(q) \in Nat /\ DOMAIN q = 1..Len(q) /\ DOMAIN r = DOMAIN q \cup {Len(q) + 1}
      /\ \A k \in DOMAIN q : r[k] = q[k]
      /\ r[Len(q) + 1] = dst
  OBVIOUS
<1> HIDE DEF r
<1>2. Given(r, p) /\ \A x : Given(q, x) => Given(r, x) /\ x.sn < p.sn /\ x.sn \in Nat
  BY <1>1 DEF Given
<1>3. b \in Seq(AnyFrame) /\ t.frame \in {s.frame, t.currentPacket}
  BY DEF NodeState, Accepts, Moves, Holds, Sends
<1>4. CASE e = b /\ t.currentPacket = c
  <2>1. c.sn <= c.sn /\ c = s.currentPacket
    BY DEF NodeState, AnyFrame
  <2>2. /\ \A i \in DOMAIN b : Given(r, b[i])
        /\ \A i, j \in DOMAIN b : i < j => b[i].sn < b[j].sn
        /\ c.type = "DATA" => Given(r, c) /\ \A i \in DOMAIN b : c.sn < b[i].sn
        /\ s.frame.type = "DATA" =>
             /\ Given(r, s.frame) /\ \A i \in DOMAIN b : s.frame.sn < b[i].sn
             /\ c.type = "DATA" => s.frame.sn <= c.sn
    BY <1>2 DEF InOrder
  <2>3. InOrder(t, r)
    <3> HIDE DEF c
    <3> QED
      BY <1>3, <1>4, <2>1, <2>2 DEF InOrder
  <2>4. \A h \in Nat : Seen(s, h) => Seen(t, h)
    BY <1>3, <1>4 DEF Seen
  <2> QED
    BY <2>3, <2>4 DEF r
<1>5. CASE s.associated /\ c = NoFrame /\ e = b /\ t.currentPacket = p
  <2>1. e = <<>> /\ DOMAIN e = {}
    BY <1>5 DEF Served
  <2>2. s.frame.type = "DATA" => Given(r, s.frame) /\ s.frame.sn < p.sn /\ s.frame.sn \in Nat
    BY <1>2 DEF InOrder
  <2>3. p.sn \in Nat
    BY <1>1
  <2> HIDE DEF e, c
  <2>4. InOrder(t, r)
    BY <1>2, <1>3, <1>5, <2>1, <2>2, <2>3 DEF InOrder, e
  <2>5. ASSUME NEW h \in Nat, h <= Len(q), Seen(s, h) PROVE Seen(t, h)
    <3>1. h <= p.sn
      BY <1>1, <2>5
    <3> QED
      BY <1>3, <1>5, <2>1, <2>5, <3>1 DEF Seen, e
  <2> QED
    BY <2>4, <2>5 DEF r
<1>6. CASE (~s.associated \/ c # NoFrame) /\ t.currentPacket = c /\ e = Append(b, p)
  <2>1. /\ Len(b) \in Nat /\ DOMAIN b = 1..Len(b) /\ DOMAIN e = DOMAIN b \cup {Len(b) + 1}
        /\ \A i \in DOMAIN b : e[i] = b[i]
        /\ e[Len(b) + 1] = p
    <3> HIDE DEF b, e
    <3> QED
      BY <1>3, <1>6, AppendProperties
  <2>2. \A i \in DOMAIN b : Given(r, b[i]) /\ b[i].sn < p.sn
    BY <1>2 DEF InOrder
  <2>3. \A i, j \in DOMAIN b : i < j => b[i].sn < b[j].sn
    BY DEF InOrder
  <2>4. c.type = "DATA" => Given(r, c) /\ c.sn < p.sn /\ \A i \in DOMAIN b : c.sn < b[i].sn
    BY <1>2 DEF InOrder
  <2>5. /\ s.frame.type = "DATA" =>
             /\ Given(r, s.frame) /\ s.frame.sn < p.sn /\ \A i \in DOMAIN b : s.frame.sn < b[i].sn
             /\ c.type = "DATA" => s.frame.sn <= c.sn
        /\ c.type = "DATA" => c.sn <= c.sn
    BY <1>2 DEF InOrder
  <2> HIDE DEF b, e, c
  <2>6. \A i \in DOMAIN e : Given(r, e[i]) /\ (i \in DOMAIN b \/ (e[i] = p /\ i = Len(b) + 1))
    BY <1>2, <2>1, <2>2
  <2>7. \A i, j \in DOMAIN e : i < j => e[i].sn < e[j].sn
    BY <2>1, <2>2, <2>3
  <2>8. c.type = "DATA" => Given(r, c) /\ \A i \in DOMAIN e : c.sn < e[i].sn
    BY <2>1, <2>4
  <2>9. t.frame.type = "DATA" =>
             /\ Given(r, t.frame) /\ \A i \in DOMAIN e : t.frame.sn < e[i].sn
             /\ c.type = "DATA" => t.frame.sn <= c.sn
    BY <1>3, <1>6, <2>1, <2>4, <2>5
  <2>10. InOrder(t, r)
    BY <1>6, <2>6, <2>7, <2>8, <2>9 DEF InOrder, e
  <2>11. ASSUME NEW h \in Nat, h <= Len(q), Seen(s, h) PROVE Seen(t, h)
    <3>1. h < p.sn /\ (\A i \in DOMAIN b : h < b[i].sn)
      BY <1>1, <2>11 DEF Seen, b
    <3>2. \A i \in DOMAIN e : h < e[i].sn
      BY <2>1, <3>1
    <3> QED
      BY <1>3, <1>6, <2>11, <3>2 DEF Seen, e, c
  <2> QED
    BY <2>10, <2>11 DEF r
<1> QED
  BY <1>4, <1>5, <1>6 DEF Accepts, r

\* A packet that arrives is the sender's own, and is passed up unless it was before.
LEMMA DataFacts ==
    ASSUME IInv, AllLocal, AllOrdered, NEW m \in Node, NEW n \in Node, ReceiveData(m, n)
    PROVE  LET f == mac[m].frame
           IN  /\ f.type = "DATA" /\ f.sn \in Nat /\ f.sn > 0 /\ f.dst \in {n, BROADCAST}
               /\ Given(sent[m], f) /\ sent' = sent
               /\ \/ delivered' = delivered
                  \/ /\ pktHistory[n][m] < f.sn
                     /\ delivered' = [delivered EXCEPT ![n] = Append(@, <<m, f.sn>>)]
               /\ \A a, b \in Node :
                    pktHistory'[a][b] = IF a = n /\ b = m THEN f.sn ELSE pktHistory[a][b]
               /\ \A a \in Node :
                    Passed(a)' = IF a = n THEN Passed(n) \cup {<<m, f.sn>>} ELSE Passed(a)
<1> DEFINE f == mac[m].frame
           h == pktHistory[n][m]
<1>1. /\ Setting /\ NodesOK /\ pktHistory \in [Node -> [Node -> Nat]]
      /\ delivered \in [Node -> Seq(Node \X Nat)]
  BY SettingOK DEF IInv
<1>2. f.type = "DATA" /\ n \in mac[m].to /\ sent' = sent
  BY DEF ReceiveData, Arrives
<1>3. /\ \/ /\ h < f.sn /\ pktHistory' = [pktHistory EXCEPT ![n][m] = f.sn]
            /\ delivered' = [delivered EXCEPT ![n] = Append(@, <<m, f.sn>>)]
         \/ ~(h < f.sn) /\ pktHistory' = pktHistory /\ delivered' = delivered
  BY DEF ReceiveData, isNotDuplicatePacket
<1>4. f.sn \in Nat /\ f.sn > 0 /\ h \in Nat
  BY <1>1, <1>2 DEF NodesOK, NodeOK, Carries, Sound, AnyFrame
<1>5. h <= f.sn /\ Given(sent[m], f) /\ (h > 0 => <<m, h>> \in Passed(n))
  BY <1>2 DEF AllOrdered, InOrder, Seen, History
<1>6. f.dst \in {n, BROADCAST}
  BY <1>2 DEF AllLocal, Local, OnAir
<1> HIDE DEF f, h
<1>7. CASE ~(h < f.sn) /\ pktHistory' = pktHistory /\ delivered' = delivered
  <2>1. h = f.sn /\ <<m, f.sn>> \in Passed(n)
    BY <1>4, <1>5, <1>7
  <2>2. \A a \in Node : Passed(a)' = Passed(a)
    BY <1>7 DEF Passed
  <2> QED
    BY <1>2, <1>4, <1>5, <1>6, <1>7, <2>1, <2>2 DEF f, h
<1>8. CASE /\ h < f.sn /\ pktHistory' = [pktHistory EXCEPT ![n][m] = f.sn]
           /\ delivered' = [delivered EXCEPT ![n] = Append(@, <<m, f.sn>>)]
  <2> DEFINE p == <<m, f.sn>>
             d == delivered[n]
             c == Append(d, p)
  <2>1. /\ DOMAIN c = DOMAIN d \cup {Len(d) + 1} /\ \A i \in DOMAIN d : c[i] = d[i]
        /\ c[Len(d) + 1] = p
    <3> HIDE DEF p
    <3>1. d \in Seq(Node \X Nat) /\ p \in Node \X Nat
      BY <1>1, <1>4 DEF p
    <3> HIDE DEF d
    <3> QED
      BY <3>1, AppendProperties
  <2>2. \A a \in Node : delivered'[a] = IF a = n THEN c ELSE delivered[a]
    BY <1>1, <1>8
  <2> HIDE DEF c, p
  <2>3. {c[i] : i \in DOMAIN c} = {d[i] : i \in DOMAIN d} \cup {p}
    BY <2>1
  <2>4. Passed(n)' = Passed(n) \cup {p}
    BY <2>2, <2>3 DEF Passed
  <2>5. \A a \in Node : a # n => Passed(a)' = Passed(a)
    BY <2>2 DEF Passed
  <2>6. \A a, b \in Node :
           pktHistory'[a][b] = IF a = n /\ b = m THEN f.sn ELSE pktHistory[a][b]
    BY <1>1, <1>8
  <2>7. \A a \in Node : Passed(a)' = IF a = n THEN Passed(n) \cup {<<m, f.sn>>} ELSE Passed(a)
    BY <2>4, <2>5 DEF p
  <2> QED
    BY <1>2, <1>4, <1>5, <1>6, <1>8, <2>6, <2>7 DEF f, h
<1> QED
  BY <1>3, <1>7, <1>8

\* Packets stay in order when they flow and nothing is passed up,
LEMMA OrderFlows ==
    ASSUME NodesOK, AllOrdered, AllFlow, UNCHANGED <<sent, pktHistory, delivered>>,
           pktHistory \in [Node -> [Node -> Nat]]
    PROVE  AllOrdered'
<1>1. ASSUME NEW n \in Node PROVE InOrder(mac'[n], sent[n])
  BY NodeFacts, FlowsOrder DEF AllFlow, AllOrdered
<1>2. ASSUME NEW n \in Node, NEW m \in Node PROVE Seen(mac'[n], pktHistory[m][n])
  <2>1. pktHistory[m][n] \in Nat
    OBVIOUS
  <2> QED
    BY <2>1, NodeFacts, FlowsSeen DEF AllFlow, AllOrdered
<1>3. ASSUME NEW n \in Node, NEW m \in Node PROVE History(m, n)'
  <2>1. Passed(m)' = Passed(m)
    BY DEF Passed
  <2> QED
    BY <2>1 DEF AllOrdered, History
<1> QED
  BY <1>1, <1>2, <1>3 DEF AllOrdered, InOrder, Seen, Given

\* when one is passed up,
LEMMA OrderData ==
    ASSUME IInv, AllLocal, AllOrdered, AllFlow, NEW m \in Node, NEW n \in Node, ReceiveData(m, n)
    PROVE  AllOrdered'
<1> DEFINE f == mac[m].frame
<1>1. /\ f.type = "DATA" /\ f.sn \in Nat /\ f.sn > 0 /\ Given(sent[m], f) /\ sent' = sent
      /\ \A a, b \in Node :
           pktHistory'[a][b] = IF a = n /\ b = m THEN f.sn ELSE pktHistory[a][b]
      /\ \A a \in Node :
           Passed(a)' = IF a = n THEN Passed(n) \cup {<<m, f.sn>>} ELSE Passed(a)
  BY DataFacts
<1>2. /\ NodesOK /\ pktHistory \in [Node -> [Node -> Nat]] /\ sent \in [Node -> Seq(Address)]
  BY DEF IInv
<1>3. Seen(mac[m], f.sn) /\ pktHistory[n][m] <= f.sn /\ pktHistory[n][m] \in Nat
  <2>1. InOrder(mac[m], sent[m]) /\ Seen(mac[m], pktHistory[n][m])
    BY DEF AllOrdered
  <2> QED
    BY <1>1, <1>2, <2>1 DEF InOrder, Seen
<1>4. ASSUME NEW k \in Node PROVE InOrder(mac'[k], sent[k])
  BY <1>2, NodeFacts, FlowsOrder DEF AllFlow, AllOrdered
<1>5. ASSUME NEW k \in Node, NEW a \in Node PROVE Seen(mac'[k], pktHistory'[a][k])
  <2>1. pktHistory'[a][k] \in Nat
    BY <1>1, <1>2
  <2>2. Seen(mac[k], pktHistory'[a][k])
    BY <1>1, <1>3 DEF AllOrdered
  <2> QED
    BY <1>2, <2>1, <2>2, NodeFacts, FlowsSeen DEF AllFlow
<1>6. f.sn <= Len(sent[m])
  <2>1. sent[m] \in Seq(Address)
    BY <1>2
  <2> QED
    BY <1>1, <2>1 DEF Given
<1> HIDE DEF f
<1>7. ASSUME NEW k \in Node, NEW a \in Node PROVE History(a, k)'
  <2>1. History(a, k)
    BY DEF AllOrdered
  <2>2. CASE a = n /\ k = m
    <3>1. \A j \in Nat : <<m, j>> \in Passed(n)' => j <= f.sn
      <4> SUFFICES ASSUME NEW j \in Nat, <<m, j>> \in Passed(n)' PROVE j <= f.sn
        OBVIOUS
      <4>1. <<m, j>> \in Passed(n) \/ j = f.sn
        BY <1>1
      <4>2. <<m, j>> \in Passed(n) => j <= pktHistory[n][m]
        BY <2>1, <2>2 DEF History
      <4> QED
        BY <1>1, <1>3, <4>1, <4>2
    <3>2. pktHistory'[n][m] = f.sn /\ <<m, f.sn>> \in Passed(n)' /\ sent'[m] = sent[m]
      BY <1>1
    <3> QED
      BY <1>6, <2>2, <3>1, <3>2 DEF History
  <2>3. CASE ~(a = n /\ k = m)
    <3>1. pktHistory'[a][k] = pktHistory[a][k] /\ sent'[k] = sent[k]
      BY <1>1, <2>3
    <3>2. \A j \in Nat : <<k, j>> \in Passed(a)' <=> <<k, j>> \in Passed(a)
      <4> SUFFICES ASSUME NEW j \in Nat
                   PROVE  <<k, j>> \in Passed(a)' <=> <<k, j>> \in Passed(a)
        OBVIOUS
      <4>1. a # n => Passed(a)' = Passed(a)
        BY <1>1
      <4>2. a = n => k # m /\ Passed(a)' = Passed(a) \cup {<<m, f.sn>>}
        BY <1>1, <2>3
      <4> QED
        BY <4>1, <4>2
    <3>3. pktHistory[a][k] \in Nat
      BY <1>2
    <3> QED
      BY <2>1, <3>1, <3>2, <3>3 DEF History
  <2> QED
    BY <2>2, <2>3
<1> QED
  BY <1>1, <1>4, <1>5, <1>7 DEF AllOrdered, InOrder, Seen, Given

\* when a new one is handed down,
LEMMA OrderAccepts ==
    ASSUME IInv, AllOrdered, NEW n \in Node, NEW dst \in Address, FromNetworkLayer(n, dst)
    PROVE  AllOrdered'
<1> DEFINE q == sent[n]
           p == Frame("DATA", dst, Len(q) + 1, 0)
<1>1. /\ Setting /\ NodesOK /\ sent \in [Node -> Seq(Address)] /\ q \in Seq(Address)
      /\ pktHistory \in [Node -> [Node -> Nat]]
  BY SettingOK DEF IInv
<1>2. PICK t : Alone(n, t) /\ Accepts(n, mac[n], p, t)
  BY <1>1, PacketAccepted
<1>3. /\ sent' = [sent EXCEPT ![n] = Append(q, dst)] /\ UNCHANGED <<pktHistory, delivered>>
  BY DEF FromNetworkLayer
<1>4. p.type = "DATA" /\ p.sn = Len(q) + 1 /\ p.dst = dst
  BY DEF Frame
<1>5. mac[n] \in NodeState /\ Served(mac[n])
  BY <1>1 DEF NodesOK, NodeOK
<1> HIDE DEF p
<1>6. /\ InOrder(t, Append(q, dst))
      /\ \A h \in Nat : h <= Len(q) /\ Seen(mac[n], h) => Seen(t, h)
  <2>1. InOrder(mac[n], q)
    BY DEF AllOrdered
  <2> HIDE DEF q
  <2> QED
    BY <1>1, <1>2, <1>4, <1>5, <2>1, AcceptsOrder
<1>7. \A k \in Node : sent'[k] = IF k = n THEN Append(q, dst) ELSE sent[k]
  BY <1>1, <1>3
<1>8. ASSUME NEW k \in Node PROVE InOrder(mac'[k], sent'[k])
  BY <1>2, <1>6, <1>7 DEF Alone, AllOrdered
<1>9. ASSUME NEW k \in Node, NEW m \in Node
      PROVE  Seen(mac'[k], pktHistory[m][k]) /\ History(m, k)'
  <2>1. pktHistory[m][k] \in Nat /\ History(m, k) /\ Seen(mac[k], pktHistory[m][k])
    BY <1>1 DEF AllOrdered
  <2>2. Len(sent[k]) \in Nat /\ Len(sent'[k]) \in Nat /\ Len(sent[k]) <= Len(sent'[k])
    <3> DEFINE r == sent[k]
    <3>1. r \in Seq(Address) /\ (k = n => q = r)
      BY <1>1
    <3>2. sent'[k] = r \/ sent'[k] = Append(r, dst)
      BY <1>7, <3>1
    <3> HIDE DEF r
    <3>3. Len(r) \in Nat /\ Len(Append(r, dst)) = Len(r) + 1
      BY <3>1
    <3>4. Len(r) \in Nat /\ Len(sent'[k]) \in Nat /\ Len(r) <= Len(sent'[k])
      BY <3>2, <3>3
    <3> QED
      BY <3>4 DEF r
  <2>3. Passed(m)' = Passed(m)
    BY <1>3 DEF Passed
  <2>4. History(m, k)'
    BY <1>3, <2>1, <2>2, <2>3 DEF History
  <2>5. Seen(mac'[k], pktHistory[m][k])
    BY <1>2, <1>6, <2>1 DEF Alone, History
  <2> QED
    BY <2>4, <2>5
<1> QED
  BY <1>3, <1>8, <1>9 DEF AllOrdered, InOrder, Seen, Given

\* and in every other step.
LEMMA OrderStep ==
    ASSUME IInv, AllLocal, AllOrdered, Next
    PROVE  AllOrdered'
<1>1. CASE AllFlow /\ UNCHANGED <<sent, pktHistory, delivered>>
  BY <1>1, OrderFlows DEF IInv
<1>2. ASSUME NEW n \in Node, NEW m \in Node, ReceiveData(m, n) PROVE AllOrdered'
  <2>1. CASE AllFlow
    BY <1>2, <2>1, OrderData
  <2>2. ASSUME NEW k \in Node, NEW x \in par.traffic, FromNetworkLayer(k, x[2])
        PROVE  FALSE
    <3>1. sent \in [Node -> Seq(Address)] /\ sent' = sent
      BY <1>2 DEF IInv, ReceiveData
    <3>2. PICK dst : dst = x[2]
      OBVIOUS
    <3>3. sent' = [sent EXCEPT ![k] = Append(@, dst)]
      BY <2>2, <3>2 DEF FromNetworkLayer
    <3>4. dst \in Address
      BY <3>2, SettingOK DEF IInv, Setting
    <3>5. sent'[k] = Append(sent[k], dst) /\ sent[k] \in Seq(Address)
      BY <3>1, <3>3
    <3> DEFINE q == sent[k]
    <3>6. q \in Seq(Address) /\ Append(q, dst) = q
      BY <3>1, <3>5
    <3> HIDE DEF q
    <3>7. Len(Append(q, dst)) = Len(q) + 1 /\ Len(q) \in Nat
      BY <3>4, <3>6, AppendProperties
    <3> QED
      BY <3>6, <3>7
  <2>3. IInv /\ Next
    OBVIOUS
  <2> QED
    BY <2>1, <2>2, <2>3, StepFlows
<1>3. ASSUME NEW n \in Node, NEW x \in par.traffic, FromNetworkLayer(n, x[2]) PROVE AllOrdered'
  <2>1. x[2] \in Address
    BY SettingOK DEF IInv, Setting
  <2>2. PICK dst \in Address : dst = x[2]
    BY <2>1
  <2> QED
    BY <1>3, <2>2, OrderAccepts
<1>4. Tick \/ HubFrameStart => UNCHANGED <<sent, pktHistory, delivered>>
  BY DEF Tick, HubFrameStart
<1>5. ASSUME NEW n \in Node, Timers(n) PROVE UNCHANGED <<sent, pktHistory, delivered>>
  BY <1>5 DEF Timers, FrameStart, GtsStart, BeaconTimeout, AckTimeout, AttemptTx, SleepStart,
              BackToSetup, CcaInVain, CcaNotValid, CcaClear, CcaBusy
<1>6. ASSUME NEW n \in Node,
             Disable(n) \/ ReceiveBeacon(n) \/ ReceiveAssociate(n) \/ ReceiveGtsRequest(n)
      PROVE  UNCHANGED <<sent, pktHistory, delivered>>
  BY <1>6 DEF Disable, ReceiveBeacon, ReceiveAssociate, ReceiveGtsRequest
<1>7. ASSUME NEW n \in Node, NEW m \in Node, Receive(m, n) \/ Lose(m, n)
      PROVE  UNCHANGED <<sent, pktHistory, delivered>> \/ ReceiveData(m, n)
  BY <1>7 DEF Receive, ReceiveAck, Lose
<1>8. \/ UNCHANGED <<sent, pktHistory, delivered>>
      \/ \E n \in Node, m \in Node : ReceiveData(m, n)
      \/ \E n \in Node, x \in par.traffic : FromNetworkLayer(n, x[2])
  BY <1>4, <1>5, <1>6, <1>7 DEF Next
<1> QED
  BY <1>1, <1>2, <1>3, <1>8, StepFlows

-----------------------------------------------------------------------------
(* What an ACK is for: a packet that was passed up, or a request; and the      *)
(* device it comes to has no data in service that it could be taken to answer. *)

\* The frame of s is for one address, and to be acknowledged.
Unicast(s) == s.to # {} /\ s.frame.type \in Own /\ s.frame.dst # BROADCAST

\* An ACK that n hears is taken for one of its request, which it does not repeat
\* before it has timed out, or of nothing in service.
ControlSide(s) ==
    \/ /\ s.currentPacket.type \in {"ASSOCIATE", "GTS_REQUEST"}
       /\ Running(s, "ACK_TIMEOUT")
       /\ Running(s, "PERFORM_CCA") => s.associated /\ s.macState \in {"GTS", "SLEEP"}
    \/ s.currentPacket = NoFrame /\ ~s.associated

\* A request that n sends is still in service, or nothing is.
Speaks(n, s) ==
    n # Hub /\ ~s.disabled /\ Unicast(s) /\ s.frame.type # "DATA" => ControlSide(s)

\* m's ACK of number x is on its way to n, and n's packet of that number passed up.
Acks(s, n, x) == s.frame.type = "ACK" /\ n \in s.to /\ s.frame.sn = x
Passes(m, n, x) ==
    x + 1 \in DOMAIN sent[n] /\ sent[n][x + 1] = m /\ <<n, x + 1>> \in Passed(m)

\* The answer to a request has the number of that of the first packet, which the
\* device does not have in service yet, or has no more.
First(p) == p.type = "DATA" /\ p.sn = 1
Past(q, s) ==
    q # <<>> /\ ~First(s.currentPacket) /\ \A i \in DOMAIN s.TXBuffer : ~First(s.TXBuffer[i])

Answered(m, n, x) ==
    /\ n # Hub
    /\ mac[n].disabled \/ (m = Hub /\ x = 0 /\ (ControlSide(mac[n]) \/ Past(sent[n], mac[n])))

AllSided ==
    \A n \in Node :
        /\ Speaks(n, mac[n])
        /\ \A m \in Node, x \in Nat : Acks(mac[m], n, x) => Passes(m, n, x) \/ Answered(m, n, x)

\* What has been passed up stays so, and the first packet does not come back.
Growing ==
    /\ \A m, n \in Node, x \in Nat : Passes(m, n, x) => Passes(m, n, x)'
    /\ \A n \in Node : Past(sent[n], mac[n]) => Past(sent'[n], mac'[n])

\* The packets flow on,
LEMMA PastFlows ==
    ASSUME NEW s \in NodeState, NEW t, Flows(s, t), NEW q, Past(q, s)
    PROVE  Past(q, t)
<1> DEFINE b == s.TXBuffer
           e == t.TXBuffer
<1>1. CASE e = b /\ (t.currentPacket = s.currentPacket \/ t.currentPacket.type # "DATA")
  BY <1>1 DEF Past, First
<1>2. CASE b # <<>> /\ e = Tail(b) /\ t.currentPacket = Head(b)
  <2>1. b \in Seq(AnyFrame)
    BY DEF NodeState
  <2>2. /\ 1 \in DOMAIN b /\ Head(b) = b[1]
        /\ \A i \in DOMAIN e : i + 1 \in DOMAIN b /\ e[i] = b[i + 1]
    <3> HIDE DEF b, e
    <3>1. b # <<>> /\ e = Tail(b)
      BY <1>2
    <3> QED
      BY <2>1, <3>1
  <2>3. q # <<>> /\ \A i \in DOMAIN b : ~First(b[i])
    BY DEF Past
  <2>4. ~First(t.currentPacket) /\ \A i \in DOMAIN e : ~First(e[i])
    BY <1>2, <2>2, <2>3
  <2> QED
    BY <2>3, <2>4 DEF Past
<1> QED
  BY <1>1, <1>2 DEF Flows

\* and a new one is not the first of all.
LEMMA PastAccepts ==
    ASSUME NEW n, NEW s \in NodeState, NEW q \in Seq(Address), NEW dst \in Address, Past(q, s),
           NEW p \in AnyFrame, p.sn = Len(q) + 1, NEW t, Accepts(n, s, p, t)
    PROVE  Past(Append(q, dst), t)
<1> DEFINE b == s.TXBuffer
<1>1. ~First(p) /\ Append(q, dst) # <<>>
  <2>1. q # <<>> /\ Len(q) \in Nat
    BY DEF Past
  <2>2. Len(q) # 0
    BY <2>1
  <2>3. p.sn # 1
    BY <2>1, <2>2
  <2> QED
    BY <2>3 DEF First
<1>2. t.currentPacket \in {p, s.currentPacket} /\ t.TXBuffer \in {b, Append(b, p)}
  BY DEF Accepts
<1>3. b \in Seq(AnyFrame) /\ \A i \in DOMAIN b : ~First(b[i])
  BY DEF NodeState, Past
<1> HIDE DEF b
<1>4. \A i \in DOMAIN Append(b, p) : Append(b, p)[i] = p \/ (i \in DOMAIN b /\ Append(b, p)[i] = b[i])
  BY <1>3
<1>5. \A i \in DOMAIN t.TXBuffer : ~First(t.TXBuffer[i])
  BY <1>1, <1>2, <1>3, <1>4
<1> QED
  BY <1>1, <1>2, <1>5 DEF Past

\* So it is in every step.
LEMMA StepGrows ==
    ASSUME IInv, AllLocal, AllOrdered, Next
    PROVE  Growing
<1>1. Setting /\ NodesOK /\ sent \in [Node -> Seq(Address)]
  BY SettingOK DEF IInv
<1>2. ASSUME AllFlow, sent' = sent, \A a \in Node : Passed(a) \subseteq Passed(a)'
      PROVE  Growing
  <2>1. ASSUME NEW a \in Node, NEW b \in Node, NEW x \in Nat, Passes(a, b, x)
        PROVE  Passes(a, b, x)'
    BY <1>2, <2>1 DEF Passes
  <2>2. ASSUME NEW n \in Node, Past(sent[n], mac[n])
        PROVE  Past(sent'[n], mac'[n])
    <3>1. mac[n] \in NodeState /\ Flows(mac[n], mac'[n]) /\ sent'[n] = sent[n]
      BY <1>1, <1>2 DEF NodesOK, AllFlow
    <3> QED
      BY <2>2, <3>1, PastFlows
  <2> QED
    BY <2>1, <2>2 DEF Growing
<1>3. ASSUME NEW n \in Node, NEW dst \in Address, FromNetworkLayer(n, dst)
      PROVE  Growing
  <2> DEFINE p == Frame("DATA", dst, Len(sent[n]) + 1, 0)
  <2>1. PICK t : Alone(n, t) /\ Accepts(n, mac[n], p, t)
    BY <1>1, <1>3, PacketAccepted
  <2>2. \A k \in Node : sent'[k] = IF k = n THEN Append(sent[n], dst) ELSE sent[k]
    BY <1>1, <1>3 DEF FromNetworkLayer
  <2>3. ASSUME NEW a \in Node, NEW b \in Node, NEW x \in Nat, Passes(a, b, x)
        PROVE  Passes(a, b, x)'
    <3>1. x + 1 \in DOMAIN sent[b] /\ sent[b][x + 1] = a /\ <<b, x + 1>> \in Passed(a)
      BY <2>3 DEF Passes
    <3> DEFINE r == sent[b]
    <3>2. r \in Seq(Address)
      BY <1>1
    <3>3. sent'[b] = IF b = n THEN Append(r, dst) ELSE r
      BY <2>2
    <3>4. x + 1 \in DOMAIN r /\ r[x + 1] = a
      BY <3>1
    <3> HIDE DEF r
    <3>5. x + 1 \in DOMAIN sent'[b] /\ sent'[b][x + 1] = a
      BY <3>2, <3>3, <3>4
    <3>6. <<b, x + 1>> \in Passed(a)'
      BY <1>3, <3>1 DEF FromNetworkLayer, Passed
    <3> QED
      BY <3>5, <3>6 DEF Passes
  <2>4. ASSUME NEW k \in Node, Past(sent[k], mac[k])
        PROVE  Past(sent'[k], mac'[k])
    <3>1. CASE k # n
      BY <2>1, <2>2, <2>4, <3>1 DEF Alone
    <3>2. CASE k = n
      <4>1. p.sn = Len(sent[n]) + 1 /\ mac[n] \in NodeState /\ sent[n] \in Seq(Address)
        BY <1>1 DEF Frame, NodesOK
      <4>2. p \in AnyFrame
        BY <1>1, <4>1 DEF AnyFrame, Frame, FrameType, Setting
      <4> HIDE DEF p
      <4>3. Past(Append(sent[n], dst), t)
        BY <2>1, <2>4, <3>2, <4>1, <4>2, PastAccepts
      <4> QED
        BY <2>1, <2>2, <3>2, <4>3 DEF Alone
    <3> QED
      BY <3>1, <3>2
  <2> QED
    BY <2>3, <2>4 DEF Growing
<1>4. ASSUME NEW n \in Node, NEW x \in par.traffic, FromNetworkLayer(n, x[2]) PROVE Growing
  <2>1. x[2] \in Address
    BY <1>1 DEF Setting
  <2>2. PICK dst \in Address : dst = x[2]
    BY <2>1
  <2> QED
    BY <1>3, <1>4, <2>2
<1>5. Tick \/ HubFrameStart => UNCHANGED <<sent, delivered>>
  BY DEF Tick, HubFrameStart
<1>6. ASSUME NEW n \in Node, Timers(n) PROVE UNCHANGED <<sent, delivered>>
  BY <1>6 DEF Timers, FrameStart, GtsStart, BeaconTimeout, AckTimeout, AttemptTx, SleepStart,
              BackToSetup, CcaInVain, CcaNotValid, CcaClear, CcaBusy
<1>7. ASSUME NEW n \in Node,
             Disable(n) \/ ReceiveBeacon(n) \/ ReceiveAssociate(n) \/ ReceiveGtsRequest(n)
      PROVE  UNCHANGED <<sent, delivered>>
  BY <1>7 DEF Disable, ReceiveBeacon, ReceiveAssociate, ReceiveGtsRequest
<1>8. ASSUME NEW n \in Node, NEW m \in Node, Receive(m, n) \/ Lose(m, n)
      PROVE  UNCHANGED <<sent, delivered>> \/ ReceiveData(m, n)
  BY <1>8 DEF Receive, ReceiveAck, Lose
<1>9. UNCHANGED <<sent, delivered>> => sent' = sent /\ \A a \in Node : Passed(a) \subseteq Passed(a)'
  BY DEF Passed
<1>10. ASSUME NEW n \in Node, NEW m \in Node, ReceiveData(m, n)
       PROVE  sent' = sent /\ \A a \in Node : Passed(a) \subseteq Passed(a)'
  BY <1>10, DataFacts
<1>11. \/ sent' = sent /\ \A a \in Node : Passed(a) \subseteq Passed(a)'
       \/ \E n \in Node, x \in par.traffic : FromNetworkLayer(n, x[2])
  BY <1>5, <1>6, <1>7, <1>8, <1>9, <1>10 DEF Next
<1> QED
  BY <1>2, <1>4, <1>11, StepFlows

\* When n has heard of a packet of its own that was passed up, its first is past.
LEMMA PassedPast ==
    ASSUME IInv, AllOrdered, NEW m \in Node, NEW n \in Node, NEW x \in Nat, Passes(m, n, x),
           ~First(mac[n].currentPacket)
    PROVE  Past(sent[n], mac[n])
<1> DEFINE s == mac[n]
           h == pktHistory[m][n]
<1>1. x + 1 \in DOMAIN sent[n] /\ <<n, x + 1>> \in Passed(m) /\ x + 1 \in Nat
  BY DEF Passes
<1>2. h \in Nat /\ History(m, n) /\ Seen(s, h) /\ s \in NodeState
  BY DEF IInv, NodesOK, AllOrdered
<1>3. x + 1 <= h
  BY <1>1, <1>2 DEF History
<1>4. sent[n] # <<>>
  BY <1>1
<1> HIDE DEF h
<1>5. ASSUME NEW i \in DOMAIN s.TXBuffer PROVE ~First(s.TXBuffer[i])
  <2>1. s.TXBuffer[i].sn \in Int
    BY <1>2, Numbered DEF NodeState
  <2>2. h < s.TXBuffer[i].sn
    BY <1>2 DEF Seen
  <2> QED
    BY <1>2, <1>3, <2>1, <2>2 DEF First
<1> QED
  BY <1>4, <1>5 DEF Past

\* A coordinator, h and then t, that neither begins a superframe nor lets time pass.
Calm(h, t) ==
    /\ t.frame.type = "BEACON" /\ t.to # {} => t.frame = h.frame /\ t.to \subseteq h.to
    /\ ~t.disabled => ~h.disabled /\ t.timers["FRAME_START"] = h.timers["FRAME_START"]

\* A receiver less leaves the sender on the same side.
LEMMA LosesSides ==
    ASSUME NEW n, NEW s, NEW t, Loses(n, s, t), NEW m
    PROVE  /\ Calm(s, t) /\ t.disabled = s.disabled
           /\ ControlSide(s) => ControlSide(t)
           /\ Speaks(m, s) => Speaks(m, t)
           /\ \A k, x : Acks(t, k, x) => Acks(s, k, x) /\ k # n
<1>1. /\ t.macState = s.macState /\ t.associated = s.associated /\ t.disabled = s.disabled
      /\ t.currentPacket = s.currentPacket /\ t.timers = s.timers /\ t.to = s.to \ {n}
      /\ n \in s.to
      /\ t.frame = IF s.to = {n} THEN NoFrame ELSE s.frame
  BY DEF Loses, SameOwn, SamePackets
<1>2. t.to # {} => t.frame = s.frame /\ s.to # {}
  BY <1>1
<1>3. Calm(s, t)
  BY <1>1, <1>2 DEF Calm
<1>4. ControlSide(s) => ControlSide(t)
  BY <1>1 DEF ControlSide, Running
<1>5. Unicast(t) => Unicast(s) /\ t.frame = s.frame
  BY <1>2 DEF Unicast
<1>6. Speaks(m, s) => Speaks(m, t)
  BY <1>1, <1>4, <1>5 DEF Speaks
<1>7. \A k, x : Acks(t, k, x) => Acks(s, k, x) /\ k # n
  BY <1>1, <1>2 DEF Acks
<1> QED
  BY <1>1, <1>3, <1>4, <1>6, <1>7

\* A step of n alone that begins no ACK.
LEMMA SidedAlone ==
    ASSUME AllSided, Growing, NEW n \in Node, NEW t, Alone(n, t), Speaks(n, t),
           \A k, x : Acks(t, k, x) => Acks(mac[n], k, x),
           n # Hub /\ ~t.disabled =>
             /\ ~mac[n].disabled
             /\ \A x \in Nat : Acks(mac[Hub], n, x) => (ControlSide(mac[n]) => ControlSide(t))
    PROVE  AllSided'
<1>1. ASSUME NEW k \in Node
      PROVE  Speaks(k, mac'[k])
  BY DEF Alone, AllSided
<1>2. ASSUME NEW k \in Node, NEW m \in Node, NEW x \in Nat, Acks(mac'[m], k, x)
      PROVE  Passes(m, k, x)' \/ Answered(m, k, x)'
  <2>1. Acks(mac[m], k, x)
    BY <1>2 DEF Alone
  <2>2. Passes(m, k, x) \/ Answered(m, k, x)
    BY <2>1 DEF AllSided
  <2>3. /\ Passes(m, k, x) => Passes(m, k, x)'
        /\ Past(sent[k], mac[k]) => Past(sent'[k], mac'[k])
    BY DEF Growing
  <2>4. CASE k = n
    <3>1. mac'[k] = t
      BY <2>4 DEF Alone
    <3>2. k # Hub /\ m = Hub /\ ~t.disabled => (ControlSide(mac[k]) => ControlSide(t))
      BY <2>1, <2>4
    <3> QED
      BY <2>2, <2>3, <2>4, <3>1, <3>2 DEF Answered
  <2>5. CASE k # n
    <3>1. mac'[k] = mac[k]
      BY <2>5 DEF Alone
    <3> QED
      BY <2>2, <2>3, <3>1 DEF Answered
  <2> QED
    BY <2>4, <2>5
<1> QED
  BY <1>1, <1>2 DEF AllSided

\* A frame of m that n takes, who may begin an ACK.
LEMMA SidedExchange ==
    ASSUME Setting, NodesOK, AllSided, Growing, NEW m \in Node, NEW n \in Node, NEW t, Handover(m, n, t),
           Speaks(n, t), ~mac[n].disabled,
           \A k \in Node, x \in Nat : Acks(t, k, x) =>
             /\ k # n
             /\ \/ Passes(n, k, x)'
                \/ k # Hub /\ (mac[k].disabled \/ (n = Hub /\ x = 0 /\ ControlSide(mac[k]))),
           n # Hub /\ m # Hub => \A x \in Nat : Acks(mac[Hub], n, x) =>
             (ControlSide(mac[n]) => ControlSide(t) \/ Past(sent'[n], mac'[n]))
    PROVE  AllSided'
<1> DEFINE u == Taken(mac[m], n)
<1>1. Loses(n, mac[m], u)
  BY TakenLoses DEF Handover
<1>2. /\ m # n /\ mac'[n] = t /\ mac'[m] = u /\ \A k \in Node \ {m, n} : mac'[k] = mac[k]
  BY DEF Handover
<1> HIDE DEF u
<1>3. /\ u.disabled = mac[m].disabled
      /\ ControlSide(mac[m]) => ControlSide(u)
      /\ Speaks(m, mac[m]) => Speaks(m, u)
      /\ \A k, x : Acks(u, k, x) => Acks(mac[m], k, x) /\ k # n
  BY <1>1, LosesSides
<1>4. ASSUME NEW k \in Node
      PROVE  Speaks(k, mac'[k])
  BY <1>2, <1>3 DEF AllSided
<1>5. ASSUME NEW k \in Node, NEW j \in Node, NEW x \in Nat, Acks(mac'[j], k, x)
      PROVE  Passes(j, k, x)' \/ Answered(j, k, x)'
  <2>1. /\ Passes(j, k, x) => Passes(j, k, x)'
        /\ Past(sent[k], mac[k]) => Past(sent'[k], mac'[k])
    BY DEF Growing
  <2>2. k # n => /\ mac'[k].disabled = mac[k].disabled
                 /\ ControlSide(mac[k]) => ControlSide(mac'[k])
    BY <1>2, <1>3
  <2>3. CASE j # n
    <3>1. Acks(mac[j], k, x) /\ (j = m => k # n)
      BY <1>2, <1>3, <1>5, <2>3
    <3>2. Passes(j, k, x) \/ Answered(j, k, x)
      BY <3>1 DEF AllSided
    <3>3. CASE k # n
      BY <2>1, <2>2, <3>2, <3>3 DEF Answered
    <3>4. CASE k = n
      <4>1. k # Hub /\ j = Hub => (ControlSide(mac[k]) => ControlSide(t) \/ Past(sent'[k], mac'[k]))
        BY <3>1, <3>4
      <4> QED
        BY <1>2, <2>1, <3>2, <3>4, <4>1 DEF Answered
    <3> QED
      BY <3>3, <3>4
  <2>4. CASE j = n
    <3>1. Acks(t, k, x)
      BY <1>2, <1>5, <2>4
    <3>2. /\ k # n
          /\ \/ Passes(n, k, x)'
             \/ k # Hub /\ (mac[k].disabled \/ (n = Hub /\ x = 0 /\ ControlSide(mac[k])))
      BY <3>1
    <3> QED
      BY <2>2, <2>4, <3>2 DEF Answered
  <2> QED
    BY <2>3, <2>4
<1> QED
  BY <1>4, <1>5 DEF AllSided

\* A coordinator that stays as it is.
LEMMA CalmSelf ==
    ASSUME NEW h
    PROVE  Calm(h, h)
BY DEF Calm

\* The coordinator is calm when it does nothing,
LEMMA CalmOther ==
    ASSUME Setting, NEW n \in Node, NEW t, Alone(n, t), n = Hub => Calm(mac[Hub], t)
    PROVE  Calm(mac[Hub], mac'[Hub])
BY CalmSelf DEF Alone, Setting

\* and while frames are taken.
LEMMA CalmExchange ==
    ASSUME Setting, NodesOK, NEW m \in Node, NEW n \in Node, NEW t, Handover(m, n, t),
           n = Hub => Calm(mac[Hub], t)
    PROVE  Calm(mac[Hub], mac'[Hub])
<1>1. Loses(n, mac[m], Taken(mac[m], n))
  BY TakenLoses DEF Handover
<1>2. Calm(mac[m], Taken(mac[m], n))
  BY <1>1, LosesSides
<1> QED
  BY <1>2, CalmSelf DEF Handover, Setting

\* Time and the superframe's timers change no side,
LEMMA StillSides ==
    ASSUME NEW n, NEW s, NEW t, Still(n, s, t)
    PROVE  /\ n = Hub => Calm(s, t)
           /\ t.disabled = s.disabled /\ \A k, x : Acks(t, k, x) => Acks(s, k, x)
           /\ Speaks(n, s) => Speaks(n, t)
           /\ ControlSide(s) => ControlSide(t)
<1>1. /\ t.frame = s.frame /\ t.to = s.to /\ t.currentPacket = s.currentPacket
      /\ t.disabled = s.disabled /\ t.associated = s.associated
      /\ t.timers["ACK_TIMEOUT"] = s.timers["ACK_TIMEOUT"]
  BY DEF Still, SameQueue
<1>2. /\ n = Hub => t.timers["FRAME_START"] = s.timers["FRAME_START"]
      /\ Running(t, "PERFORM_CCA") => Running(s, "PERFORM_CCA")
      /\ t.macState \in {s.macState, "GTS", "SLEEP"} \/ ~s.associated
  BY DEF Still
<1>3. ControlSide(s) => ControlSide(t)
  BY <1>1, <1>2 DEF ControlSide, Running
<1>4. Speaks(n, s) => Speaks(n, t)
  BY <1>1, <1>3 DEF Speaks, Unicast
<1> QED
  BY <1>1, <1>2, <1>3, <1>4 DEF Calm, Acks

\* What the helpers send is a packet in service, and no ACK.
LEMMA MovesSpeaks ==
    ASSUME NEW n \in Node, NEW s, NEW t, Moves(n, s, t), s.to = {}, Serves(t),
           t.macState = "GTS" => t.associated
    PROVE  /\ Speaks(n, t) /\ \A k, x : ~Acks(t, k, x)
           /\ t.disabled = s.disabled /\ t.associated = s.associated
           /\ Calm(s, t)
<1>1. /\ t.disabled = s.disabled /\ t.associated = s.associated
      /\ t.timers["FRAME_START"] = s.timers["FRAME_START"]
  BY DEF Moves, SameOwn
<1>2. CASE Holds(s, t)
  <2>1. t.to = {}
    BY <1>2 DEF Holds
  <2> QED
    BY <1>1, <2>1 DEF Speaks, Unicast, Acks, Calm
<1>3. CASE Sends(n, s, t)
  <2>1. /\ t.currentPacket # NoFrame /\ t.frame = t.currentPacket
        /\ t.frame.dst # BROADCAST => t.timers["ACK_TIMEOUT"] \in Exchange
        /\ Running(t, "PERFORM_CCA") => t.macState = "GTS"
    BY <1>3 DEF Sends
  <2>2. t.frame.type \in Own
    BY <2>1 DEF Serves
  <2>3. (\A k, x : ~Acks(t, k, x)) /\ Calm(s, t)
    BY <1>1, <2>2 DEF Acks, Own, Calm
  <2>4. ASSUME Unicast(t), t.frame.type # "DATA"
        PROVE  ControlSide(t)
    <3>1. Running(t, "ACK_TIMEOUT")
      BY <2>1, <2>4 DEF Unicast, Exchange, Running, Off
    <3> QED
      BY <2>1, <2>2, <2>4, <3>1 DEF ControlSide, Own
  <2> QED
    BY <1>1, <2>3, <2>4 DEF Speaks
<1> QED
  BY <1>2, <1>3 DEF Moves

\* An attempt of a node that waits for no ACK on its way.
LEMMA TriesSides ==
    ASSUME NEW n \in Node, NEW s \in NodeState, Buffers(s), Serves(s),
           s.macState = "GTS" => s.associated, NEW t, Tries(n, s, t)
    PROVE  /\ Speaks(n, t) /\ \A k, x : ~Acks(t, k, x)
           /\ t.disabled = s.disabled /\ Calm(s, t)
           /\ (\/ ~Running(s, "ACK_TIMEOUT")
               \/ Running(s, "PERFORM_CCA") /\ s.macState \notin {"GTS", "SLEEP"})
              => (ControlSide(s) => ControlSide(t))
<1>1. /\ s.to = {} /\ Moves(n, s, t)
      /\ SameQueue(s, t) \/ (s.currentPacket # NoFrame /\ Follows(s, t))
  BY DEF Tries
<1>2. Serves(t)
  <2>1. CASE SameQueue(s, t)
    BY <2>1 DEF SameQueue, Serves
  <2>2. CASE Follows(s, t)
    BY <2>2, FollowsWhat DEF Serves, Own
  <2> QED
    BY <1>1, <2>1, <2>2
<1>3. t.associated = s.associated /\ (t.macState = "GTS" => t.associated)
  BY <1>1 DEF Moves, SameOwn
<1>4. /\ Speaks(n, t) /\ (\A k, x : ~Acks(t, k, x))
      /\ t.disabled = s.disabled /\ Calm(s, t)
  BY <1>1, <1>2, <1>3, MovesSpeaks
<1>5. (\/ ~Running(s, "ACK_TIMEOUT")
       \/ Running(s, "PERFORM_CCA") /\ s.macState \notin {"GTS", "SLEEP"})
      => (ControlSide(s) => s.currentPacket = NoFrame /\ ~s.associated)
  BY DEF ControlSide
<1>6. s.currentPacket = NoFrame /\ ~s.associated => ControlSide(t)
  BY <1>1, <1>3 DEF SameQueue, ControlSide
<1> QED
  BY <1>4, <1>5, <1>6

\* What is known of a node that goes on with its packet.
LEMMA SideFacts ==
    ASSUME IInv, AllOwed, AllLocal, NEW n \in Node
    PROVE  /\ mac[n] \in NodeState /\ Buffers(mac[n]) /\ Serves(mac[n]) /\ Asks(n, mac[n])
           /\ mac[n].currentPacket.type = "DATA" => mac[n].associated
           /\ mac[n].macState = "GTS" => mac[n].associated
<1>1. NodesOK /\ NodeOK(n, mac[n])
  BY DEF IInv, NodesOK
<1>2. mac[n].currentPacket.type = "DATA" => mac[n].associated
  BY DEF AllOwed, Owed
<1>3. mac[n].macState = "GTS" => mac[n].associated
  BY <1>1 DEF NodeOK, Leads, Member
<1>4. Asks(n, mac[n])
  BY DEF AllLocal, Local
<1> QED
  BY <1>1, <1>2, <1>3, <1>4, NodeFacts DEF Serves, Own

\* The timers of a node,
LEMMA SidedTimers ==
    ASSUME IInv, AllOwed, AllLocal, AllSided, Growing, NEW n \in Node, Timers(n)
    PROVE  AllSided'
<1> DEFINE s == mac[n]
<1>1. Setting /\ NodesOK
  BY SettingOK DEF IInv
<1>2. Speaks(n, s)
  BY DEF AllSided
<1>3. CASE Keeps(n)
  <2>1. PICK t : Alone(n, t) /\ Still(n, s, t)
    BY <1>3 DEF Keeps
  <2> HIDE DEF s
  <2>2. /\ t.disabled = s.disabled /\ (\A k, x : Acks(t, k, x) => Acks(s, k, x))
        /\ Speaks(n, t)
        /\ ControlSide(s) => ControlSide(t)
    BY <1>2, <2>1, StillSides
  <2> QED
    BY <2>1, <2>2, SidedAlone DEF s
<1>4. CASE Attempting(n)
  <2>1. PICK t : Alone(n, t) /\ Tries(n, s, t) /\ Unanswered(n)
    BY <1>4 DEF Attempting
  <2>2. \/ \A m \in Node : \A x : ~Acks(mac[m], n, x)
        \/ ~Running(s, "ACK_TIMEOUT")
        \/ Running(s, "PERFORM_CCA") /\ s.macState \notin {"GTS", "SLEEP"}
    BY <2>1 DEF Unanswered, Acks, Assesses
  <2>3. /\ s \in NodeState /\ Buffers(s) /\ Serves(s)
        /\ s.macState = "GTS" => s.associated
    BY SideFacts
  <2> HIDE DEF s
  <2>4. /\ Speaks(n, t) /\ (\A k, x : ~Acks(t, k, x))
        /\ t.disabled = s.disabled
        /\ (\/ ~Running(s, "ACK_TIMEOUT")
            \/ Running(s, "PERFORM_CCA") /\ s.macState \notin {"GTS", "SLEEP"})
           => (ControlSide(s) => ControlSide(t))
    BY <2>1, <2>3, TriesSides
  <2>5. n # Hub /\ ~t.disabled =>
          /\ ~s.disabled
          /\ \A x \in Nat : Acks(mac[Hub], n, x) => (ControlSide(s) => ControlSide(t))
    BY <1>1, <2>2, <2>4 DEF Setting
  <2> QED
    BY <2>1, <2>4, <2>5, SidedAlone DEF s
<1>5. CASE Quits(n)
  <2>1. PICK t : Alone(n, t) /\ Leaves(n, s, t) /\ ~s.disabled
    BY <1>5 DEF Quits
  <2> HIDE DEF s
  <2>2. /\ t.currentPacket = NoFrame /\ ~t.associated
        /\ t.frame = s.frame /\ t.to = s.to
    BY <2>1 DEF Leaves
  <2>3. ControlSide(t) /\ \A k, x : Acks(t, k, x) => Acks(s, k, x)
    BY <2>2 DEF ControlSide, Acks
  <2> QED
    BY <2>1, <2>3, SidedAlone DEF s, Speaks
<1> QED
  BY <1>1, <1>3, <1>4, <1>5, TimersKinds

\* death and losses,
LEMMA SidedLess ==
    ASSUME IInv, AllSided, Growing, NEW n \in Node,
           Disable(n) \/ \E m \in Node : Lose(n, m)
    PROVE  AllSided'
<1> DEFINE s == mac[n]
<1>1. Setting /\ NodesOK
  BY SettingOK DEF IInv
<1>2. Speaks(n, s)
  BY DEF AllSided
<1>3. CASE Disable(n)
  <2>1. PICK t : Alone(n, t) /\ Dies(s, t)
    BY <1>1, <1>3, DisableDies
  <2> HIDE DEF s
  <2>2. t.disabled /\ t.frame = s.frame /\ t.to = s.to
    BY <2>1 DEF Dies, SameRadio
  <2>3. Speaks(n, t) /\ (\A k, x : Acks(t, k, x) => Acks(s, k, x))
    BY <2>2 DEF Speaks, Acks
  <2> QED
    BY <2>1, <2>2, <2>3, SidedAlone DEF s
<1>4. ASSUME NEW m \in Node, Lose(n, m) PROVE AllSided'
  <2>1. PICK t : Alone(n, t) /\ Loses(m, s, t)
    BY <1>1, <1>4, LoseAlone
  <2> HIDE DEF s
  <2>2. /\ t.disabled = s.disabled
        /\ ControlSide(s) => ControlSide(t)
        /\ Speaks(n, t) /\ \A k, x : Acks(t, k, x) => Acks(s, k, x)
    BY <1>2, <2>1, LosesSides
  <2> QED
    BY <2>1, <2>2, SidedAlone DEF s
<1> QED
  BY <1>3, <1>4

\* a beacon,
LEMMA SidedBeacon ==
    ASSUME IInv, AllSided, Growing, NEW n \in Node, ReceiveBeacon(n)
    PROVE  AllSided'
<1>1. Setting /\ NodesOK /\ ListOK /\ Hub \in Node
  BY SettingOK DEF IInv, Setting
<1>2. PICK t : Handover(Hub, n, t) /\ Hears(n, mac[n], t)
  BY <1>1, BeaconHeard
<1>3. t.to = {} /\ ~mac[n].disabled
  BY <1>2 DEF Hears
<1>4. Speaks(n, t) /\ \A k, x : ~Acks(t, k, x)
  BY <1>3 DEF Speaks, Unicast, Acks
<1> QED
  BY <1>1, <1>2, <1>3, <1>4, SidedExchange

\* Who answers stays on his side.
LEMMA AnswersSides ==
    ASSUME NEW n, NEW m, NEW s, NEW f, NEW t, Answers(m, s, f, t)
    PROVE  /\ Calm(s, t) /\ Speaks(n, t)
           /\ ControlSide(s) => ControlSide(t)
           /\ \A k, x : Acks(t, k, x) => k = m /\ f.sn = x
<1>1. /\ t.disabled = s.disabled /\ t.associated = s.associated /\ t.macState = s.macState
      /\ t.currentPacket = s.currentPacket /\ t.frame = f /\ t.to = {m} /\ f.type = "ACK"
      /\ t.timers["FRAME_START"] = s.timers["FRAME_START"]
      /\ t.timers["ACK_TIMEOUT"] = s.timers["ACK_TIMEOUT"]
      /\ t.timers["PERFORM_CCA"] = s.timers["PERFORM_CCA"]
  BY DEF Answers, SameOwn, SameQueue, Timer
<1>2. ControlSide(s) => ControlSide(t)
  BY <1>1 DEF ControlSide, Running
<1>3. Calm(s, t) /\ Speaks(n, t)
  BY <1>1 DEF Calm, Speaks, Unicast, Own
<1> QED
  BY <1>1, <1>2, <1>3 DEF Acks

\* the coordinator's answer to a request,
LEMMA SidedRequest ==
    ASSUME IInv, AllLocal, AllSided, Growing, NEW m \in Node,
           mac[m].frame.type \in {"ASSOCIATE", "GTS_REQUEST"},
           NEW f, f.sn = 0, NEW t, Handover(m, Hub, t), Answers(m, mac[Hub], f, t)
    PROVE  AllSided'
<1> DEFINE s == mac[m]
<1>1. Setting /\ NodesOK /\ Hub \in Node /\ BROADCAST \notin Node
  BY SettingOK DEF IInv, Setting
<1>2. m # Hub /\ Hub \in s.to /\ Speaks(m, s) /\ OnAir(s)
  BY DEF Handover, AllSided, AllLocal, Local
<1>3. s.frame.type \in {"ASSOCIATE", "GTS_REQUEST"}
  OBVIOUS
<1> HIDE DEF s
<1>4. s.disabled \/ ControlSide(s)
  <2>1. Unicast(s) /\ s.frame.type # "DATA"
    BY <1>1, <1>2, <1>3 DEF OnAir, Asked, Unicast, Own
  <2> QED
    BY <1>2, <2>1 DEF Speaks
<1>5. Speaks(Hub, t) /\ \A k, x : Acks(t, k, x) => k = m /\ x = 0
  BY AnswersSides
<1>6. ~mac[Hub].disabled
  BY DEF Answers
<1> QED
  BY <1>1, <1>2, <1>4, <1>5, <1>6, SidedExchange DEF s

\* data, which is passed up when the ACK is sent,
LEMMA SidedData ==
    ASSUME IInv, AllLocal, AllOrdered, AllSided, Growing, NEW m \in Node, NEW n \in Node,
           ReceiveData(m, n)
    PROVE  AllSided'
<1> DEFINE s == mac[n]
           f == mac[m].frame
<1>1. Setting /\ NodesOK
  BY SettingOK DEF IInv
<1>2. /\ f.sn \in Nat /\ f.sn > 0 /\ f.dst \in {n, BROADCAST}
      /\ Given(sent[m], f) /\ sent' = sent
      /\ \A a \in Node :
           Passed(a)' = IF a = n THEN Passed(n) \cup {<<m, f.sn>>} ELSE Passed(a)
  BY DataFacts
<1>3. m # n /\ s.to = {} /\ ~s.disabled
  BY <1>1, ArrivesAt DEF ReceiveData
<1>4. CASE Handover(m, n, s)
  <2>1. \A k, x : ~Acks(s, k, x)
    BY <1>3 DEF Acks
  <2>2. Speaks(n, s)
    BY DEF AllSided
  <2> QED
    BY <1>1, <1>3, <1>4, <2>1, <2>2, SidedExchange
<1>5. CASE f.dst # BROADCAST /\ \E t : Handover(m, n, t)
                                  /\ Answers(m, s, Frame("ACK", m, f.sn - 1, 0), t)
  <2> DEFINE g == Frame("ACK", m, f.sn - 1, 0)
  <2>1. PICK t : Handover(m, n, t) /\ Answers(m, s, g, t)
    BY <1>5
  <2>2. ASSUME NEW x \in Nat, x = f.sn - 1 PROVE Passes(n, m, x)'
    <3>1. f.sn \in DOMAIN sent'[m] /\ sent'[m][f.sn] = n /\ <<m, f.sn>> \in Passed(n)'
      BY <1>2, <1>5 DEF Given
    <3>2. x + 1 = f.sn
      BY <1>2, <2>2
    <3> QED
      BY <3>1, <3>2 DEF Passes
  <2>3. g.sn = f.sn - 1
    BY DEF Frame
  <2> HIDE DEF g, s
  <2>4. /\ Speaks(n, t)
        /\ ControlSide(s) => ControlSide(t)
        /\ \A k, x : Acks(t, k, x) => k = m /\ g.sn = x
    BY <2>1, AnswersSides
  <2>5. \A k \in Node, x \in Nat : Acks(t, k, x) => k # n /\ Passes(n, k, x)'
    BY <1>3, <2>2, <2>3, <2>4
  <2> QED
    BY <1>1, <1>3, <2>1, <2>4, <2>5, SidedExchange DEF s
<1> QED
  BY <1>1, <1>4, <1>5, DataAnswered

\* An ACK for what is in service, and what comes next.
LEMMA LearnsSides ==
    ASSUME NEW n \in Node, NEW s \in NodeState, Buffers(s), Serves(s),
           s.macState = "GTS" => s.associated,
           s.currentPacket # NoFrame, NEW f, NEW t, Learns(n, s, f, t)
    PROVE  Speaks(n, t) /\ (\A k, x : ~Acks(t, k, x)) /\ Calm(s, t)
<1>1. PICK x : /\ Settles(s, x, f) /\ Moves(n, x, t)
               /\ Follows(x, t) \/ (SameQueue(x, t) /\ s.currentPacket.type \notin
                                                        {"ASSOCIATE", "GTS_REQUEST"})
  BY DEF Learns
<1>2. /\ x \in NodeState /\ x.frame = s.frame /\ x.to = s.to /\ s.to = {}
      /\ x.currentPacket = s.currentPacket /\ x.TXBuffer = s.TXBuffer /\ x.disabled = s.disabled
      /\ x.timers["FRAME_START"] = s.timers["FRAME_START"]
  BY <1>1 DEF Settles, SameRadio, SameQueue, Learns, Timer
<1>3. IF s.currentPacket.type = "ASSOCIATE"
      THEN x.associated /\ x.macState = "CAP"
      ELSE x.associated = s.associated /\ x.macState = s.macState
  BY <1>1 DEF Settles
<1>4. t.associated = x.associated /\ t.macState = x.macState
  BY <1>1 DEF Moves, SameOwn
<1>5. Buffers(x) /\ Serves(x)
  BY <1>2 DEF Buffers, Serves
<1>6. Serves(t)
  <2>1. CASE Follows(x, t)
    BY <1>2, <1>5, <2>1, FollowsWhat DEF Serves, Own
  <2>2. CASE SameQueue(x, t)
    BY <1>5, <2>2 DEF SameQueue, Serves
  <2> QED
    BY <1>1, <2>1, <2>2
<1>7. t.macState = "GTS" => t.associated
  BY <1>3, <1>4
<1>8. Speaks(n, t) /\ (\A k, y : ~Acks(t, k, y)) /\ Calm(x, t)
  BY <1>1, <1>2, <1>6, <1>7, MovesSpeaks
<1> QED
  BY <1>2, <1>8 DEF Calm

\* an ACK: one for data says that the first packet has been passed up,
LEMMA SidedAck ==
    ASSUME IInv, AllOwed, AllLocal, AllOrdered, AllSided, Growing, NEW m \in Node, NEW n \in Node,
           ReceiveAck(m, n)
    PROVE  AllSided'
<1> DEFINE s == mac[n]
           f == mac[m].frame
<1>1. Setting /\ NodesOK
  BY SettingOK DEF IInv
<1>2. PICK t : f.type = "ACK" /\ Handover(m, n, t) /\ Learns(n, s, f, t)
  BY <1>1, AckLearned
<1>3. s.to = {} /\ ~s.disabled /\ n \in mac[m].to
  BY <1>2 DEF Learns, Handover
<1>4. CASE s.currentPacket = NoFrame
  <2>1. t = s
    BY <1>2, <1>4 DEF Learns
  <2>2. \A k, x : ~Acks(s, k, x)
    BY <1>3 DEF Acks
  <2>3. Speaks(n, s)
    BY DEF AllSided
  <2> QED
    BY <1>1, <1>2, <1>3, <2>1, <2>2, <2>3, SidedExchange
<1>5. CASE s.currentPacket # NoFrame
  <2>1. /\ s \in NodeState /\ Buffers(s) /\ Serves(s) /\ (s.macState = "GTS" => s.associated)
    BY SideFacts
  <2>2. ASSUME n # Hub, m # Hub, ControlSide(s) PROVE Past(sent'[n], mac'[n])
    <3>1. f.sn \in Nat
      BY <1>1 DEF NodesOK, NodeState, AnyFrame
    <3>2. Acks(mac[m], n, f.sn)
      BY <1>2, <1>3 DEF Acks
    <3>3. Passes(m, n, f.sn)
      BY <1>3, <2>2, <3>1, <3>2 DEF AllSided, Answered
    <3>4. ~First(s.currentPacket)
      BY <1>5, <2>2 DEF ControlSide, First
    <3>5. Past(sent[n], s)
      BY <3>1, <3>3, <3>4, PassedPast
    <3> QED
      BY <3>5 DEF Growing
  <2> HIDE DEF s, f
  <2>3. Speaks(n, t) /\ \A k, x : ~Acks(t, k, x)
    BY <1>2, <1>5, <2>1, LearnsSides
  <2> QED
    BY <1>1, <1>2, <1>3, <2>2, <2>3, SidedExchange DEF s
<1> QED
  BY <1>4, <1>5

\* and a packet handed down.
LEMMA SidedAccepts ==
    ASSUME IInv, AllOwed, AllLocal, AllSided, Growing, NEW n \in Node, NEW dst \in Address,
           FromNetworkLayer(n, dst)
    PROVE  AllSided'
<1> DEFINE s == mac[n]
           p == Frame("DATA", dst, Len(sent[n]) + 1, 0)
<1>1. Setting /\ NodesOK /\ sent \in [Node -> Seq(Address)]
  BY SettingOK DEF IInv
<1>2. PICK t : Alone(n, t) /\ Accepts(n, s, p, t)
  BY <1>1, PacketAccepted
<1>3. /\ s \in NodeState /\ Serves(s) /\ OnAir(s) /\ Speaks(n, s)
      /\ s.macState = "GTS" => s.associated
  BY SideFacts DEF AllLocal, Local, AllSided
<1>4. p.type = "DATA"
  BY DEF Frame
<1> HIDE DEF s, p
<1>5. /\ Moves(n, s, t) /\ ~s.disabled
      /\ \/ /\ s.associated /\ s.currentPacket = NoFrame
            /\ t.currentPacket = p
         \/ /\ ~s.associated \/ s.currentPacket # NoFrame
            /\ t.currentPacket = s.currentPacket
      /\ (Running(s, "ATTEMPT_TX") \/ Running(s, "ACK_TIMEOUT")
            \/ ~s.associated \/ s.currentPacket # NoFrame)
           => SameRadio(s, t) /\ t.timers = s.timers
  BY <1>2 DEF Accepts
<1>6. /\ t.associated = s.associated /\ t.macState = s.macState /\ t.disabled = s.disabled
  BY <1>5 DEF Moves, SameOwn
<1>7. ControlSide(s) => ControlSide(t)
  <2>1. CASE s.associated /\ s.currentPacket = NoFrame
    BY <2>1 DEF ControlSide, NoFrame
  <2>2. CASE ~(s.associated /\ s.currentPacket = NoFrame)
    <3>1. t.currentPacket = s.currentPacket /\ t.timers = s.timers
      BY <1>5, <2>2
    <3> QED
      BY <1>6, <3>1 DEF ControlSide, Running
  <2> QED
    BY <2>1, <2>2
<1>8. Speaks(n, t) /\ (\A k, x : Acks(t, k, x) => Acks(s, k, x))
  <2>1. CASE SameRadio(s, t) /\ t.timers = s.timers
    <3>1. t.frame = s.frame /\ t.to = s.to
      BY <2>1 DEF SameRadio
    <3> QED
      BY <1>3, <1>6, <1>7, <3>1 DEF Speaks, Unicast, Acks
  <2>2. CASE ~(SameRadio(s, t) /\ t.timers = s.timers)
    <3>1. s.to = {} /\ s.currentPacket = NoFrame
      BY <1>3, <1>5, <2>2 DEF OnAir
    <3>2. Serves(t)
      BY <1>4, <1>5, <3>1 DEF Serves, Own
    <3> QED
      BY <1>3, <1>5, <1>6, <3>1, <3>2, MovesSpeaks
  <2> QED
    BY <2>1, <2>2
<1> QED
  BY <1>2, <1>5, <1>6, <1>7, <1>8, SidedAlone DEF s

\* A tick lets everyone wait on,
LEMMA SidedTick ==
    ASSUME IInv, AllSided, Growing, Tick
    PROVE  AllSided'
<1>1. Setting /\ NodesOK
  BY SettingOK DEF IInv
<1>2. ASSUME NEW k \in Node
      PROVE  Ticks(mac[k], mac'[k]) /\ Ranged(mac[k]) /\ mac[k] \in NodeState
  BY <1>1, TickTicks DEF NodesOK, NodeOK
<1>3. ASSUME NEW k \in Node
      PROVE  /\ mac'[k].currentPacket = mac[k].currentPacket
             /\ mac'[k].frame = mac[k].frame /\ mac'[k].to = mac[k].to
             /\ mac'[k].macState = mac[k].macState /\ mac'[k].associated = mac[k].associated
             /\ mac'[k].disabled = mac[k].disabled
  BY <1>2 DEF Ticks, SamePackets, SameRadio
<1>4. ASSUME NEW k \in Node
      PROVE  ControlSide(mac[k]) => ControlSide(mac'[k])
  <2>1. /\ Running(mac'[k], "ACK_TIMEOUT") <=> Running(mac[k], "ACK_TIMEOUT")
        /\ Running(mac'[k], "PERFORM_CCA") <=> Running(mac[k], "PERFORM_CCA")
    BY <1>2, TicksRunning DEF Timer
  <2> QED
    BY <1>3, <2>1 DEF ControlSide
<1>5. ASSUME NEW k \in Node
      PROVE  Speaks(k, mac'[k])
  BY <1>3, <1>4 DEF AllSided, Speaks, Unicast
<1>6. ASSUME NEW k \in Node, NEW m \in Node, NEW x \in Nat, Acks(mac'[m], k, x)
      PROVE  Passes(m, k, x)' \/ Answered(m, k, x)'
  <2>1. Acks(mac[m], k, x)
    BY <1>3, <1>6 DEF Acks
  <2>2. Passes(m, k, x) \/ Answered(m, k, x)
    BY <2>1 DEF AllSided
  <2> QED
    BY <1>3, <1>4, <2>2 DEF Growing, Answered
<1> QED
  BY <1>5, <1>6 DEF AllSided

\* and the coordinator's beacon is no ACK.
LEMMA SidedHub ==
    ASSUME IInv, AllSided, Growing, HubFrameStart
    PROVE  AllSided'
<1>1. Setting /\ NodesOK /\ ListOK /\ Hub \in Node
  BY SettingOK DEF IInv, Setting
<1>2. PICK g : Alone(Hub, g) /\ Announces(mac[Hub], g)
  BY <1>1, HubBegins
<1>3. g.frame.type = "BEACON"
  BY <1>2 DEF Announces, Frame
<1> QED
  BY <1>1, <1>2, <1>3, SidedAlone DEF Speaks, Acks

\* Every step keeps ACKs apart.
LEMMA SidedStep ==
    ASSUME IInv, AllOwed, AllLocal, AllOrdered, AllSided, Next
    PROVE  AllSided'
<1>1. Setting /\ NodesOK /\ Hub \in Node /\ Growing
  BY SettingOK, StepGrows DEF IInv, Setting
<1>2. CASE Tick
  BY <1>1, <1>2, SidedTick
<1>3. CASE HubFrameStart
  BY <1>1, <1>3, SidedHub
<1>4. ASSUME NEW n \in Node, Timers(n) PROVE AllSided'
  BY <1>1, <1>4, SidedTimers
<1>5. ASSUME NEW n \in Node, Disable(n) PROVE AllSided'
  BY <1>1, <1>5, SidedLess
<1>6. ASSUME NEW n \in Node, ReceiveBeacon(n) PROVE AllSided'
  BY <1>1, <1>6, SidedBeacon
<1>7. ASSUME NEW m \in Node, ReceiveAssociate(m) PROVE AllSided'
  <2> DEFINE f == Frame("ACK", m, 0, 0)
  <2>1. mac[m].frame.type = "ASSOCIATE" /\ \E t : Handover(m, Hub, t) /\ Answers(m, mac[Hub], f, t)
    BY <1>1, <1>7, AssociateAnswered
  <2>2. f.sn = 0
    BY DEF Frame
  <2> HIDE DEF f
  <2> QED
    BY <1>1, <2>1, <2>2, SidedRequest
<1>8. ASSUME NEW m \in Node, ReceiveGtsRequest(m) PROVE AllSided'
  <2> DEFINE f == Frame("ACK", m, 0, Granted(m))
  <2>1. mac[m].frame.type = "GTS_REQUEST" /\ \E t : Handover(m, Hub, t) /\ Answers(m, mac[Hub], f, t)
    BY <1>1, <1>8, GtsRequestAnswered
  <2>2. f.sn = 0
    BY DEF Frame
  <2> HIDE DEF f
  <2> QED
    BY <1>1, <2>1, <2>2, SidedRequest
<1>9. ASSUME NEW n \in Node, NEW m \in Node, Receive(m, n) PROVE AllSided'
  <2>1. CASE ReceiveData(m, n)
    BY <1>1, <2>1, SidedData
  <2>2. CASE ReceiveAck(m, n)
    BY <1>1, <2>2, SidedAck
  <2> QED
    BY <1>9, <2>1, <2>2 DEF Receive
<1>10. ASSUME NEW n \in Node, NEW m \in Node, Lose(m, n) PROVE AllSided'
  BY <1>1, <1>10, SidedLess
<1>11. ASSUME NEW n \in Node, NEW x \in par.traffic, FromNetworkLayer(n, x[2]) PROVE AllSided'
  <2>1. x[2] \in Address
    BY <1>1 DEF Setting
  <2> QED
    BY <1>1, <1>11, <2>1, SidedAccepts
<1> QED
  BY <1>2, <1>3, <1>4, <1>5, <1>6, <1>7, <1>8, <1>9, <1>10, <1>11 DEF Next

-----------------------------------------------------------------------------
(* The promise of the link is kept. *)

LinkInv == AllLocal /\ AllOrdered /\ AllSided

\* No node has sent anything or has a packet at the start.
LEMMA InitLink ==
    ASSUME Init
    PROVE  LinkInv
<1>1. ASSUME NEW n \in Node
      PROVE  /\ mac[n].to = {} /\ mac[n].frame = NoFrame /\ mac[n].currentPacket = NoFrame
             /\ mac[n].TXBuffer = <<>> /\ ~mac[n].adjacent /\ mac[n].associated = (n = Hub)
  BY DEF Init, Startup
<1>2. NoFrame.type = "none"
  BY DEF NoFrame
<1>3. ASSUME NEW n \in Node PROVE Local(n, mac[n])
  <2>1. OnAir(mac[n])
    BY <1>1, <1>2 DEF OnAir, Asked
  <2> QED
    BY <1>1, <2>1 DEF Local, Asks, Seated
<1>4. ASSUME NEW n \in Node, NEW m \in Node
      PROVE  InOrder(mac[n], sent[n]) /\ Seen(mac[n], pktHistory[m][n]) /\ History(m, n)
  <2>1. sent[n] = <<>> /\ delivered[m] = <<>> /\ pktHistory[m][n] = 0
    BY DEF Init
  <2>2. InOrder(mac[n], sent[n]) /\ Seen(mac[n], pktHistory[m][n])
    BY <1>1, <1>2 DEF InOrder, Seen
  <2>3. Passed(m) = {} /\ Len(sent[n]) = 0
    BY <2>1 DEF Passed
  <2> QED
    BY <2>1, <2>2, <2>3 DEF History
<1>5. ASSUME NEW n \in Node, NEW m \in Node, NEW x
      PROVE  Speaks(n, mac[n]) /\ ~Acks(mac[m], n, x)
  BY <1>1 DEF Speaks, Unicast, Acks
<1>6. AllLocal
  BY <1>3 DEF AllLocal
<1>7. AllOrdered
  BY <1>4 DEF AllOrdered
<1>8. AllSided
  BY <1>5 DEF AllSided
<1> QED
  BY <1>6, <1>7, <1>8 DEF LinkInv

\* A packet that is passed up is new, and in its sender's order.
LEMMA DataDelivers ==
    ASSUME IInv, AllLocal, AllOrdered, NEW m \in Node, NEW n \in Node, ReceiveData(m, n)
    PROVE  delivered' = delivered \/ LinkLayer!Deliver(m, n)
<1> DEFINE f == mac[m].frame
<1>1. /\ f.sn \in Nat /\ f.dst \in {n, BROADCAST} /\ Given(sent[m], f) /\ sent' = sent
      /\ \/ delivered' = delivered
         \/ /\ pktHistory[n][m] < f.sn
            /\ delivered' = [delivered EXCEPT ![n] = Append(@, <<m, f.sn>>)]
  BY DataFacts
<1>2. acked' = acked
  BY DEF ReceiveData
<1>3. History(n, m) /\ pktHistory[n][m] \in Nat /\ sent[m] \in Seq(Address)
  BY DEF AllOrdered, IInv
<1> HIDE DEF f
<1>4. f.sn \in DOMAIN sent[m] /\ sent[m][f.sn] \in {n, BROADCAST}
  BY <1>1 DEF Given
<1>5. \A j \in DOMAIN sent[m] :
         <<m, j>> \in LinkLayer!ToSet(delivered[n]) /\ pktHistory[n][m] < f.sn => j < f.sn
  <2> SUFFICES ASSUME NEW j \in DOMAIN sent[m], <<m, j>> \in LinkLayer!ToSet(delivered[n]),
                      pktHistory[n][m] < f.sn
               PROVE  j < f.sn
    OBVIOUS
  <2>1. <<m, j>> \in Passed(n)
    BY DEF LinkLayer!ToSet, Passed
  <2>2. j \in Nat
    BY <1>3
  <2>3. j <= pktHistory[n][m]
    BY <1>3, <2>1, <2>2 DEF History
  <2> QED
    BY <1>1, <1>3, <2>2, <2>3
<1> QED
  BY <1>1, <1>2, <1>4, <1>5 DEF LinkLayer!Deliver

\* A packet that an ACK clears was passed up by the one it was for.
LEMMA AckAcknowledges ==
    ASSUME IInv, AllSided, NEW m \in Node, NEW n \in Node, ReceiveAck(m, n)
    PROVE  acked' = acked \/ LinkLayer!Acknowledge(n)
<1> DEFINE f == mac[m].frame
           p == mac[n].currentPacket
<1>1. Setting /\ NodesOK
  BY SettingOK DEF IInv
<1>2. UNCHANGED <<sent, delivered>>
  BY DEF ReceiveAck
<1>3. acked' = IF p.type = "DATA" /\ p.sn - 1 = f.sn
               THEN [acked EXCEPT ![n] = @ \cup {p.sn}] ELSE acked
  BY DEF ReceiveAck
<1>4. CASE p.type = "DATA" /\ p.sn - 1 = f.sn
  <2>1. f.type = "ACK" /\ n \in mac[m].to /\ ~mac[n].disabled
    BY DEF ReceiveAck, Arrives
  <2>2. f.sn \in Nat /\ p.sn \in Nat
    BY <1>1 DEF NodesOK, NodeState, AnyFrame
  <2>3. Acks(mac[m], n, f.sn)
    BY <2>1 DEF Acks
  <2>4. ~ControlSide(mac[n])
    BY <1>4 DEF ControlSide, NoFrame
  <2>5. f.sn = 0 => ~Past(sent[n], mac[n])
    BY <1>4, <2>2 DEF Past, First
  <2>6. Passes(m, n, f.sn)
    BY <2>1, <2>2, <2>3, <2>4, <2>5 DEF AllSided, Answered
  <2> HIDE DEF f, p
  <2>7. f.sn + 1 = p.sn
    BY <1>4, <2>2
  <2>8. p.sn \in DOMAIN sent[n] /\ sent[n][p.sn] = m /\ <<n, p.sn>> \in Passed(m)
    BY <2>6, <2>7 DEF Passes
  <2>9. <<n, p.sn>> \in LinkLayer!ToSet(delivered[sent[n][p.sn]])
    BY <2>8 DEF LinkLayer!ToSet, Passed
  <2> QED
    BY <1>2, <1>3, <1>4, <2>8, <2>9 DEF LinkLayer!Acknowledge
<1>5. CASE ~(p.type = "DATA" /\ p.sn - 1 = f.sn)
  BY <1>3, <1>5
<1> QED
  BY <1>4, <1>5

\* Every step is one of the link's, or goes unseen.
LEMMA StepLinks ==
    ASSUME IInv, LinkInv, Next
    PROVE  UNCHANGED <<sent, delivered, acked>> \/ LinkLayer!Next
<1>1. AllLocal /\ AllOrdered /\ AllSided /\ Setting
  BY SettingOK DEF LinkInv, IInv
<1>2. ASSUME NEW n \in Node, Timers(n) PROVE UNCHANGED <<sent, delivered, acked>>
  BY <1>2 DEF Timers, FrameStart, GtsStart, BeaconTimeout, AckTimeout, AttemptTx, SleepStart,
              BackToSetup, CcaInVain, CcaNotValid, CcaClear, CcaBusy
<1>3. ASSUME NEW n \in Node, NEW m \in Node, ReceiveData(m, n)
      PROVE  UNCHANGED <<sent, delivered, acked>> \/ LinkLayer!Next
  <2>1. UNCHANGED <<sent, acked>>
    BY <1>3 DEF ReceiveData
  <2>2. delivered' = delivered \/ LinkLayer!Deliver(m, n)
    BY <1>1, <1>3, DataDelivers
  <2> QED
    BY <2>1, <2>2 DEF LinkLayer!Next
<1>4. ASSUME NEW n \in Node, NEW m \in Node, ReceiveAck(m, n)
      PROVE  UNCHANGED <<sent, delivered, acked>> \/ LinkLayer!Next
  <2>1. UNCHANGED <<sent, delivered>>
    BY <1>4 DEF ReceiveAck
  <2>2. acked' = acked \/ LinkLayer!Acknowledge(n)
    BY <1>1, <1>4, AckAcknowledges
  <2> QED
    BY <2>1, <2>2 DEF LinkLayer!Next
<1>5. ASSUME NEW n \in Node, NEW x \in par.traffic, FromNetworkLayer(n, x[2])
      PROVE  LinkLayer!Next
  <2>1. x[2] \in Address
    BY <1>1 DEF Setting
  <2>2. LinkLayer!Submit(n)
    BY <1>5, <2>1 DEF FromNetworkLayer, LinkLayer!Submit
  <2> QED
    BY <2>2 DEF LinkLayer!Next
<1>6. ASSUME NEW n \in Node,
             \/ Disable(n) \/ ReceiveBeacon(n) \/ ReceiveAssociate(n) \/ ReceiveGtsRequest(n)
             \/ \E m \in Node : Lose(n, m)
      PROVE  UNCHANGED <<sent, delivered, acked>>
  BY <1>6 DEF Disable, ReceiveBeacon, ReceiveAssociate, ReceiveGtsRequest, Lose
<1> QED
  BY <1>2, <1>3, <1>4, <1>5, <1>6 DEF Next, Tick, HubFrameStart, Receive

\* What is owed, on the air, in order and acknowledged stays so.
THEOREM LinkInductive == Spec => []LinkInv
<1>1. IInv /\ AllOwed /\ LinkInv /\ [Next]_vars => LinkInv'
  <2>1. ASSUME LinkInv, UNCHANGED vars PROVE LinkInv'
    <3>1. AllLocal'
      BY <2>1, LocalNext DEF LinkInv, AllLocal, vars
    <3>2. AllOrdered'
      BY <2>1 DEF LinkInv, vars, AllOrdered, History, Passed
    <3>3. AllSided'
      <4>1. mac' = mac /\ sent' = sent /\ delivered' = delivered /\ AllSided
        BY <2>1 DEF LinkInv, vars
      <4>2. ASSUME NEW n \in Node, NEW m \in Node, NEW x \in Nat, Acks(mac[m], n, x)
            PROVE  Passes(m, n, x)' \/ Answered(m, n, x)'
        BY <4>1, <4>2 DEF AllSided, Passes, Passed, Answered
      <4> QED
        BY <4>1, <4>2 DEF AllSided
    <3> QED
      BY <3>1, <3>2, <3>3 DEF LinkInv
  <2> QED
    BY <2>1, LocalStep, OrderStep, SidedStep DEF LinkInv
<1> QED
  BY <1>1, InitLink, OwedInductive, Inductive, PTL DEF Spec

\* A PAN keeps the promise of a link, whatever is lost, whoever dies and however
\* often a device leaves and joins the PAN: each packet is passed up at most once,
\* in the order it was handed down and only where it was sent, and an ACK that
\* clears a packet, though it does not say what it answers and may come an
\* exchange too late, is for a packet its addressee has passed up: never the
\* answer to a request.
THEOREM ImplementsLink == Spec => KeepsPromise
<1>1. Init => LinkLayer!Init
  BY DEF Init, LinkLayer!Init
<1>2. IInv /\ LinkInv /\ [Next]_vars => [LinkLayer!Next]_(LinkLayer!vars)
  <2>1. UNCHANGED vars => UNCHANGED LinkLayer!vars
    BY DEF vars, LinkLayer!vars
  <2> QED
    BY <2>1, StepLinks DEF LinkLayer!vars
<1> QED
  BY <1>1, <1>2, LinkInductive, Inductive, PTL DEF Spec, KeepsPromise, LinkLayer!Spec

-----------------------------------------------------------------------------
(* Whose slot it is: every member keeps the coordinator's time and place in    *)
(* the superframe, and what it starts is over before another's slot begins.    *)

\* x ticks from the beacon, before the next one, it is no slot of another than n, by
\* the coordinator's u.
Clear(u, n, x) ==
    /\ x < Interval
    /\ \A i \in 1..u.announced :
         u.GTSlist[i] # n => ~(gtsStart(i) <= x /\ x < gtsEnd(i))

Speaking(s) == s.to # {} /\ s.frame.type # "ACK"
Busy(s) == Speaking(s) \/ Running(s, "ACK_TIMEOUT")

\* What n takes to be left of the CAP and to the end of its slot is so,
InStep(u, n, s, x) ==
    /\ s.capLeft > 0 => s.capLeft = CAPend(u.announced) - x
    /\ s.gtsLeft > 0 =>
         \E i \in 1..u.announced :
            /\ u.GTSlist[i] = n /\ s.gtsLeft = gtsEnd(i) - x
            /\ s.adjacent <=> i = u.announced

\* and it is busy in no slot of another, in this tick and in all that follow until
\* it will be done; a node that wakes up for its slot waits for a tick.
Polite(u, n, s, x) ==
    /\ Busy(s) => Clear(u, n, x)
    /\ \A y \in 1..s.timers["ACK_TIMEOUT"] : Clear(u, n, x + y)
    /\ Speaking(s) /\ ~Unicast(s) => \A y \in 1..s.timers["ATTEMPT_TX"] : Clear(u, n, x + y)
    /\ Waking(s) /\ ~s.disabled => s.timers["ATTEMPT_TX"] = 1

Orderly(u, n, s, x) == InStep(u, n, s, x) /\ Polite(u, n, s, x)

\* What it starts next to the CAP may last longer than its slot.
Overruns(s) == s.adjacent /\ par.maxExchange > 2 * par.requestGTS

\* So it is with all who heard the last beacon as members and waited for no answer
\* then, unless they may overrun.
Elapsed(h) == Interval - h.timers["FRAME_START"]
Bound(h, n, s) == ~h.disabled /\ (n = Hub \/ ~(s.guest \/ s.carried \/ Overruns(s)))
Slotted(u, h, n, s) == Bound(h, n, s) => Orderly(u, n, s, Elapsed(h))

\* Before its first beacon the coordinator senses no carrier.
Unsensed(h) == h.macState = "SETUP" => ~Running(h, "PERFORM_CCA")

AllSlotted ==
    /\ \A n \in Node : Slotted(hub, mac[Hub], n, mac[n])
    /\ Unsensed(mac[Hub])

\* The slots of the list u do not overlap, and the first to come follows the CAP.
Laid(u) ==
    /\ u.announced \in Nat /\ CAPend(u.announced) \in Int /\ CAPend(u.announced) >= 2
    /\ CAPend(u.announced) <= Interval
    /\ \A i \in 1..u.announced :
         /\ par.requestGTS >= 1 /\ gtsStart(i) \in Int /\ gtsEnd(i) \in Int
         /\ gtsEnd(i) = gtsStart(i) + 2 * par.requestGTS /\ gtsEnd(i) <= Interval
         /\ CAPend(u.announced) <= gtsStart(i)
         /\ i < u.announced => gtsEnd(i + 1) = gtsStart(i)
         /\ \A j \in 1..u.announced :
              /\ j > i => gtsEnd(j) <= gtsStart(i)
              /\ u.GTSlist[i] = u.GTSlist[j] => i = j

\* Each slot begins where the next one ends.
LEMMA SlotsAdjoin ==
    ASSUME Setting, NEW i \in Nat, NEW j \in Nat, j = i + 1
    PROVE  gtsEnd(j) = gtsStart(i)
<1>0. par.requestGTS \in Nat /\ numSuperframeSlots \in Nat
  BY DEF Setting
<1>1. /\ 1 * par.requestGTS = par.requestGTS
      /\ j * par.requestGTS = i * par.requestGTS + 1 * par.requestGTS
  BY <1>0
<1>2. i * par.requestGTS \in Nat
  BY <1>0
<1>3. PICK p \in Nat, q \in Nat : p = i * par.requestGTS /\ q = j * par.requestGTS
                                  /\ q = p + par.requestGTS
  BY <1>0, <1>1, <1>2
<1>4. gtsEnd(j) = 2 * (numSuperframeSlots - q) + 2 * par.requestGTS
  BY <1>3 DEF gtsEnd, gtsStart
<1>5. gtsStart(i) = 2 * (numSuperframeSlots - p)
  BY <1>3 DEF gtsStart
<1>6. q = p + par.requestGTS /\ par.requestGTS \in Nat /\ numSuperframeSlots \in Nat
  BY <1>0, <1>3
<1> QED
  BY <1>4, <1>5, <1>6

\* So it is with the coordinator's list, however much of it a beacon announces.
LEMMA PlanLaid ==
    ASSUME Setting, ListOK, NEW u, u.GTSlist = hub.GTSlist,
           u.announced \in Nat, u.announced <= Len(hub.GTSlist)
    PROVE  Laid(u)
<1> DEFINE k == u.announced
           a == Len(hub.GTSlist)
<1>1. k \in Nat /\ a \in Nat /\ k <= a /\ CAPend(a) >= 2 * minCAPLength
      /\ (a # 0 => par.requestGTS > 0)
  <2>1. hub.GTSlist \in Seq(Device)
    BY DEF ListOK
  <2>2. a # 0 => hub.GTSlist # <<>>
    BY <2>1
  <2> QED
    BY <2>1, <2>2 DEF ListOK
<1>2. \A i, j \in 1..k : u.GTSlist[i] = u.GTSlist[j] => i = j
  <2>1. u.GTSlist \in Seq(Device)
    BY DEF ListOK
  <2>2. 1..k \subseteq DOMAIN u.GTSlist
    BY <1>1, <2>1
  <2> QED
    BY <2>2 DEF ListOK
<1> HIDE DEF a
<1>3. CAPend(k) >= 2 /\ CAPend(k) \in Int /\ CAPend(k) <= Interval
  <2>1. CAPend(a) \in Int /\ CAPend(a) <= CAPend(k)
    BY <1>1, SlotsFit
  <2>2. CAPend(k) \in Int /\ CAPend(k) <= 2 * numSuperframeSlots
    BY <1>1, SlotsFit
  <2> QED
    BY <1>1, <2>1, <2>2 DEF Setting
<1> HIDE DEF k
<1>4. par.requestGTS \in Nat /\ numSuperframeSlots \in Nat
  BY DEF Setting
<1>5. ASSUME NEW i \in 1..k
      PROVE  /\ par.requestGTS >= 1 /\ gtsStart(i) \in Int /\ gtsEnd(i) \in Int
             /\ gtsEnd(i) = gtsStart(i) + 2 * par.requestGTS /\ gtsEnd(i) <= Interval
             /\ CAPend(k) <= gtsStart(i)
  <2>1. par.requestGTS >= 1 /\ i \in 0..k
    BY <1>1, <1>4
  <2>2. /\ gtsEnd(i) \in Int /\ gtsEnd(i) <= 2 * numSuperframeSlots
        /\ gtsEnd(i) - 2 * par.requestGTS = gtsStart(i) /\ CAPend(k) <= gtsStart(i)
    BY <1>1, <2>1, SlotsFit DEF CAPend
  <2>3. Interval \in Nat /\ 2 * numSuperframeSlots <= Interval
    BY DEF Setting
  <2> QED
    BY <1>4, <2>1, <2>2, <2>3
<1>6. ASSUME NEW i \in Nat, NEW j \in Nat, j = i + 1
      PROVE  gtsEnd(j) = gtsStart(i)
  BY <1>6, SlotsAdjoin
<1>7. ASSUME NEW i \in 1..k, NEW j \in 1..k, j > i
      PROVE  gtsEnd(j) <= gtsStart(i)
  <2>1. PICK l \in Nat : l = j - 1 /\ j = l + 1
    <3>1. j - 1 \in Nat /\ j = (j - 1) + 1
      BY <1>1
    <3> QED
      BY <3>1
  <2>2. i \in 0..l
    BY <1>7, <2>1
  <2>3. CAPend(l) <= CAPend(i)
    BY <2>2, SlotsFit
  <2>4. gtsEnd(j) = gtsStart(l)
    BY <1>6, <2>1
  <2> QED
    BY <2>3, <2>4 DEF CAPend
<1>8. ASSUME NEW i \in 1..k, i < k PROVE gtsEnd(i + 1) = gtsStart(i)
  <2>1. i \in Nat /\ i + 1 \in Nat
    OBVIOUS
  <2> QED
    BY <1>6, <2>1
<1> QED
  BY <1>1, <1>2, <1>3, <1>5, <1>7, <1>8 DEF Laid, k

\* The last beacon announced no more than there is.
LEMMA SlotsLaid ==
    ASSUME Setting, ListOK
    PROVE  Laid(hub)
BY PlanLaid DEF ListOK

\* The CAP is nobody's slot,
LEMMA CapClear ==
    ASSUME Setting, NEW u, Laid(u), NEW n, NEW x \in Int, x < CAPend(u.announced)
    PROVE  Clear(u, n, x)
BY DEF Laid, Clear, Setting

\* its own slot is no other's,
LEMMA OwnClear ==
    ASSUME Setting, NEW u, Laid(u), NEW n, NEW x \in Int, NEW i \in 1..u.announced, u.GTSlist[i] = n,
           gtsStart(i) <= x, x < gtsEnd(i)
    PROVE  Clear(u, n, x)
<1>2. x < Interval
  BY DEF Laid, Setting
<1> SUFFICES ASSUME NEW j \in 1..u.announced, u.GTSlist[j] # n
             PROVE  ~(gtsStart(j) <= x /\ x < gtsEnd(j))
  BY <1>2 DEF Clear
<1>1. /\ gtsStart(i) \in Int /\ gtsEnd(i) \in Int /\ gtsStart(j) \in Int /\ gtsEnd(j) \in Int
      /\ j > i => gtsEnd(j) <= gtsStart(i)
      /\ i > j => gtsEnd(i) <= gtsStart(j)
      /\ i \in Int /\ j \in Int /\ i # j
  BY DEF Laid
<1> QED
  BY <1>1

\* and the tick before it is another's, unless the CAP comes first.
LEMMA BeforeBusy ==
    ASSUME Setting, NEW u, Laid(u), NEW n, NEW x \in Int, NEW i \in 1..u.announced, u.GTSlist[i] = n,
           i # u.announced, x = gtsStart(i) - 1
    PROVE  ~Clear(u, n, x)
<1>1. i < u.announced /\ i + 1 \in 1..u.announced /\ i \in Int /\ i + 1 # i
  BY DEF Laid
<1> DEFINE j == i + 1
<1>2. j \in 1..u.announced /\ j # i
  BY <1>1
<1>3. gtsEnd(j) = gtsStart(i)
  BY <1>1 DEF Laid
<1> HIDE DEF j
<1>4. /\ gtsStart(j) \in Int /\ gtsEnd(j) = gtsStart(j) + 2 * par.requestGTS
      /\ par.requestGTS >= 1 /\ gtsStart(i) \in Int /\ gtsEnd(j) \in Int
  BY <1>2 DEF Laid
<1>5. u.GTSlist[j] # n
  BY <1>2 DEF Laid
<1>6. gtsStart(j) <= x /\ x < gtsEnd(j)
  BY <1>3, <1>4 DEF Setting
<1> QED
  BY <1>2, <1>5, <1>6 DEF Clear

\* Where a node is when it may send: before its slot it waits for it, in the slot
\* it has that one, or is a tick early.
Poised(n, s) ==
    /\ s.capLeft \in Int /\ s.gtsLeft \in Int /\ s.adjacent \in BOOLEAN
    /\ s.macState = "CAP" /\ s.adjacent => s.gtsLeft >= 2 * par.requestGTS + 1
    /\ s.macState = "GTS" => s.gtsLeft <= 2 * par.requestGTS + 1
    /\ n = Hub => s.gtsLeft = 0 /\ ~s.adjacent

\* The invariant says so.
LEMMA NodePoised ==
    ASSUME Setting, NodesOK, NEW n \in Node, ~mac[n].disabled, n = Hub \/ ~mac[n].guest
    PROVE  Poised(n, mac[n])
<1> DEFINE s == mac[n]
<1>1. s \in NodeState /\ NodeOK(n, s) /\ Ranged(s)
  BY DEF NodesOK, NodeOK
<1> HIDE DEF s
<1>2. s.capLeft \in Int /\ s.gtsLeft \in Int /\ s.adjacent \in BOOLEAN /\ par.requestGTS \in Nat
  BY <1>1 DEF NodeState, Setting
<1>3. ASSUME n = Hub PROVE Poised(n, s)
  BY <1>1, <1>2, <1>3 DEF NodeOK, Leads, Poised
<1>4. ASSUME n # Hub PROVE Poised(n, s)
  <2>1. Timed(s) /\ Member(s) /\ ~s.guest /\ ~s.disabled
    BY <1>1, <1>4 DEF NodeOK, s
  <2>2. ASSUME s.macState = "CAP", s.adjacent
        PROVE  s.gtsLeft >= 2 * par.requestGTS + 1
    <3>1. Running(s, "GTS_START")
      BY <2>1, <2>2 DEF Member
    <3>2. s.timers["GTS_START"] = s.gtsLeft - 2 * par.requestGTS - 1
      BY <2>1, <3>1 DEF Timed
    <3>3. "GTS_START" \in Timer /\ s.timers["GTS_START"] # Off
      BY <3>1 DEF Timer, Running
    <3>4. s.timers["GTS_START"] >= 0
      BY <1>1, <3>3 DEF Ranged, NodeState, Off
    <3> QED
      BY <1>2, <3>2, <3>4
  <2> QED
    BY <1>2, <1>4, <2>1, <2>2 DEF Timed, Poised
<1> QED
  BY <1>3, <1>4 DEF s

\* Whatever fits is over before another's slot begins, if it does not overrun.
LEMMA FitsClear ==
    ASSUME Setting, NEW u, Laid(u), NEW n, NEW s, Poised(n, s), NEW x \in Int, InStep(u, n, s, x),
           ~Waking(s), ~Overruns(s), s.macState \in {"CAP", "GTS"}, NEW d \in Exchange, Fits(s, d),
           NEW y \in 0..d
    PROVE  Clear(u, n, x + y)
<1>1. /\ s.capLeft \in Int /\ s.gtsLeft \in Int /\ s.adjacent \in BOOLEAN
      /\ y \in Int /\ x + y \in Int /\ d \in Nat /\ 0 <= y /\ y <= d
      /\ par.requestGTS \in Nat /\ par.maxExchange \in Nat /\ d <= par.maxExchange
      /\ CAPend(u.announced) \in Int
  BY DEF Poised, Exchange, Setting, Laid
<1>2. CASE d < s.capLeft
  <2>1. s.capLeft = CAPend(u.announced) - x
    BY <1>1, <1>2 DEF InStep
  <2>2. x + y < CAPend(u.announced)
    BY <1>1, <1>2, <2>1
  <2> QED
    BY <1>1, <2>2, CapClear
<1>3. CASE d < s.gtsLeft /\ ~s.adjacent /\ s.macState = "GTS"
  <2>1. PICK i \in 1..u.announced : u.GTSlist[i] = n /\ s.gtsLeft = gtsEnd(i) - x
    BY <1>1, <1>3 DEF InStep
  <2>2. /\ gtsEnd(i) \in Int /\ gtsStart(i) \in Int
        /\ gtsEnd(i) = gtsStart(i) + 2 * par.requestGTS
    BY DEF Laid
  <2>3. s.gtsLeft <= 2 * par.requestGTS
    BY <1>1, <1>3 DEF Waking
  <2>4. gtsStart(i) <= x + y /\ x + y < gtsEnd(i)
    BY <1>1, <1>3, <2>1, <2>2, <2>3
  <2> QED
    BY <1>1, <2>1, <2>4, OwnClear
<1>4. CASE d < s.gtsLeft /\ s.adjacent
  <2>1. PICK i \in 1..u.announced :
          u.GTSlist[i] = n /\ s.gtsLeft = gtsEnd(i) - x /\ i = u.announced
    BY <1>1, <1>4 DEF InStep
  <2>2. gtsEnd(i) \in Int /\ gtsStart(i) = CAPend(u.announced)
    BY <2>1 DEF Laid, CAPend
  <2>3. x + y < gtsEnd(i)
    BY <1>1, <1>4, <2>1, <2>2
  <2>4. CASE x + y < CAPend(u.announced)
    BY <1>1, <2>4, CapClear
  <2>5. CASE x + y >= CAPend(u.announced)
    BY <1>1, <2>1, <2>2, <2>3, <2>5, OwnClear
  <2> QED
    BY <1>1, <2>4, <2>5
<1>5. s.macState = "CAP" => d < s.capLeft \/ (s.adjacent /\ d < s.gtsLeft)
  <2>1. s.macState = "CAP" => d < s.capLeft \/ s.adjacent
    BY DEF Fits
  <2>2. ASSUME s.macState = "CAP", s.adjacent PROVE d < s.gtsLeft
    <3>1. s.gtsLeft >= 2 * par.requestGTS + 1
      BY <2>2 DEF Poised
    <3>2. par.maxExchange <= 2 * par.requestGTS
      BY <1>1, <2>2 DEF Overruns
    <3> QED
      BY <1>1, <3>1, <3>2
  <2> QED
    BY <2>1, <2>2
<1>6. s.macState = "GTS" => d < s.gtsLeft
  BY DEF Fits
<1> QED
  BY <1>1, <1>2, <1>3, <1>4, <1>5, <1>6

\* A node that wakes up for its slot is not busy.
LEMMA WakingIdle ==
    ASSUME Setting, NEW u, Laid(u), NEW n, NEW s, Poised(n, s), NEW x \in Int,
           Orderly(u, n, s, x), Waking(s), ~s.disabled
    PROVE  ~Busy(s) /\ s.timers["ATTEMPT_TX"] = 1
<1>1. s.macState = "GTS" /\ ~s.adjacent /\ s.gtsLeft = 2 * par.requestGTS + 1 /\ s.gtsLeft > 0
      /\ par.requestGTS \in Nat
  BY DEF Waking, Poised, Setting
<1>2. PICK i \in 1..u.announced :
        u.GTSlist[i] = n /\ s.gtsLeft = gtsEnd(i) - x /\ (s.adjacent <=> i = u.announced)
  BY <1>1 DEF Orderly, InStep
<1>3. gtsEnd(i) \in Int /\ gtsStart(i) \in Int /\ gtsEnd(i) = gtsStart(i) + 2 * par.requestGTS
  BY DEF Laid
<1>4. x = gtsStart(i) - 1 /\ i # u.announced
  BY <1>1, <1>2, <1>3
<1>5. ~Clear(u, n, x)
  BY <1>2, <1>4, BeforeBusy
<1> QED
  BY <1>5 DEF Orderly, Polite

\* A node that starts nothing: what it has on the air and waits for it had before.
Quieter(s, t) ==
    /\ t.capLeft = s.capLeft /\ t.gtsLeft = s.gtsLeft /\ t.adjacent = s.adjacent
    /\ t.timers["ACK_TIMEOUT"] \in {Off, s.timers["ACK_TIMEOUT"]}
    /\ Speaking(t) =>
         /\ Speaking(s) /\ (Unicast(s) => Unicast(t))
         /\ t.timers["ATTEMPT_TX"] \in {Off, s.timers["ATTEMPT_TX"]}
    /\ Waking(t) /\ ~t.disabled =>
         Waking(s) /\ ~s.disabled /\ t.timers["ATTEMPT_TX"] = s.timers["ATTEMPT_TX"]

\* It stays in order.
LEMMA QuieterOrderly ==
    ASSUME NEW u, NEW n, NEW s, NEW t, NEW x, Orderly(u, n, s, x), Quieter(s, t)
    PROVE  Orderly(u, n, t, x)
<1>1. InStep(u, n, t, x)
  BY DEF Orderly, InStep, Quieter
<1>2. Busy(t) => Busy(s)
  BY DEF Quieter, Busy, Running
<1>3. \A y \in 1..t.timers["ACK_TIMEOUT"] : Clear(u, n, x + y)
  BY DEF Quieter, Off, Orderly, Polite
<1>4. Speaking(t) /\ ~Unicast(t) => \A y \in 1..t.timers["ATTEMPT_TX"] : Clear(u, n, x + y)
  BY DEF Quieter, Off, Orderly, Polite
<1>5. Waking(t) /\ ~t.disabled => t.timers["ATTEMPT_TX"] = 1
  BY DEF Quieter, Orderly, Polite
<1>6. Polite(u, n, t, x)
  BY <1>2, <1>3, <1>4, <1>5 DEF Orderly, Polite
<1> QED
  BY <1>1, <1>6 DEF Orderly

\* The helpers send only what is over in time.
LEMMA MovesOrderly ==
    ASSUME Setting, NEW u, Laid(u), NEW n \in Node, NEW s, NEW t, Poised(n, s), NEW x \in Int,
           Orderly(u, n, s, x), Moves(n, s, t), s.to = {}, ~Waking(s), ~Overruns(s), Serves(t),
           s.macState = "SETUP" => Holds(s, t)
    PROVE  Orderly(u, n, t, x)
<1>1. /\ t \in NodeState /\ t.macState = s.macState /\ t.capLeft = s.capLeft
      /\ t.gtsLeft = s.gtsLeft /\ t.adjacent = s.adjacent /\ t.disabled = s.disabled
  BY DEF Moves, SameOwn
<1>2. ~Waking(t)
  BY <1>1 DEF Waking
<1>3. CASE Holds(s, t)
  <2>1. ~Speaking(t)
    BY <1>3 DEF Holds, Speaking
  <2>2. Quieter(s, t)
    BY <1>1, <1>2, <1>3, <2>1 DEF Quieter, Holds
  <2> QED
    BY <2>2, QuieterOrderly
<1>4. CASE Sends(n, s, t) /\ ~Holds(s, t)
  <2>1. InStep(u, n, t, x)
    BY <1>1 DEF Orderly, InStep
  <2>2. ASSUME NEW d \in Exchange, Fits(t, d), NEW y \in 0..d
        PROVE  Clear(u, n, x + y)
    <3>1. s.macState \in {"CAP", "GTS"}
      BY <1>1, <1>4 DEF Sends, NodeState, MacState
    <3>2. Fits(s, d)
      BY <1>1, <2>2 DEF Fits
    <3> QED
      BY <3>1, <3>2, FitsClear DEF Orderly
  <2>3. ASSUME NEW d \in Exchange, Fits(t, d)
        PROVE  Clear(u, n, x) /\ \A y \in 1..d : Clear(u, n, x + y)
    <3>1. d \in Nat
      BY DEF Exchange, Setting
    <3>2. \A y \in 0..d : Clear(u, n, x + y)
      BY <2>2, <2>3
    <3>3. 0 \in 0..d /\ x + 0 = x /\ \A y \in 1..d : y \in 0..d
      BY <3>1
    <3> QED
      BY <3>2, <3>3
  <2>4. t.frame.type \in Own
    BY <1>4 DEF Sends, Serves
  <2>5. CASE t.frame.dst = BROADCAST
    <3>1. /\ t.timers["ATTEMPT_TX"] \in Exchange /\ Fits(t, t.timers["ATTEMPT_TX"])
          /\ t.timers["ACK_TIMEOUT"] \in {Off, s.timers["ACK_TIMEOUT"]}
      BY <1>4, <2>5 DEF Sends
    <3>2. Clear(u, n, x) /\ \A y \in 1..t.timers["ATTEMPT_TX"] : Clear(u, n, x + y)
      BY <2>3, <3>1
    <3>3. \A y \in 1..t.timers["ACK_TIMEOUT"] : Clear(u, n, x + y)
      BY <3>1 DEF Off, Orderly, Polite
    <3> QED
      BY <1>2, <2>1, <3>2, <3>3 DEF Orderly, Polite
  <2>6. CASE t.frame.dst # BROADCAST
    <3>1. t.timers["ACK_TIMEOUT"] \in Exchange /\ Fits(t, t.timers["ACK_TIMEOUT"])
      BY <1>4, <2>6 DEF Sends
    <3>2. Clear(u, n, x) /\ \A y \in 1..t.timers["ACK_TIMEOUT"] : Clear(u, n, x + y)
      BY <2>3, <3>1
    <3>3. Speaking(t) => Unicast(t)
      BY <2>4, <2>6 DEF Speaking, Unicast
    <3> QED
      BY <1>2, <2>1, <3>2, <3>3 DEF Orderly, Polite
  <2> QED
    BY <2>5, <2>6
<1> QED
  BY <1>3, <1>4 DEF Moves

\* No carrier is sensed in SETUP that was not before.
LEMMA MovesUnsensed ==
    ASSUME NEW n, NEW s, NEW t, Moves(n, s, t), Unsensed(s), s.macState = "SETUP" => Holds(s, t)
    PROVE  Unsensed(t)
BY DEF Moves, SameOwn, Holds, Unsensed

\* Its own slot is next when a node wakes up for it.
LEMMA StartsOrderly ==
    ASSUME Setting, NEW u, Laid(u), NEW n \in Node, NEW s, NEW t, NEW x \in Int,
           Orderly(u, n, s, x), Still(n, s, t), t.timers["ATTEMPT_TX"] = 1,
           s.gtsLeft = 2 * par.requestGTS + 1
    PROVE  Orderly(u, n, t, x)
<1>1. /\ t.frame = s.frame /\ t.to = s.to /\ t.capLeft = s.capLeft
      /\ t.gtsLeft = s.gtsLeft /\ t.adjacent = s.adjacent
      /\ t.timers["ACK_TIMEOUT"] = s.timers["ACK_TIMEOUT"]
  BY DEF Still
<1>2. s.gtsLeft > 0 /\ par.requestGTS \in Nat
  BY DEF Setting
<1>3. PICK i \in 1..u.announced : u.GTSlist[i] = n /\ s.gtsLeft = gtsEnd(i) - x
  BY <1>2 DEF Orderly, InStep
<1>4. /\ gtsEnd(i) \in Int /\ gtsStart(i) \in Int /\ par.requestGTS >= 1
      /\ gtsEnd(i) = gtsStart(i) + 2 * par.requestGTS
  BY DEF Laid
<1>5. gtsStart(i) <= x + 1 /\ x + 1 < gtsEnd(i) /\ x + 1 \in Int
  BY <1>2, <1>3, <1>4
<1>6. \A y \in 1..t.timers["ATTEMPT_TX"] : Clear(u, n, x + y)
  <2>1. Clear(u, n, x + 1)
    BY <1>3, <1>5, OwnClear
  <2>2. \A y \in 1..1 : y = 1
    OBVIOUS
  <2> QED
    BY <2>1, <2>2
<1>7. InStep(u, n, t, x)
  BY <1>1 DEF Orderly, InStep
<1>8. Busy(t) => Busy(s)
  BY <1>1 DEF Busy, Speaking, Running
<1> QED
  BY <1>1, <1>6, <1>7, <1>8 DEF Orderly, Polite

\* The superframe's other timers and a CCA that is not made begin no slot.
Stays(s, t) ==
    /\ t.timers["ATTEMPT_TX"] = s.timers["ATTEMPT_TX"]
    /\ t.macState = "GTS" => s.macState = "GTS"

Lesser(n) ==
    FrameStart(n) \/ SleepStart(n) \/ BackToSetup(n) \/ BeaconTimeout(n)
      \/ CcaInVain(n) \/ CcaNotValid(n)

\* No such timer makes an attempt or begins a slot.
LEMMA LesserStays ==
    ASSUME Setting, NodesOK, NEW n \in Node, Lesser(n)
    PROVE  Stays(mac[n], mac'[n])
<1> DEFINE s == mac[n]
<1>1. s \in NodeState
  BY DEF NodesOK
<1>2. ASSUME NEW t, Becomes(n, t), Stays(s, t) PROVE Stays(mac[n], mac'[n])
  BY <1>2, Became
<1>3. ASSUME NEW a, a \in NodeState, Stays(s, a), NEW x \in Timer \ {"ATTEMPT_TX"}, NEW k \in Int
      PROVE  Set(a, x, k) \in NodeState /\ Stays(s, Set(a, x, k))
  <2> DEFINE c == Set(a, x, k)
  <2>1. /\ c \in NodeState /\ SameOwn(a, c)
        /\ \A y \in Timer : c.timers[y] = IF y = x THEN k ELSE a.timers[y]
    BY <1>3, SetOK
  <2> HIDE DEF c, s
  <2>2. c.timers["ATTEMPT_TX"] = a.timers["ATTEMPT_TX"] /\ c.macState = a.macState
    BY <2>1 DEF SameOwn, Timer
  <2>3. Stays(s, c)
    BY <1>3, <2>2 DEF Stays
  <2> QED
    BY <2>1, <2>3 DEF c, s
<1>4. ASSUME NEW x \in Timer \ {"ATTEMPT_TX"}
      PROVE  After(n, x) \in NodeState /\ Stays(s, After(n, x))
  <2>1. Stays(s, s) /\ Off \in Int
    BY DEF Stays, Off
  <2> QED
    BY <1>1, <1>3, <2>1 DEF After, Stop
<1>5. ASSUME NEW a, a \in NodeState, Stays(s, a), NEW y \in MacState \ {"GTS"}, NEW w \in BOOLEAN
      PROVE  WithPlace(a, y, w) \in NodeState /\ Stays(s, WithPlace(a, y, w))
  BY <1>5, PlaceOK DEF Stays
<1>6. ASSUME NEW a, a \in NodeState, Stays(s, a)
      PROVE  LET c == [a EXCEPT !.awake = TRUE] IN c \in NodeState /\ Stays(s, c)
  BY <1>6 DEF NodeState, Stays
<1>7. CASE FrameStart(n)
  <2> DEFINE a == After(n, "FRAME_START")
             c == [a EXCEPT !.awake = TRUE]
  <2>1. a \in NodeState /\ Stays(s, a)
    BY <1>4 DEF Timer
  <2>2. Becomes(n, Set(c, "BEACON_TIMEOUT", 2))
    BY <1>7 DEF FrameStart
  <2> HIDE DEF a, s
  <2>3. c \in NodeState /\ Stays(s, c)
    BY <1>6, <2>1
  <2> HIDE DEF c
  <2>4. Stays(s, Set(c, "BEACON_TIMEOUT", 2))
    BY <1>3, <2>3 DEF Timer
  <2> QED
    BY <1>2, <2>2, <2>4
<1>8. CASE SleepStart(n)
  <2> DEFINE a == After(n, "SLEEP_START")
             c == WithPlace(a, "SLEEP", FALSE)
  <2>1. a \in NodeState /\ Stays(s, a)
    BY <1>4 DEF Timer
  <2>2. Becomes(n, IF Running(a, "BEACON_TIMEOUT") THEN a ELSE Set(c, "PERFORM_CCA", Off))
    BY <1>8 DEF SleepStart, WithPlace, Stop
  <2> HIDE DEF a, s
  <2>3. c \in NodeState /\ Stays(s, c)
    BY <1>5, <2>1 DEF MacState
  <2> HIDE DEF c
  <2>4. Stays(s, Set(c, "PERFORM_CCA", Off))
    BY <1>3, <2>3 DEF Timer, Off
  <2> QED
    BY <1>2, <2>1, <2>2, <2>4
<1>9. CASE BackToSetup(n)
  <2> DEFINE a == After(n, "BACK_TO_SETUP")
             c == WithPlace(a, "SETUP", a.awake)
  <2>1. a \in NodeState /\ Stays(s, a)
    BY <1>4 DEF Timer
  <2>2. a.awake \in BOOLEAN /\ [a EXCEPT !.macState = "SETUP"] = c
    BY <2>1 DEF WithPlace, NodeState
  <2>3. Becomes(n, IF a.associated THEN a ELSE c)
    BY <1>9, <2>2 DEF BackToSetup
  <2> HIDE DEF a, s
  <2>4. Stays(s, c)
    BY <1>5, <2>1, <2>2 DEF MacState
  <2> QED
    BY <1>2, <2>1, <2>3, <2>4
<1>10. CASE BeaconTimeout(n)
  <2> DEFINE a == After(n, "BEACON_TIMEOUT")
             m == a.lostBeacons + 1
             e == WithLost(a, m)
             c == WithoutPAN(e)
             g == WithPlace(e, "SLEEP", FALSE)
             k == Interval - 2
  <2>1. a \in NodeState /\ Stays(s, a)
    BY <1>4 DEF Timer
  <2>2. Becomes(n, IF e.lostBeacons >= par.maxLostBeacons THEN c
                   ELSE IF e.associated THEN Set(g, "FRAME_START", k) ELSE e)
    BY <1>10 DEF BeaconTimeout, WithLost, WithoutPAN, WithPlace
  <2>3. k \in Int
    BY DEF Setting
  <2> HIDE DEF a, s, k
  <2>8. m \in Int
    BY <2>1 DEF NodeState
  <2> HIDE DEF m
  <2>4. e \in NodeState /\ Stays(s, e)
    BY <2>1, <2>8 DEF NodeState, WithLost, Stays
  <2> HIDE DEF e
  <2>5. Stays(s, c)
    BY <2>4 DEF NodeState, WithoutPAN, Stays
  <2>6. g \in NodeState /\ Stays(s, g)
    BY <1>5, <2>4 DEF MacState
  <2> HIDE DEF c, g
  <2>7. Stays(s, Set(g, "FRAME_START", k))
    BY <1>3, <2>3, <2>6 DEF Timer
  <2> QED
    BY <1>2, <2>2, <2>4, <2>5, <2>7
<1>11. CASE CcaInVain(n) \/ CcaNotValid(n)
  <2> DEFINE a == After(n, "PERFORM_CCA")
             c == [a EXCEPT !.awake = TRUE]
  <2>1. a \in NodeState /\ Stays(s, a)
    BY <1>4 DEF Timer
  <2>2. Becomes(n, a) \/ Becomes(n, c)
    BY <1>11 DEF CcaInVain, CcaNotValid
  <2> HIDE DEF a, s
  <2>3. Stays(s, c)
    BY <1>6, <2>1
  <2> QED
    BY <1>2, <2>1, <2>2, <2>3
<1> QED
  BY <1>7, <1>8, <1>9, <1>10, <1>11 DEF Lesser

\* At GTS_START a slot has one tick to its beginning.
LEMMA GtsStartStarts ==
    ASSUME Setting, NodesOK, NEW n \in Node, GtsStart(n)
    PROVE  mac'[n].timers["ATTEMPT_TX"] = 1 /\ mac[n].gtsLeft = 2 * par.requestGTS + 1
<1> DEFINE s == mac[n]
           t == Stop(s, "GTS_START")
           u == WithPlace(t, "GTS", TRUE)
           w == Set(u, "ATTEMPT_TX", 1)
           v == Set(w, "SLEEP_START", u.gtsLeft)
<1>1. s \in NodeState
  BY DEF NodesOK
<1>2. s.gtsLeft = 2 * par.requestGTS + 1
  <2>1. Timed(s) /\ s.timers["GTS_START"] = 0
    BY DeviceOK DEF GtsStart, Timer, Due
  <2>2. Running(s, "GTS_START")
    BY <2>1 DEF Running, Off
  <2>3. par.requestGTS \in Nat /\ 0 = s.gtsLeft - 2 * par.requestGTS - 1
    BY <2>1, <2>2 DEF Timed, Setting
  <2>4. s.gtsLeft \in Int
    BY <1>1 DEF NodeState
  <2> QED
    BY <2>3, <2>4
<1>3. Becomes(n, v)
  BY DEF GtsStart, After, WithPlace
<1>4. t \in NodeState
  BY <1>1, StopOK DEF Timer
<1> HIDE DEF t
<1>5. u \in NodeState
  BY <1>4, PlaceOK DEF MacState
<1> HIDE DEF u
<1>6. /\ u.gtsLeft \in Int /\ 1 \in Int
      /\ "ATTEMPT_TX" \in Timer /\ "SLEEP_START" \in Timer /\ "ATTEMPT_TX" # "SLEEP_START"
  BY <1>5 DEF NodeState, Timer
<1>7. w \in NodeState /\ \A y \in Timer : w.timers[y] = IF y = "ATTEMPT_TX" THEN 1 ELSE u.timers[y]
  BY <1>5, <1>6, SetOK
<1> HIDE DEF w
<1>8. \A y \in Timer : v.timers[y] = IF y = "SLEEP_START" THEN u.gtsLeft ELSE w.timers[y]
  BY <1>6, <1>7, SetOK
<1> HIDE DEF v
<1>9. v.timers["ATTEMPT_TX"] = 1
  BY <1>6, <1>7, <1>8
<1>10. mac'[n] = v
  BY <1>3, Became
<1> QED
  BY <1>2, <1>9, <1>10

\* The coordinator's list may grow behind what the beacon announced.
SamePlan(u, v) ==
    /\ v.announced = u.announced
    /\ \A i \in 1..u.announced : v.GTSlist[i] = u.GTSlist[i]

\* A node keeps in order when the clock and the plan are the same.
LEMMA SlottedSame ==
    ASSUME NEW u, NEW v, SamePlan(u, v), NEW h, NEW g, Calm(h, g), NEW n, NEW s,
           Slotted(u, h, n, s)
    PROVE  Slotted(v, g, n, s)
<1> SUFFICES ASSUME Bound(g, n, s) PROVE Orderly(v, n, s, Elapsed(g))
  BY DEF Slotted
<1>1. Bound(h, n, s) /\ Elapsed(g) = Elapsed(h)
  BY DEF Bound, Calm, Elapsed
<1>2. Orderly(u, n, s, Elapsed(h))
  BY <1>1 DEF Slotted
<1>3. \A x : Clear(u, n, x) => Clear(v, n, x)
  BY DEF SamePlan, Clear
<1>4. InStep(v, n, s, Elapsed(h))
  BY <1>2 DEF SamePlan, Orderly, InStep
<1>5. Polite(v, n, s, Elapsed(h))
  BY <1>2, <1>3 DEF Orderly, Polite
<1> QED
  BY <1>1, <1>4, <1>5 DEF Orderly

\* All in order after a step,
LEMMA SlottedNext ==
    ASSUME par' = par, \A k \in Node : Slotted(hub', mac'[Hub], k, mac'[k]),
           Unsensed(mac'[Hub])
    PROVE  AllSlotted'
BY DEF AllSlotted, Slotted, Bound, Overruns, Orderly, InStep, Polite, Elapsed, Interval, Clear,
       Busy, Speaking, Unicast, Waking, Running, Unsensed, gtsStart, gtsEnd, CAPend

\* a step of n alone,
LEMMA SlottedAlone ==
    ASSUME par' = par, AllSlotted, SamePlan(hub, hub'), NEW n \in Node, NEW t, Alone(n, t),
           Calm(mac[Hub], mac'[Hub]), Slotted(hub, mac[Hub], n, t), Hub \in Node,
           n = Hub => Unsensed(t)
    PROVE  AllSlotted'
<1>1. ASSUME NEW k \in Node PROVE Slotted(hub', mac'[Hub], k, mac'[k])
  <2>1. Slotted(hub, mac[Hub], k, mac'[k])
    BY DEF Alone, AllSlotted
  <2> QED
    BY <2>1, SlottedSame
<1>2. Unsensed(mac'[Hub])
  BY DEF Alone, AllSlotted
<1> QED
  BY <1>1, <1>2, SlottedNext

\* the loss of a frame, or of one addressee,
LEMMA LosesOrderly ==
    ASSUME NEW n, NEW s, NEW t, Loses(n, s, t), NEW u, NEW h, NEW m, Slotted(u, h, m, s)
    PROVE  Slotted(u, h, m, t) /\ (Unsensed(s) => Unsensed(t))
<1>1. /\ t.capLeft = s.capLeft /\ t.gtsLeft = s.gtsLeft /\ t.adjacent = s.adjacent
      /\ t.disabled = s.disabled /\ t.guest = s.guest /\ t.carried = s.carried
      /\ t.macState = s.macState /\ t.timers = s.timers
  BY DEF Loses, SameOwn
<1>2. t.to # {} => t.frame = s.frame /\ s.to # {}
  BY DEF Loses
<1>3. Speaking(t) => Speaking(s) /\ (Unicast(s) => Unicast(t))
  BY <1>2 DEF Speaking, Unicast
<1>4. Quieter(s, t)
  BY <1>1, <1>3 DEF Quieter, Waking
<1>5. Bound(h, m, t) => Bound(h, m, s)
  BY <1>1 DEF Bound, Overruns
<1>6. Unsensed(s) => Unsensed(t)
  BY <1>1 DEF Unsensed, Running
<1> QED
  BY <1>4, <1>5, <1>6, QuieterOrderly DEF Slotted

\* and a frame of m that n takes.
LEMMA SlottedExchange ==
    ASSUME Setting, NodesOK, par' = par, AllSlotted, SamePlan(hub, hub'), NEW m \in Node, NEW n \in Node,
           NEW t, Handover(m, n, t), Calm(mac[Hub], mac'[Hub]), Slotted(hub, mac[Hub], n, t),
           n = Hub => Unsensed(t)
    PROVE  AllSlotted'
<1> DEFINE w == Taken(mac[m], n)
<1>1. Loses(n, mac[m], w) /\ Hub \in Node
  BY TakenLoses DEF Handover, Setting
<1>2. mac'[m] = w /\ mac'[n] = t /\ m # n /\ \A k \in Node \ {m, n} : mac'[k] = mac[k]
  BY DEF Handover
<1> HIDE DEF w
<1>3. Slotted(hub, mac[Hub], m, w) /\ (m = Hub => Unsensed(w))
  BY <1>1, LosesOrderly DEF AllSlotted
<1>4. ASSUME NEW k \in Node PROVE Slotted(hub', mac'[Hub], k, mac'[k])
  <2>1. Slotted(hub, mac[Hub], k, mac'[k])
    BY <1>2, <1>3 DEF AllSlotted
  <2> QED
    BY <2>1, SlottedSame
<1>5. Unsensed(mac'[Hub])
  BY <1>1, <1>2, <1>3 DEF AllSlotted
<1> QED
  BY <1>4, <1>5, SlottedNext

\* What is known of a node that is to be in order.
LEMMA SlotFacts ==
    ASSUME IInv, AllSlotted, NEW n \in Node, Bound(mac[Hub], n, mac[n])
    PROVE  /\ Setting /\ Laid(hub) /\ Elapsed(mac[Hub]) \in Int
           /\ Orderly(hub, n, mac[n], Elapsed(mac[Hub]))
           /\ ~mac[n].disabled => Poised(n, mac[n])
           /\ ~Overruns(mac[n])
<1>1. Setting /\ NodesOK /\ ListOK
  BY SettingOK DEF IInv
<1>2. Elapsed(mac[Hub]) \in Int
  <2>1. mac[Hub] \in NodeState /\ Interval \in Int
    BY <1>1 DEF NodesOK, Setting
  <2>2. mac[Hub].timers["FRAME_START"] \in Int
    BY <2>1 DEF NodeState, Timer
  <2> QED
    BY <2>1, <2>2 DEF Elapsed
<1>3. Orderly(hub, n, mac[n], Elapsed(mac[Hub]))
  BY DEF AllSlotted, Slotted
<1>4. ~mac[n].disabled => Poised(n, mac[n])
  BY <1>1, NodePoised DEF Bound
<1>5. ~Overruns(mac[n])
  <2>1. n = Hub => ~mac[n].adjacent
    BY <1>1 DEF NodesOK, NodeOK, Leads
  <2> QED
    BY <2>1 DEF Bound, Overruns
<1> QED
  BY <1>1, <1>2, <1>3, <1>4, <1>5, SlotsLaid

\* A node that is no guest has nothing in service in SETUP, but for the coordinator.
LEMMA SetupIdle ==
    ASSUME IInv, AllOwed, AllLocal, NEW n \in Node, n # Hub, ~mac[n].guest, mac[n].macState = "SETUP"
    PROVE  ~mac[n].associated /\ mac[n].currentPacket = NoFrame
<1>1. NodesOK /\ NodeOK(n, mac[n])
  BY DEF IInv, NodesOK
<1>2. ~mac[n].associated
  BY DEF AllLocal, Local, Seated
<1>3. mac[n].currentPacket.type # "ASSOCIATE"
  BY <1>1 DEF NodeOK, Member
<1>4. mac[n].currentPacket.type \notin {"DATA", "GTS_REQUEST"}
  BY <1>2 DEF AllOwed, Owed
<1> QED
  BY <1>1, <1>2, <1>3, <1>4, NodeFacts

\* The next packet is one a node may have in service.
LEMMA NextServes ==
    ASSUME NEW s \in NodeState, Buffers(s), Serves(s), NEW t, SameQueue(s, t) \/ Follows(s, t)
    PROVE  Serves(t)
<1>1. CASE SameQueue(s, t)
  BY <1>1 DEF SameQueue, Serves
<1>2. CASE Follows(s, t)
  BY <1>2, FollowsWhat DEF Serves, Own
<1> QED
  BY <1>1, <1>2

\* The timers of a node that are no attempts,
LEMMA SlottedKeeps ==
    ASSUME IInv, AllSlotted, NEW n \in Node, Lesser(n) \/ GtsStart(n), Keeps(n),
           par' = par, hub' = hub
    PROVE  AllSlotted'
<1> DEFINE h == mac[Hub]
           s == mac[n]
<1>1. Setting /\ NodesOK /\ Hub \in Node
  BY SettingOK DEF IInv, Setting
<1>2. PICK t : Alone(n, t) /\ Still(n, s, t)
  BY DEF Keeps
<1>3. mac'[n] = t
  BY <1>2 DEF Alone
<1>4. /\ t.frame = s.frame /\ t.to = s.to /\ t.capLeft = s.capLeft /\ t.gtsLeft = s.gtsLeft
      /\ t.adjacent = s.adjacent /\ t.disabled = s.disabled /\ t.guest = s.guest
      /\ t.carried = s.carried /\ t.timers["ACK_TIMEOUT"] = s.timers["ACK_TIMEOUT"]
  BY <1>2 DEF Still
<1>5. Slotted(hub, h, n, t)
  <2> SUFFICES ASSUME Bound(h, n, t) PROVE Orderly(hub, n, t, Elapsed(h))
    BY DEF Slotted
  <2>1. Bound(h, n, s)
    BY <1>4 DEF Bound, Overruns
  <2>2. Laid(hub) /\ Elapsed(h) \in Int /\ Orderly(hub, n, s, Elapsed(h))
    BY <2>1, SlotFacts
  <2>3. CASE Lesser(n)
    <3>1. Stays(s, t)
      BY <1>1, <1>3, <2>3, LesserStays
    <3> HIDE DEF s, h
    <3>2. Speaking(t) => Speaking(s) /\ (Unicast(s) => Unicast(t))
      BY <1>4 DEF Speaking, Unicast
    <3>3. Quieter(s, t)
      BY <1>4, <3>1, <3>2 DEF Quieter, Stays, Waking
    <3> QED
      BY <2>2, <3>3, QuieterOrderly
  <2>4. CASE GtsStart(n)
    <3>1. t.timers["ATTEMPT_TX"] = 1 /\ s.gtsLeft = 2 * par.requestGTS + 1
      BY <1>1, <1>3, <2>4, GtsStartStarts
    <3> HIDE DEF s, h
    <3> QED
      BY <1>1, <1>2, <2>2, <3>1, StartsOrderly
  <2> QED
    BY <2>3, <2>4
<1>6. Calm(h, mac'[Hub])
  BY <1>1, <1>2, CalmOther, StillSides DEF h
<1>7. n = Hub => Unsensed(t)
  <2>1. n = Hub => s.associated /\ Unsensed(s)
    BY <1>1 DEF NodesOK, NodeOK, Leads, AllSlotted
  <2> QED
    BY <1>2, <2>1 DEF Still, Unsensed
<1>8. SamePlan(hub, hub')
  BY DEF SamePlan
<1> QED
  BY <1>1, <1>2, <1>5, <1>6, <1>7, <1>8, SlottedAlone

\* the loss of the PAN,
LEMMA SlottedQuits ==
    ASSUME IInv, AllSlotted, NEW n \in Node, Quits(n), par' = par, hub' = hub
    PROVE  AllSlotted'
<1> DEFINE h == mac[Hub]
           s == mac[n]
<1>1. Setting /\ NodesOK /\ Hub \in Node
  BY SettingOK DEF IInv, Setting
<1>2. PICK t : Alone(n, t) /\ Leaves(n, s, t)
  BY DEF Quits
<1>3. n # Hub
  BY DEF Quits
<1>4. Slotted(hub, h, n, t)
  <2> SUFFICES ASSUME Bound(h, n, t) PROVE Orderly(hub, n, t, Elapsed(h))
    BY DEF Slotted
  <2>1. Bound(h, n, s)
    BY <1>2 DEF Bound, Overruns, Leaves
  <2>2. Orderly(hub, n, s, Elapsed(h))
    BY <2>1, SlotFacts
  <2> HIDE DEF s, h
  <2>3. Quieter(s, t)
    BY <1>2 DEF Quieter, Leaves, Speaking, Unicast, Waking, Transmissions
  <2> QED
    BY <2>2, <2>3, QuieterOrderly
<1>5. Calm(h, mac'[Hub])
  BY <1>1, <1>2, <1>3, CalmOther
<1>6. SamePlan(hub, hub')
  BY DEF SamePlan
<1> QED
  BY <1>1, <1>2, <1>3, <1>4, <1>5, <1>6, SlottedAlone

\* and the attempts, none of which is made while a node wakes up for its slot.
LEMMA SlottedAttempts ==
    ASSUME IInv, AllOwed, AllLocal, AllSlotted, NEW n \in Node,
           AckTimeout(n) \/ AttemptTx(n) \/ CcaClear(n) \/ CcaBusy(n), Attempting(n),
           par' = par, hub' = hub
    PROVE  AllSlotted'
<1> DEFINE h == mac[Hub]
           s == mac[n]
<1>1. Setting /\ NodesOK /\ Hub \in Node
  BY SettingOK DEF IInv, Setting
<1>2. PICK t : Alone(n, t) /\ Tries(n, s, t)
  BY DEF Attempting
<1>3. /\ s \in NodeState /\ Buffers(s) /\ Serves(s) /\ Asks(n, s)
      /\ s.currentPacket.type = "DATA" => s.associated
      /\ s.macState = "GTS" => s.associated
  BY SideFacts
<1>4. /\ s.timers["ACK_TIMEOUT"] = 0 \/ s.timers["ATTEMPT_TX"] = 0 \/ s.macState # "GTS"
  BY DEF AckTimeout, AttemptTx, CcaClear, CcaBusy, Fires, Due, Assesses
<1>5. /\ t.guest = s.guest /\ t.carried = s.carried /\ t.adjacent = s.adjacent
      /\ s.to = {} /\ ~s.disabled /\ Moves(n, s, t)
  BY <1>2 DEF Tries, Moves, SameOwn
<1>9. s.macState = "SETUP" /\ (n = Hub \/ ~s.guest) => Holds(s, t)
  <2>1. n = Hub => Unsensed(s)
    BY DEF AllSlotted
  <2>2. n # Hub /\ ~s.guest /\ s.macState = "SETUP" => s.currentPacket = NoFrame
    BY SetupIdle
  <2> QED
    BY <1>2, <2>1, <2>2 DEF Tries, Unsensed
<1>10. n = Hub => Unsensed(t)
  <2>1. n = Hub => Unsensed(s)
    BY DEF AllSlotted
  <2> QED
    BY <1>5, <1>9, <2>1, MovesUnsensed
<1>6. Slotted(hub, h, n, t)
  <2> SUFFICES ASSUME Bound(h, n, t) PROVE Orderly(hub, n, t, Elapsed(h))
    BY DEF Slotted
  <2>1. Bound(h, n, s)
    BY <1>5 DEF Bound, Overruns
  <2>2. /\ Laid(hub) /\ Elapsed(h) \in Int /\ Orderly(hub, n, s, Elapsed(h)) /\ Poised(n, s)
        /\ ~Overruns(s)
    BY <1>5, <2>1, SlotFacts
  <2>3. s.macState = "SETUP" => Holds(s, t)
    BY <1>9, <2>1 DEF Bound
  <2> HIDE DEF s, h
  <2>4. ~Waking(s)
    <3> SUFFICES ASSUME Waking(s) PROVE FALSE
      OBVIOUS
    <3>1. ~Busy(s) /\ s.timers["ATTEMPT_TX"] = 1
      BY <1>1, <1>5, <2>2, WakingIdle
    <3>2. s.timers["ACK_TIMEOUT"] = 0
      BY <1>4, <3>1 DEF Waking
    <3> QED
      BY <3>1, <3>2 DEF Busy, Running, Off
  <2>5. Serves(t)
    BY <1>2, <1>3, NextServes DEF Tries
  <2> QED
    BY <1>1, <1>5, <2>2, <2>3, <2>4, <2>5, MovesOrderly
<1>7. Calm(h, mac'[Hub])
  <2>1. n = Hub => Calm(h, t)
    BY <1>2, <1>3, TriesSides
  <2> QED
    BY <1>1, <1>2, <2>1, CalmOther
<1>8. SamePlan(hub, hub')
  BY DEF SamePlan
<1> QED
  BY <1>1, <1>2, <1>6, <1>7, <1>8, <1>10, SlottedAlone

\* ATTEMPT_TX while an answer is waited for begins nothing.
LEMMA SlottedWaits ==
    ASSUME IInv, AllSlotted, NEW n \in Node, AttemptTx(n), Running(mac[n], "ACK_TIMEOUT")
    PROVE  AllSlotted'
<1> DEFINE h == mac[Hub]
           s == mac[n]
           t == Stop(s, "ATTEMPT_TX")
<1>1. Setting /\ NodesOK /\ Hub \in Node
  BY SettingOK DEF IInv, Setting
<1>2. s \in NodeState /\ s.timers["ATTEMPT_TX"] = 0 /\ "ATTEMPT_TX" \in Timer /\ ~s.disabled
  BY <1>1, FiresOK DEF AttemptTx, Fires, Due, Timer
<1>3. /\ t \in NodeState /\ SameOwn(s, t) /\ SameRadio(s, t) /\ SamePackets(s, t)
      /\ \A x \in Timer : t.timers[x] = IF x = "ATTEMPT_TX" THEN Off ELSE s.timers[x]
  BY <1>2, StopOK
<1>4. t.timers["ACK_TIMEOUT"] = s.timers["ACK_TIMEOUT"] /\ t.timers["ATTEMPT_TX"] = Off
      /\ t.timers["FRAME_START"] = s.timers["FRAME_START"]
  BY <1>3 DEF Timer
<1>5. Becomes(n, t)
  BY <1>4 DEF AttemptTx, After, Running
<1>6. Alone(n, t)
  <2> HIDE DEF t
  <2> QED
    BY <1>1, <1>5, Became DEF Alone
<1>7. par' = par /\ SamePlan(hub, hub')
  BY DEF AttemptTx, SamePlan
<1>8. Slotted(hub, h, n, s)
  BY DEF AllSlotted
<1> HIDE DEF t, s, h
<1>9. Slotted(hub, h, n, t)
  <2> SUFFICES ASSUME Bound(h, n, t) PROVE Orderly(hub, n, t, Elapsed(h))
    BY DEF Slotted
  <2>1. Orderly(hub, n, s, Elapsed(h))
    BY <1>3, <1>8 DEF Slotted, Bound, Overruns, SameOwn
  <2>2. ~Waking(s)
    BY <1>2, <2>1 DEF Orderly, Polite
  <2>3. Quieter(s, t)
    BY <1>3, <1>4, <2>2 DEF Quieter, SameOwn, SameRadio, SamePackets, Speaking, Unicast, Waking
  <2> QED
    BY <2>1, <2>3, QuieterOrderly
<1>10. Calm(s, t)
  BY <1>3, <1>4 DEF Calm, SameOwn, SameRadio
<1>11. Calm(h, mac'[Hub])
  BY <1>1, <1>6, <1>10, CalmOther DEF h, s
<1>12. n = Hub => Unsensed(t)
  <2>1. n = Hub => Unsensed(s)
    BY DEF AllSlotted, s
  <2>2. t.macState = s.macState /\ t.timers["PERFORM_CCA"] = s.timers["PERFORM_CCA"]
    BY <1>3 DEF SameOwn, Timer
  <2> QED
    BY <2>1, <2>2 DEF Unsensed, Running
<1> QED
  BY <1>1, <1>6, <1>7, <1>9, <1>11, <1>12, SlottedAlone DEF h, s

\* The timers of a node,
LEMMA SlottedTimers ==
    ASSUME IInv, AllOwed, AllLocal, AllSlotted, NEW n \in Node, Timers(n)
    PROVE  AllSlotted'
<1>1. Setting /\ NodesOK
  BY SettingOK DEF IInv
<1>2. par' = par /\ hub' = hub
  BY DEF Timers, FrameStart, GtsStart, BeaconTimeout, AckTimeout, AttemptTx, SleepStart,
         BackToSetup, CcaInVain, CcaNotValid, CcaClear, CcaBusy
<1>3. CASE FrameStart(n) \/ GtsStart(n) \/ SleepStart(n) \/ BackToSetup(n)
             \/ CcaInVain(n) \/ CcaNotValid(n)
  <2>1. Keeps(n)
    BY <1>1, <1>3, FrameStartKeeps, GtsStartKeeps, SleepStartKeeps, BackToSetupKeeps, NoCcaKeeps
  <2> QED
    BY <1>2, <1>3, <2>1, SlottedKeeps DEF Lesser
<1>4. CASE BeaconTimeout(n)
  BY <1>1, <1>2, <1>4, BeaconTimeoutQuits, SlottedKeeps, SlottedQuits DEF Lesser
<1>5. CASE AckTimeout(n) \/ AttemptTx(n) \/ CcaClear(n) \/ CcaBusy(n)
  <2>1. AckTimeout(n) => Attempting(n)
    BY <1>1, AckTimeoutAttempts
  <2>2. CcaClear(n) => Attempting(n)
    BY <1>1, CcaClearAttempts
  <2>3. CcaBusy(n) => Attempting(n)
    BY <1>1, CcaBusyAttempts
  <2>4. AttemptTx(n) => Attempting(n) \/ Running(mac[n], "ACK_TIMEOUT")
    BY <1>1, AttemptTxAttempts
  <2> QED
    BY <1>2, <1>5, <2>1, <2>2, <2>3, <2>4, SlottedAttempts, SlottedWaits
<1> QED
  BY <1>3, <1>4, <1>5 DEF Timers

\* death and losses,
LEMMA SlottedLess ==
    ASSUME IInv, AllSlotted, NEW n \in Node, Disable(n) \/ \E m \in Node : Lose(n, m)
    PROVE  AllSlotted'
<1> DEFINE h == mac[Hub]
           s == mac[n]
<1>1. Setting /\ NodesOK /\ Hub \in Node
  BY SettingOK DEF IInv, Setting
<1>2. Slotted(hub, h, n, s)
  BY DEF AllSlotted
<1>3. CASE Disable(n)
  <2>1. PICK t : Alone(n, t) /\ Dies(s, t)
    BY <1>1, <1>3, DisableDies
  <2>2. par' = par /\ SamePlan(hub, hub')
    BY <1>3 DEF Disable, SamePlan
  <2>3. Slotted(hub, h, n, t) /\ Calm(s, t) /\ Unsensed(t)
    <3> HIDE DEF s, h
    <3>1. Quieter(s, t)
      BY <2>1 DEF Quieter, Dies, SameRadio, Speaking, Unicast, Waking, Timer
    <3>2. Bound(h, n, t) => Bound(h, n, s)
      BY <2>1 DEF Bound, Overruns, Dies
    <3>3. Calm(s, t)
      BY <2>1 DEF Calm, Dies, SameRadio
    <3>4. Unsensed(t)
      BY <2>1 DEF Unsensed, Dies, Running, Timer
    <3> QED
      BY <1>2, <3>1, <3>2, <3>3, <3>4, QuieterOrderly DEF Slotted
  <2>4. Calm(h, mac'[Hub])
    BY <1>1, <2>1, <2>3, CalmOther
  <2> QED
    BY <1>1, <2>1, <2>2, <2>3, <2>4, SlottedAlone
<1>4. ASSUME NEW m \in Node, Lose(n, m) PROVE AllSlotted'
  <2>1. PICK t : Alone(n, t) /\ Loses(m, s, t)
    BY <1>1, <1>4, LoseAlone
  <2>2. par' = par /\ SamePlan(hub, hub')
    BY <1>4 DEF Lose, SamePlan
  <2>5. n = Hub => Unsensed(s)
    BY DEF AllSlotted
  <2>3. Slotted(hub, h, n, t) /\ Calm(s, t) /\ (n = Hub => Unsensed(t))
    <3> HIDE DEF s, h
    <3> QED
      BY <1>2, <2>1, <2>5, LosesOrderly, LosesSides
  <2>4. Calm(h, mac'[Hub])
    BY <1>1, <2>1, <2>3, CalmOther
  <2> QED
    BY <1>1, <2>1, <2>2, <2>3, <2>4, SlottedAlone
<1> QED
  BY <1>3, <1>4

\* a beacon, which sets the clock and the plan,
LEMMA SlottedBeacon ==
    ASSUME IInv, AllSlotted, NEW n \in Node, ReceiveBeacon(n)
    PROVE  AllSlotted'
<1> DEFINE h == mac[Hub]
           s == mac[n]
<1>1. Setting /\ NodesOK /\ ListOK /\ Hub \in Node /\ Laid(hub)
  BY SettingOK, SlotsLaid DEF IInv, Setting
<1>2. PICK t : Handover(Hub, n, t) /\ Hears(n, s, t)
  BY <1>1, BeaconHeard
<1>3. h.frame.type = "BEACON" /\ n \in h.to /\ n # Hub
  BY <1>1, <1>2, BeaconHeard DEF Handover
<1>4. ~h.disabled => Elapsed(h) = 0
  <2>1. Leads(h) /\ Interval \in Nat
    BY <1>1 DEF NodesOK, NodeOK, Setting
  <2>2. ~h.disabled => h.timers["FRAME_START"] = Interval
    BY <1>3, <2>1 DEF Leads
  <2> QED
    BY <2>1, <2>2 DEF Elapsed
<1>5. InStep(hub, n, t, 0)
  <2> DEFINE k == hub.announced
             mine == {i \in 1..k : hub.GTSlist[i] = n}
  <2>1. /\ t.capLeft = CAPend(k)
        /\ mine = {} => t.gtsLeft = 0
        /\ mine # {} => \E i \in mine : t.gtsLeft = gtsEnd(i) /\ t.adjacent = (i = k)
    BY <1>2 DEF Hears, Placed
  <2>2. CAPend(k) \in Int /\ \A i \in 1..k : gtsEnd(i) \in Int
    BY <1>1 DEF Laid
  <2>3. t.capLeft = CAPend(k) - 0
    BY <2>1, <2>2
  <2>4. ASSUME t.gtsLeft > 0
        PROVE  \E i \in 1..k : /\ hub.GTSlist[i] = n /\ t.gtsLeft = gtsEnd(i) - 0
                               /\ (t.adjacent <=> i = k)
    <3>1. PICK i \in mine : t.gtsLeft = gtsEnd(i) /\ t.adjacent = (i = k)
      BY <2>1, <2>4
    <3>2. i \in 1..k /\ hub.GTSlist[i] = n
      OBVIOUS
    <3>3. t.gtsLeft = gtsEnd(i) - 0
      BY <2>2, <3>1, <3>2
    <3> QED
      BY <3>1, <3>2, <3>3
  <2> QED
    BY <2>3, <2>4 DEF InStep
<1>6. ~t.carried => t.timers["ACK_TIMEOUT"] = Off
  BY <1>2 DEF Hears, Running
<1>7. t.to = {} /\ t.macState = "CAP"
  BY <1>2 DEF Hears
<1>8. Slotted(hub, h, n, t)
  <2>1. ~t.carried => Polite(hub, n, t, 0)
    BY <1>6, <1>7 DEF Polite, Busy, Speaking, Waking, Running, Off
  <2> QED
    BY <1>3, <1>4, <1>5, <2>1 DEF Slotted, Bound, Orderly
<1>9. Calm(h, mac'[Hub])
  BY <1>1, <1>2, <1>3, CalmExchange
<1>10. par' = par /\ SamePlan(hub, hub')
  BY DEF ReceiveBeacon, SamePlan
<1> QED
  BY <1>1, <1>2, <1>3, <1>8, <1>9, <1>10, SlottedExchange

\* Who answers stays in order.
LEMMA AnswersOrderly ==
    ASSUME IInv, AllSlotted, NEW n \in Node, NEW m, NEW f, NEW t, Answers(m, mac[n], f, t),
           ~Waking(mac[n])
    PROVE  /\ Slotted(hub, mac[Hub], n, t) /\ (n = Hub => Unsensed(t))
           /\ Calm(mac[n], t)
<1> DEFINE h == mac[Hub]
           s == mac[n]
<1>1. Slotted(hub, h, n, s) /\ (n = Hub => Unsensed(s))
  BY DEF AllSlotted
<1> HIDE DEF h
<1>2. Answers(m, s, f, t) /\ ~Waking(s)
  OBVIOUS
<1> HIDE DEF s
<1>3. /\ SameOwn(s, t) /\ t.frame.type = "ACK"
      /\ t.timers["ACK_TIMEOUT"] = s.timers["ACK_TIMEOUT"]
      /\ t.timers["PERFORM_CCA"] = s.timers["PERFORM_CCA"]
  BY <1>2 DEF Answers, Timer
<1>4. Quieter(s, t)
  BY <1>2, <1>3 DEF Quieter, SameOwn, Speaking, Waking
<1>5. Bound(h, n, t) => Bound(h, n, s)
  BY <1>3 DEF Bound, Overruns, SameOwn
<1>6. Slotted(hub, h, n, t) /\ (n = Hub => Unsensed(t))
  BY <1>1, <1>3, <1>4, <1>5, QuieterOrderly DEF Slotted, SameOwn, Unsensed, Running
<1>7. Calm(s, t)
  BY <1>2, AnswersSides
<1> QED
  BY <1>6, <1>7 DEF h, s

\* the coordinator's answer to a request,
LEMMA SlottedRequest ==
    ASSUME IInv, AllSlotted, NEW m \in Node, NEW f, NEW t, Handover(m, Hub, t),
           Answers(m, mac[Hub], f, t), ~Waking(mac[Hub]), par' = par, SamePlan(hub, hub')
    PROVE  AllSlotted'
<1>1. Setting /\ NodesOK /\ Hub \in Node
  BY SettingOK DEF IInv, Setting
<1>2. /\ Slotted(hub, mac[Hub], Hub, t) /\ Unsensed(t)
      /\ Calm(mac[Hub], t)
  BY <1>1, AnswersOrderly
<1>3. Calm(mac[Hub], mac'[Hub])
  BY <1>1, <1>2, CalmExchange
<1> QED
  BY <1>1, <1>2, <1>3, SlottedExchange

\* data and its answer,
LEMMA SlottedData ==
    ASSUME IInv, AllSlotted, NEW m \in Node, NEW n \in Node, ReceiveData(m, n)
    PROVE  AllSlotted'
<1>1. Setting /\ NodesOK /\ Hub \in Node
  BY SettingOK DEF IInv, Setting
<1>2. par' = par /\ SamePlan(hub, hub') /\ ~Waking(mac[n])
  BY DEF ReceiveData, SamePlan, Arrives
<1>3. CASE Handover(m, n, mac[n])
  <2>1. Calm(mac[Hub], mac'[Hub])
    BY <1>1, <1>3, CalmExchange, CalmSelf
  <2> QED
    BY <1>1, <1>2, <1>3, <2>1, SlottedExchange DEF AllSlotted
<1>4. ASSUME NEW t, Handover(m, n, t),
             Answers(m, mac[n], Frame("ACK", m, mac[m].frame.sn - 1, 0), t)
      PROVE  AllSlotted'
  <2>1. Slotted(hub, mac[Hub], n, t) /\ (n = Hub => Unsensed(t)) /\ Calm(mac[n], t)
    BY <1>2, <1>4, AnswersOrderly
  <2>2. Calm(mac[Hub], mac'[Hub])
    BY <1>1, <1>4, <2>1, CalmExchange
  <2> QED
    BY <1>1, <1>2, <1>4, <2>1, <2>2, SlottedExchange
<1> QED
  BY <1>1, <1>3, <1>4, DataAnswered

\* an ACK, after which the next packet may be sent at once,
LEMMA SlottedAck ==
    ASSUME IInv, AllOwed, AllLocal, AllSlotted, NEW m \in Node, NEW n \in Node, ReceiveAck(m, n)
    PROVE  AllSlotted'
<1> DEFINE h == mac[Hub]
           s == mac[n]
           f == mac[m].frame
<1>1. Setting /\ NodesOK /\ Hub \in Node
  BY SettingOK DEF IInv, Setting
<1>2. PICK t : Handover(m, n, t) /\ Learns(n, s, f, t)
  BY <1>1, AckLearned
<1>3. par' = par /\ SamePlan(hub, hub') /\ ~Waking(s)
  BY DEF ReceiveAck, SamePlan, Arrives
<1>4. CASE s.currentPacket = NoFrame
  <2>1. t = s
    BY <1>2, <1>4 DEF Learns
  <2>2. Calm(h, mac'[Hub])
    BY <1>1, <1>2, <2>1, CalmExchange, CalmSelf
  <2> QED
    BY <1>1, <1>2, <1>3, <2>1, <2>2, SlottedExchange DEF AllSlotted
<1>5. CASE s.currentPacket # NoFrame
  <2>1. /\ s \in NodeState /\ Buffers(s) /\ Serves(s) /\ Asks(n, s)
        /\ s.currentPacket.type = "DATA" => s.associated
        /\ s.macState = "GTS" => s.associated
    BY SideFacts
  <2>2. n = Hub \/ ~s.guest => s.currentPacket.type # "ASSOCIATE"
    BY <1>1 DEF NodesOK, NodeOK, Leads, Member
  <2>3. n = Hub => Unsensed(s)
    BY DEF AllSlotted
  <2>4. Calm(s, t)
    <3> HIDE DEF s, f
    <3> QED
      BY <1>2, <1>5, <2>1, LearnsSides
  <2>5. Calm(h, mac'[Hub])
    BY <1>1, <1>2, <2>4, CalmExchange
  <2>6. PICK x : /\ s.to = {} /\ ~s.disabled /\ Settles(s, x, f) /\ Moves(n, x, t)
                 /\ SameQueue(x, t) \/ Follows(x, t)
                 /\ x.macState # "GTS" => Holds(x, t)
    BY <1>2, <1>5 DEF Learns
  <2>7. /\ x \in NodeState /\ x.frame = s.frame /\ x.to = s.to
        /\ x.currentPacket = s.currentPacket /\ x.TXBuffer = s.TXBuffer
        /\ x.capLeft = s.capLeft /\ x.gtsLeft = s.gtsLeft
        /\ x.adjacent = s.adjacent /\ x.disabled = s.disabled /\ x.guest = s.guest
        /\ x.carried = s.carried /\ x.timers["ACK_TIMEOUT"] = Off
        /\ x.timers["PERFORM_CCA"] = s.timers["PERFORM_CCA"]
        /\ s.currentPacket.type # "ASSOCIATE" => x.macState = s.macState
    BY <2>6 DEF Settles, SameRadio, SameQueue, Timer
  <2>8. t.guest = x.guest /\ t.carried = x.carried /\ t.adjacent = x.adjacent
    BY <2>6 DEF Moves, SameOwn
  <2>9. n = Hub => Unsensed(t)
    <3>1. n = Hub => Unsensed(x)
      BY <2>2, <2>3, <2>7 DEF Unsensed, Running
    <3> QED
      BY <2>6, <3>1, MovesUnsensed
  <2>10. Serves(t)
    <3>1. Buffers(x) /\ Serves(x)
      BY <2>1, <2>7 DEF Buffers, Serves
    <3> QED
      BY <2>6, <2>7, <3>1, NextServes
  <2>11. Slotted(hub, h, n, t)
    <3> SUFFICES ASSUME Bound(h, n, t) PROVE Orderly(hub, n, t, Elapsed(h))
      BY DEF Slotted
    <3>1. Bound(h, n, s)
      BY <2>7, <2>8 DEF Bound, Overruns
    <3>2. /\ Laid(hub) /\ Elapsed(h) \in Int /\ Orderly(hub, n, s, Elapsed(h)) /\ Poised(n, s)
          /\ ~Overruns(s)
      BY <2>6, <3>1, SlotFacts
    <3>3. x.macState = s.macState
      BY <2>2, <2>7, <3>1 DEF Bound
    <3> HIDE DEF s, h, f
    <3>4. ~Waking(x) /\ Poised(n, x) /\ ~Overruns(x)
      BY <1>3, <2>7, <3>2, <3>3 DEF Waking, Poised, Overruns
    <3>5. Quieter(s, x)
      BY <2>6, <2>7, <3>4 DEF Quieter, Speaking
    <3>6. Orderly(hub, n, x, Elapsed(h)) /\ x.to = {}
      BY <2>6, <2>7, <3>2, <3>5, QuieterOrderly
    <3> QED
      BY <1>1, <2>6, <2>10, <3>2, <3>4, <3>6, MovesOrderly
  <2> QED
    BY <1>1, <1>2, <1>3, <2>5, <2>9, <2>11, SlottedExchange
<1> QED
  BY <1>4, <1>5

\* and a packet handed down.
LEMMA SlottedAccepts ==
    ASSUME IInv, AllOwed, AllLocal, AllSlotted, NEW n \in Node, NEW dst \in Address,
           FromNetworkLayer(n, dst)
    PROVE  AllSlotted'
<1> DEFINE h == mac[Hub]
           s == mac[n]
           p == Frame("DATA", dst, Len(sent[n]) + 1, 0)
<1>1. Setting /\ NodesOK /\ Hub \in Node /\ sent \in [Node -> Seq(Address)]
  BY SettingOK DEF IInv, Setting
<1>2. PICK t : Alone(n, t) /\ Accepts(n, s, p, t)
  BY <1>1, PacketAccepted
<1>3. par' = par /\ SamePlan(hub, hub')
  BY DEF FromNetworkLayer, SamePlan
<1>4. s \in NodeState /\ Serves(s) /\ OnAir(s) /\ (n # Hub => Seated(n, s))
  BY SideFacts DEF AllLocal, Local
<1>5. p.type = "DATA"
  BY DEF Frame
<1>6. n = Hub => Unsensed(s)
  BY DEF AllSlotted
<1>7. Slotted(hub, h, n, s)
  BY DEF AllSlotted
<1>8. Bound(h, n, s) => /\ Laid(hub) /\ Elapsed(h) \in Int /\ Orderly(hub, n, s, Elapsed(h))
                        /\ ~s.disabled => Poised(n, s)
                        /\ ~Overruns(s)
  BY SlotFacts
<1> HIDE DEF h, s, p
<1>9. /\ Moves(n, s, t) /\ ~s.disabled
      /\ t.currentPacket \in {p, s.currentPacket}
      /\ (Running(s, "ATTEMPT_TX") \/ Running(s, "ACK_TIMEOUT")
            \/ ~s.associated \/ s.currentPacket # NoFrame)
           => SameRadio(s, t) /\ t.timers = s.timers
      /\ s.macState = "SETUP" => Holds(s, t)
  BY <1>2 DEF Accepts
<1>10. SameOwn(s, t) /\ t.timers["FRAME_START"] = s.timers["FRAME_START"]
  BY <1>9 DEF Moves
<1>11. /\ Bound(h, n, t) => Bound(h, n, s)
       /\ t.disabled = s.disabled
  BY <1>10 DEF Bound, Overruns, SameOwn
<1>14. n = Hub => Unsensed(t)
  BY <1>6, <1>9, MovesUnsensed
<1>12. CASE SameRadio(s, t) /\ t.timers = s.timers
  <2>1. Quieter(s, t)
    BY <1>10, <1>12 DEF Quieter, SameOwn, SameRadio, Speaking, Unicast, Waking
  <2>2. Slotted(hub, h, n, t)
    BY <1>7, <1>11, <2>1, QuieterOrderly DEF Slotted
  <2>3. Calm(s, t)
    BY <1>10, <1>11, <1>12 DEF Calm, SameRadio
  <2>4. Calm(h, mac'[Hub])
    BY <1>1, <1>2, <2>3, CalmOther DEF h, s
  <2> QED
    BY <1>1, <1>2, <1>3, <1>14, <2>2, <2>4, SlottedAlone DEF h, s
<1>13. CASE ~(SameRadio(s, t) /\ t.timers = s.timers)
  <2>1. /\ ~Running(s, "ATTEMPT_TX") /\ ~Running(s, "ACK_TIMEOUT")
        /\ s.associated /\ s.currentPacket = NoFrame
    BY <1>9, <1>13
  <2>2. s.to = {}
    BY <1>4, <1>9, <2>1 DEF OnAir
  <2>3. Serves(t)
    BY <1>4, <1>5, <1>9 DEF Serves, Own
  <2>4. Slotted(hub, h, n, t)
    <3> SUFFICES ASSUME Bound(h, n, t) PROVE Orderly(hub, n, t, Elapsed(h))
      BY DEF Slotted
    <3>1. /\ Laid(hub) /\ Elapsed(h) \in Int /\ Orderly(hub, n, s, Elapsed(h)) /\ Poised(n, s)
          /\ ~Overruns(s)
      BY <1>8, <1>9, <1>11
    <3>2. ~Waking(s)
      BY <1>9, <2>1, <3>1 DEF Orderly, Polite, Running, Off
    <3> QED
      BY <1>1, <1>9, <2>2, <2>3, <3>1, <3>2, MovesOrderly
  <2>5. Calm(s, t)
    <3>1. t.frame.type = "BEACON" => t.to = {}
      BY <1>9, <2>2, <2>3 DEF Moves, Holds, Sends, Serves, Own
    <3> QED
      BY <1>10, <1>11, <3>1 DEF Calm
  <2>6. Calm(h, mac'[Hub])
    BY <1>1, <1>2, <2>5, CalmOther DEF h, s
  <2> QED
    BY <1>1, <1>2, <1>3, <1>14, <2>4, <2>6, SlottedAlone DEF h, s
<1> QED
  BY <1>12, <1>13

\* A node in order is so a tick later: what lasts has been told that it may.
LEMMA TickOrderly ==
    ASSUME Setting, NEW u, Laid(u), NEW n, NEW s \in NodeState, NEW t, NEW x \in Int,
           Orderly(u, n, s, x), Ticks(s, t), Ranged(s), OnAir(s),
           Waking(s) /\ ~s.disabled => s.gtsLeft <= 2 * par.requestGTS + 1
    PROVE  Orderly(u, n, t, x + 1)
<1>1. /\ t.capLeft = Less(s.capLeft) /\ t.gtsLeft = Less(s.gtsLeft) /\ t.adjacent = s.adjacent
      /\ t.macState = s.macState /\ t.disabled = s.disabled /\ t.to = s.to /\ t.frame = s.frame
      /\ s.to # {} => Lasts(s)
  BY DEF Ticks, SameRadio
<1>2. s.capLeft \in Int /\ s.gtsLeft \in Int /\ s.capLeft >= 0 /\ s.gtsLeft >= 0
      /\ par.requestGTS \in Nat
  BY DEF NodeState, Ranged, Setting
<1>3. ASSUME NEW y \in {"ACK_TIMEOUT", "ATTEMPT_TX"}
      PROVE  /\ s.timers[y] \in Int /\ s.timers[y] # 0 /\ s.timers[y] >= -1
             /\ t.timers[y] = IF s.timers[y] > 0 THEN s.timers[y] - 1 ELSE s.timers[y]
             /\ s.disabled => s.timers[y] = Off
  <2>1. y \in Timer
    BY DEF Timer
  <2>2. s.timers[y] \in Int /\ s.timers[y] # 0 /\ t.timers[y] = Less(s.timers[y])
    BY <2>1 DEF Ticks, NodeState
  <2>3. s.timers[y] >= Off /\ (s.disabled => s.timers[y] = Off)
    BY <2>1 DEF Ranged
  <2> QED
    BY <2>2, <2>3 DEF Less, Off
<1>4. InStep(u, n, t, x + 1)
  <2>1. InStep(u, n, s, x)
    BY DEF Orderly
  <2>2. CAPend(u.announced) \in Int /\ \A i \in 1..u.announced : gtsEnd(i) \in Int
    BY DEF Laid
  <2>3. t.capLeft > 0 => t.capLeft = CAPend(u.announced) - (x + 1)
    BY <1>1, <1>2, <2>1, <2>2 DEF InStep, Less
  <2>4. ASSUME t.gtsLeft > 0
        PROVE  \E i \in 1..u.announced : /\ u.GTSlist[i] = n /\ t.gtsLeft = gtsEnd(i) - (x + 1)
                                         /\ t.adjacent <=> i = u.announced
    <3>1. s.gtsLeft > 0 /\ t.gtsLeft = s.gtsLeft - 1
      BY <1>1, <1>2, <2>4 DEF Less
    <3>2. PICK i \in 1..u.announced : /\ u.GTSlist[i] = n /\ s.gtsLeft = gtsEnd(i) - x
                                      /\ (s.adjacent <=> i = u.announced)
      BY <2>1, <3>1 DEF InStep
    <3>3. t.gtsLeft = gtsEnd(i) - (x + 1)
      BY <2>2, <3>1, <3>2
    <3> QED
      BY <1>1, <3>2, <3>3
  <2> QED
    BY <2>3, <2>4 DEF InStep
<1>5. Polite(u, n, s, x)
  BY DEF Orderly
<1>6. s.timers["ACK_TIMEOUT"] >= 1 => Clear(u, n, x + 1)
  <2>1. s.timers["ACK_TIMEOUT"] >= 1 => 1 \in 1..s.timers["ACK_TIMEOUT"]
    BY <1>3
  <2> QED
    BY <1>5, <2>1 DEF Polite
<1>7. ASSUME Speaking(t), s.timers["ACK_TIMEOUT"] < 1 PROVE Clear(u, n, x + 1)
  <2>1. Speaking(s) /\ Lasts(s)
    BY <1>1, <1>7 DEF Speaking
  <2>2. s.timers["ACK_TIMEOUT"] = Off
    BY <1>3, <1>7 DEF Off
  <2>3. s.timers["ATTEMPT_TX"] > 0
    BY <2>1, <2>2 DEF Lasts, Off
  <2>4. 1 \in 1..s.timers["ATTEMPT_TX"] /\ ~s.disabled
    BY <1>3, <2>3 DEF Off
  <2>5. ~Unicast(s)
    BY <2>2, <2>4 DEF OnAir, Unicast, Running
  <2> QED
    BY <1>5, <2>1, <2>4, <2>5 DEF Polite
<1>8. Busy(t) => Clear(u, n, x + 1)
  <2>1. Running(t, "ACK_TIMEOUT") => s.timers["ACK_TIMEOUT"] >= 1
    BY <1>3 DEF Running, Off
  <2>2. s.timers["ACK_TIMEOUT"] >= 1 \/ s.timers["ACK_TIMEOUT"] < 1
    BY <1>3
  <2> QED
    BY <1>6, <1>7, <2>1, <2>2 DEF Busy
<1>9. ~(Waking(t) /\ ~t.disabled)
  <2> SUFFICES ASSUME Waking(t), ~t.disabled PROVE FALSE
    OBVIOUS
  <2>1. t.gtsLeft > 2 * par.requestGTS /\ t.macState = "GTS" /\ ~t.adjacent
    BY DEF Waking
  <2>4. 2 * par.requestGTS \in Nat
    BY <1>2
  <2>5. Less(s.gtsLeft) > 2 * par.requestGTS
    BY <1>1, <2>1
  <2>2. s.gtsLeft > 2 * par.requestGTS + 1
    BY <1>2, <2>4, <2>5 DEF Less
  <2>3. Waking(s) /\ ~s.disabled
    <3>1. (~s.disabled <=> ~t.disabled) /\ (~s.adjacent <=> ~t.adjacent) /\ s.macState = "GTS"
      BY <1>1, <2>1
    <3>2. s.gtsLeft > 2 * par.requestGTS
      BY <1>2, <2>2, <2>4
    <3> QED
      BY <2>1, <3>1, <3>2 DEF Waking
  <2>6. s.gtsLeft <= 2 * par.requestGTS + 1
    BY <2>3
  <2> QED
    BY <1>2, <2>2, <2>4, <2>6
<1>10. ASSUME NEW k \in {"ACK_TIMEOUT", "ATTEMPT_TX"}, NEW y \in 1..t.timers[k],
              \A z \in 1..s.timers[k] : Clear(u, n, x + z)
       PROVE  Clear(u, n, (x + 1) + y)
  <2>1. y + 1 \in 1..s.timers[k] /\ x + (y + 1) = (x + 1) + y
    BY <1>3
  <2>2. Clear(u, n, x + (y + 1))
    BY <1>10, <2>1
  <2> QED
    BY <2>1, <2>2
<1>11. Speaking(t) /\ ~Unicast(t) => Speaking(s) /\ ~Unicast(s)
  BY <1>1 DEF Speaking, Unicast
<1>12. Polite(u, n, t, x + 1)
  BY <1>5, <1>8, <1>9, <1>10, <1>11 DEF Polite
<1> QED
  BY <1>4, <1>12 DEF Orderly

\* So are all, by the coordinator's clock,
LEMMA SlottedTick ==
    ASSUME IInv, AllLocal, AllSlotted, Tick
    PROVE  AllSlotted'
<1> DEFINE h == mac[Hub]
           g == mac'[Hub]
<1>1. Setting /\ NodesOK /\ Hub \in Node
  BY SettingOK DEF IInv, Setting
<1>2. ASSUME NEW k \in Node
      PROVE  /\ Ticks(mac[k], mac'[k]) /\ Ranged(mac[k]) /\ OnAir(mac[k])
             /\ mac[k] \in NodeState
             /\ mac'[k].disabled = mac[k].disabled /\ mac'[k].guest = mac[k].guest
             /\ mac'[k].carried = mac[k].carried /\ mac'[k].adjacent = mac[k].adjacent
             /\ mac'[k].macState = mac[k].macState
  BY <1>1, TickTicks DEF NodesOK, NodeOK, AllLocal, Local, Ticks
<1>3. ~h.disabled => Elapsed(g) = Elapsed(h) + 1
  <2>1. ASSUME ~h.disabled PROVE g.timers["FRAME_START"] = h.timers["FRAME_START"] - 1
                                 /\ h.timers["FRAME_START"] \in Int
    <3>1. Leads(h) /\ "FRAME_START" \in Timer
      BY <1>1 DEF NodesOK, NodeOK, Timer
    <3>2. h.timers["FRAME_START"] \in Int /\ h.timers["FRAME_START"] >= -1
          /\ h.timers["FRAME_START"] # -1 /\ h.timers["FRAME_START"] # 0
      BY <1>1, <1>2, <2>1, <3>1 DEF Leads, Running, Ticks, Ranged, NodeState, Off
    <3>3. g.timers["FRAME_START"] = Less(h.timers["FRAME_START"])
      BY <1>1, <1>2, <3>1 DEF Ticks
    <3> QED
      BY <3>2, <3>3 DEF Less
  <2>2. Interval \in Int
    BY <1>1 DEF Setting
  <2> QED
    BY <2>1, <2>2 DEF Elapsed
<1>5. par' = par /\ hub' = hub
  BY DEF Tick
<1>4. ASSUME NEW k \in Node PROVE Slotted(hub, g, k, mac'[k])
  <2> SUFFICES ASSUME Bound(g, k, mac'[k]) PROVE Orderly(hub, k, mac'[k], Elapsed(g))
    BY DEF Slotted
  <2>1. Bound(h, k, mac[k]) /\ ~h.disabled
    BY <1>1, <1>2, <1>5 DEF Bound, Overruns
  <2>2. /\ Laid(hub) /\ Elapsed(h) \in Int /\ Orderly(hub, k, mac[k], Elapsed(h))
        /\ ~mac[k].disabled => Poised(k, mac[k])
    BY <2>1, SlotFacts
  <2>3. Waking(mac[k]) /\ ~mac[k].disabled => mac[k].gtsLeft <= 2 * par.requestGTS + 1
    BY <2>2 DEF Waking, Poised
  <2>4. Orderly(hub, k, mac'[k], Elapsed(h) + 1)
    <3> DEFINE s == mac[k]
               t == mac'[k]
    <3>1. s \in NodeState /\ Ticks(s, t) /\ Ranged(s) /\ OnAir(s)
      BY <1>2
    <3> HIDE DEF s, t, h
    <3> QED
      BY <1>1, <2>2, <2>3, <3>1, TickOrderly DEF s, t
  <2> QED
    BY <1>3, <2>1, <2>4
<1>6. Unsensed(g)
  <2>1. "PERFORM_CCA" \in Timer
    BY DEF Timer
  <2>2. /\ g.timers["PERFORM_CCA"] = Less(h.timers["PERFORM_CCA"])
        /\ g.macState = h.macState /\ Unsensed(h)
    BY <1>1, <1>2, <2>1 DEF Ticks, AllSlotted
  <2> QED
    BY <2>2 DEF Unsensed, Running, Less, Off
<1> QED
  BY <1>4, <1>5, <1>6, SlottedNext

\* and at its beacon, before which all slots are over.
LEMMA SlottedHub ==
    ASSUME IInv, AllSlotted, HubFrameStart
    PROVE  AllSlotted'
<1> DEFINE h == mac[Hub]
           g == mac'[Hub]
           v == hub'
<1>1. Setting /\ NodesOK /\ ListOK /\ Hub \in Node
  BY SettingOK DEF IInv, Setting
<1>2. Alone(Hub, g) /\ Announces(h, g)
  BY <1>1, HubBegins DEF Alone
<1>3. v.GTSlist = hub.GTSlist /\ v.announced = Len(hub.GTSlist)
  BY <1>1, HubBegins
<1>4. Laid(v)
  <2>1. Len(hub.GTSlist) \in Nat
    BY <1>1 DEF ListOK
  <2> HIDE DEF v
  <2> QED
    BY <1>1, <1>3, <2>1, PlanLaid
<1>5. \A n : Clear(v, n, 0) /\ Clear(v, n, 0 + 1)
  <2>1. 0 < CAPend(v.announced) /\ 1 < CAPend(v.announced)
    BY <1>4 DEF Laid
  <2> HIDE DEF v
  <2> QED
    BY <1>1, <1>4, <2>1, CapClear
<1>6. Elapsed(g) = 0
  <2>1. g.timers["FRAME_START"] = Interval /\ Interval \in Int
    BY <1>1, <1>2 DEF Announces, Setting
  <2> QED
    BY <2>1 DEF Elapsed
<1>7. ASSUME NEW n, NEW s, InStep(v, n, s, 0), ~(Waking(s) /\ ~s.disabled),
             ~Running(s, "ACK_TIMEOUT"), Speaking(s) => s.timers["ATTEMPT_TX"] = 0
      PROVE  Orderly(v, n, s, 0)
  <2>1. 1..s.timers["ACK_TIMEOUT"] = {} /\ (Speaking(s) => 1..s.timers["ATTEMPT_TX"] = {})
    BY <1>7 DEF Running, Off
  <2> QED
    BY <1>5, <1>7, <2>1 DEF Orderly, Polite
\* At a beacon nobody is Bound and busy: it is nobody's time, only the beacon's.
<1>12. ASSUME NEW n \in Node, Bound(h, n, mac[n])
       PROVE  mac[n].timers["ACK_TIMEOUT"] = Off /\ ~Speaking(mac[n])
  <2>1. Orderly(hub, n, mac[n], Elapsed(h))
    BY <1>12 DEF AllSlotted, Slotted
  <2>2. Elapsed(h) = Interval
    BY <1>1, <1>2 DEF Elapsed, Announces, Setting
  <2>3. ~Clear(hub, n, Elapsed(h))
    BY <1>1, <2>2 DEF Clear, Setting
  <2> QED
    BY <2>1, <2>3 DEF Orderly, Polite, Busy, Running
<1>8. Orderly(v, Hub, g, 0)
  <2>1. h.gtsLeft = 0
    BY <1>1 DEF NodesOK, NodeOK, Leads
  <2>2. g.capLeft = CAPend(v.announced) /\ g.gtsLeft = 0 /\ g.macState = "CAP"
    BY <1>2, <1>3, <2>1 DEF Announces
  <2>3. CAPend(v.announced) \in Int
    BY <1>4 DEF Laid
  <2>4. InStep(v, Hub, g, 0) /\ ~Waking(g)
    <3> HIDE DEF v, g
    <3> QED
      BY <2>2, <2>3 DEF InStep, Waking
  <2>5. Bound(h, Hub, h)
    BY <1>2 DEF Bound, Announces
  <2>6. g.timers["ACK_TIMEOUT"] = Off /\ g.timers["ATTEMPT_TX"] = 0
    BY <1>1, <1>2, <1>12, <2>5 DEF Announces, Timer
  <2> QED
    BY <1>7, <2>4, <2>6 DEF Running
<1>9. ASSUME NEW n \in Device, Bound(h, n, mac[n]) PROVE Orderly(v, n, mac[n], 0)
  <2>1. Paced(h, n, mac[n]) /\ n \in Node /\ par.requestGTS \in Nat
    BY <1>1 DEF NodesOK, Setting
  <2>2. mac[n].gtsLeft \in Int /\ mac[n].capLeft \in Int
    BY <1>1, <2>1 DEF NodesOK, NodeState
  <2>3. mac[n].gtsLeft <= 0 /\ mac[n].capLeft <= 0
    BY <1>2, <2>1 DEF Paced, Announces
  <2>4. ~Waking(mac[n])
    BY <2>1, <2>2, <2>3 DEF Waking
  <2>5. InStep(v, n, mac[n], 0)
    BY <2>2, <2>3 DEF InStep
  <2>6. mac[n].timers["ACK_TIMEOUT"] = Off /\ ~Speaking(mac[n])
    BY <1>9, <1>12, <2>1
  <2> QED
    BY <1>7, <2>4, <2>5, <2>6 DEF Running
<1>11. par' = par /\ Unsensed(g)
  BY <1>2 DEF HubFrameStart, Announces, Unsensed
<1>10. ASSUME NEW n \in Node PROVE Slotted(v, g, n, mac'[n])
  <2>1. CASE n = Hub
    BY <1>6, <1>8, <2>1 DEF Slotted
  <2>2. CASE n # Hub
    <3>1. n \in Device /\ mac'[n] = mac[n]
      BY <1>1, <1>2, <2>2 DEF Alone, Setting
    <3>2. Bound(g, n, mac'[n]) => Bound(h, n, mac[n])
      BY <1>2, <1>11, <2>2, <3>1 DEF Bound, Overruns, Announces
    <3> QED
      BY <1>6, <1>9, <3>1, <3>2 DEF Slotted
  <2> QED
    BY <2>1, <2>2
<1> QED
  BY <1>10, <1>11, SlottedNext

\* Every step keeps the slots apart.
LEMMA SlottedStep ==
    ASSUME IInv, AllOwed, AllLocal, AllSlotted, Next
    PROVE  AllSlotted'
<1>1. Setting /\ NodesOK /\ ListOK /\ Hub \in Node
  BY SettingOK DEF IInv, Setting
<1>2. CASE Tick
  BY <1>2, SlottedTick
<1>3. CASE HubFrameStart
  BY <1>3, SlottedHub
<1>4. ASSUME NEW n \in Node, Timers(n) PROVE AllSlotted'
  BY <1>4, SlottedTimers
<1>5. ASSUME NEW n \in Node, Disable(n) PROVE AllSlotted'
  BY <1>5, SlottedLess
<1>6. ASSUME NEW n \in Node, ReceiveBeacon(n) PROVE AllSlotted'
  BY <1>6, SlottedBeacon
<1>7. ASSUME NEW m \in Node, ReceiveAssociate(m) PROVE AllSlotted'
  <2>1. PICK t : Handover(m, Hub, t) /\ Answers(m, mac[Hub], Frame("ACK", m, 0, 0), t)
    BY <1>1, <1>7, AssociateAnswered
  <2>2. ~Waking(mac[Hub]) /\ par' = par
    BY <1>7 DEF ReceiveAssociate, Arrives
  <2>3. SamePlan(hub, hub')
    BY <1>1, <1>7 DEF ReceiveAssociate, SamePlan, ListOK
  <2> QED
    BY <2>1, <2>2, <2>3, SlottedRequest
<1>8. ASSUME NEW m \in Node, ReceiveGtsRequest(m) PROVE AllSlotted'
  <2>1. PICK t : Handover(m, Hub, t) /\ Answers(m, mac[Hub], Frame("ACK", m, 0, Granted(m)), t)
    BY <1>1, <1>8, GtsRequestAnswered
  <2>2. ~Waking(mac[Hub]) /\ par' = par
    BY <1>8 DEF ReceiveGtsRequest, Arrives
  <2>3. SamePlan(hub, hub')
    <3>1. hub' = hub \/ hub' = [hub EXCEPT !.GTSlist = Append(@, m)]
      BY <1>8 DEF ReceiveGtsRequest
    <3>2. CASE hub' = hub
      BY <3>2 DEF SamePlan
    <3>3. CASE hub' = [hub EXCEPT !.GTSlist = Append(@, m)]
      <4>1. /\ hub'.announced = hub.announced /\ hub'.GTSlist = Append(hub.GTSlist, m)
            /\ hub.GTSlist \in Seq(Device) /\ hub.announced \in Nat
            /\ hub.announced <= Len(hub.GTSlist)
        BY <1>1, <3>3 DEF ListOK
      <4>2. \A i \in 1..hub.announced : i \in 1..Len(hub.GTSlist)
        BY <4>1
      <4>3. \A i \in 1..Len(hub.GTSlist) : Append(hub.GTSlist, m)[i] = hub.GTSlist[i]
        BY <4>1
      <4> QED
        BY <4>1, <4>2, <4>3 DEF SamePlan
    <3> QED
      BY <3>1, <3>2, <3>3
  <2> QED
    BY <2>1, <2>2, <2>3, SlottedRequest
<1>9. ASSUME NEW n \in Node, NEW m \in Node, Receive(m, n) PROVE AllSlotted'
  BY <1>9, SlottedData, SlottedAck DEF Receive
<1>10. ASSUME NEW n \in Node, NEW m \in Node, Lose(m, n) PROVE AllSlotted'
  BY <1>10, SlottedLess
<1>11. ASSUME NEW n \in Node, NEW x \in par.traffic, FromNetworkLayer(n, x[2]) PROVE AllSlotted'
  <2>1. x[2] \in Address
    BY <1>1 DEF Setting
  <2> QED
    BY <1>11, <2>1, SlottedAccepts
<1> QED
  BY <1>2, <1>3, <1>4, <1>5, <1>6, <1>7, <1>8, <1>9, <1>10, <1>11 DEF Next

\* At the start nothing is announced, and nobody does anything.
LEMMA InitSlotted ==
    ASSUME Init
    PROVE  AllSlotted
<1> DEFINE off(n) == [t \in Timer |-> IF n = Hub /\ t = "FRAME_START" THEN 0 ELSE Off]
<1>1. ASSUME NEW n \in Node
      PROVE  /\ mac[n].capLeft = 0 /\ mac[n].gtsLeft = 0 /\ mac[n].to = {}
             /\ mac[n].macState = "SETUP"
  BY DEF Init, Startup
<1>2. ASSUME NEW n \in Node PROVE mac[n].timers = off(n)
  BY DEF Init, Startup
<1>3. \A n : off(n)["ACK_TIMEOUT"] = Off /\ off(n)["PERFORM_CCA"] = Off
  BY DEF Timer
<1> HIDE DEF off
<1>4. ASSUME NEW n \in Node, NEW x PROVE Orderly(hub, n, mac[n], x)
  <2>1. mac[n].timers["ACK_TIMEOUT"] = Off
    BY <1>2, <1>3
  <2>2. InStep(hub, n, mac[n], x)
    BY <1>1 DEF InStep
  <2>3. ~Speaking(mac[n]) /\ ~Busy(mac[n]) /\ ~Waking(mac[n])
    BY <1>1, <2>1 DEF Busy, Speaking, Waking, Running
  <2>4. 1..mac[n].timers["ACK_TIMEOUT"] = {}
    BY <2>1 DEF Off
  <2> QED
    BY <2>2, <2>3, <2>4 DEF Orderly, Polite
<1>5. Unsensed(mac[Hub])
  <2>1. Hub \in Node
    BY SettingOK DEF Init, Setting
  <2>2. mac[Hub].timers["PERFORM_CCA"] = Off
    BY <1>2, <1>3, <2>1
  <2> QED
    BY <2>2 DEF Unsensed, Running
<1> QED
  BY <1>4, <1>5 DEF AllSlotted, Slotted

\* By induction over the steps: every node that AllSlotted binds keeps the
\* coordinator's time, knows its place in the superframe, and is busy neither in
\* the slot of another nor when the next beacon comes, however long it will take.
THEOREM SlotsInductive == Spec => []AllSlotted
<1>1. IInv /\ AllOwed /\ LinkInv /\ AllSlotted /\ [Next]_vars => AllSlotted'
  <2>1. ASSUME AllSlotted, UNCHANGED vars PROVE AllSlotted'
    BY <2>1, SlottedNext DEF AllSlotted, vars
  <2> QED
    BY <2>1, SlottedStep DEF LinkInv
<1> QED
  BY <1>1, InitSlotted, LinkInductive, OwedInductive, Inductive, PTL DEF Spec

\* In a slot the coordinator has announced only its owner sends frames of its own or
\* waits for the answer, whatever was lost, whoever died, and however a backoff or a
\* retry fell. Three kinds of nodes are excepted: one that did not hear the beacon as
\* a member, one that waited for an answer when it came, and, where an exchange may
\* last longer than a slot, the owner of the slot next to the CAP, whose end
\* transmitCSMA does not look at.
THEOREM SlotsExclusiveAlways == Spec => []SlotsExclusive
<1>1. IInv /\ AllSlotted => SlotsExclusive
  <2> SUFFICES ASSUME AllSlotted, ~mac[Hub].disabled, NEW i \in 1..hub.announced, InSlot(i),
                      NEW n \in Node \ {hub.GTSlist[i]}, Active(n),
                      n = Hub \/ ~(mac[n].guest \/ mac[n].carried \/ Unchecked(n))
               PROVE  FALSE
    BY DEF SlotsExclusive
  <2>1. Orderly(hub, n, mac[n], Elapsed(mac[Hub]))
    BY DEF AllSlotted, Slotted, Bound, Overruns, Unchecked
  <2>2. Busy(mac[n])
    BY DEF Active, Busy, Speaking
  <2>3. Clear(hub, n, Elapsed(mac[Hub]))
    BY <2>1, <2>2 DEF Orderly, Polite
  <2> QED
    BY <2>3 DEF Clear, InSlot, Now, Elapsed
<1> QED
  BY <1>1, SlotsInductive, Inductive, PTL
=============================================================================
