# Models and proofs of wsn_uav

TLA+ modules, TLC runs and TLAPS proofs about the wireless sensor network
simulator in `src/Castalia/Castalia/src` (paths below are relative to it): the
Castalia node stack on OMNeT++, extended with routing protocols in which UAVs
fly to landmark sensors and collect what the others forwarded to them.

## The system

Every node is a stack of OMNeT++ modules that exchange messages. A handler runs
to completion; between handlers anything that is scheduled may come first. So
the steps of a model are whole handlers, and concurrency is the order in which
timers, frames, packets and commands reach them.

| component | state | operations |
|---|---|---|
| TimerService (`helpStructures/TimerService.cc`) | one slot per timer index | setTimer, cancelTimer, firing |
| VirtualMac, TunableMAC (`node/communication/mac`) | MAC state, TX buffer, attempts and beacons left, timer slots, tunable parameters | timer callbacks, packets from above, frames from the radio, carrier sense, control commands |
| TMAC | schedule table, MAC state, RTS/CTS/DATA/ACK exchange, retries | the same, with a reply to every frame |
| Basic802154, StaticGTS802154, BaselineBAN | superframe state, association, slots, retries | the same, with a coordinator |
| Radio (`node/communication/radio`) | state, pending transition, buffer, received signals | commands, signals, transmission |
| VirtualRouting and the UAV protocols | the shared configuration (heads, next hops, trajectories), round number, duplicate history | start of round, planning at the sink, sending, relaying |
| growBalls, alphaHopClustering | heads, distances, next hops | the clustering algorithms the planning runs |
| ResourceManager | remaining energy, RAM | consumeEnergy, death messages |
| SensorManager, physical processes | pending sample requests | request, reply |
| WirelessChannel, mobility | path loss, positions | who hears a frame |
| applications | counters | traffic |

`PROJECT.json` lists them all with what is modelled of each, and under
`hazards` what can go wrong at which line. The behaviours that are hard:

* a MAC driven by several timers, of which exactly one must be pending at any
  time, while frames, packets and commands cancel and replace them;
* frames that reach the MAC a processing delay after they were decoded;
* limits on attempts and on the buffer, changed while a packet is in service;
* clustering loops that overwrite heads, distances and next hops of nodes that
  are still queued, with a heap whose order their own writes invalidate;
* a superframe in which beacons, a contention period, slots of single nodes and
  sleep follow one another, while timers set for one part still run in the next;
* radio states that change with a delay, and commands and signals that fall into it;
* rounds of planning and sending on drifting clocks, over a configuration all
  nodes share; batteries that die between any two steps;
* lost frames and acknowledgements, retries and duplicate filters.

What makes each modelled component correct:

* TunableMAC: whatever arrives in whatever order, it is either idle with an
  empty buffer or driven by exactly one timer that fits what it is doing; a
  packet gets its attempts, no more and (where the code manages) no fewer.
* TMAC: every state has the timer that ends it; a packet is retried with its
  own retries and given up only after them; the receiver passes packets up in
  order and at most once; what is acknowledged was delivered.
* 802.15.4: a member of the PAN is awake for every beacon and counts those it
  misses; the coordinator's list of slots is what the devices believe and
  leaves room for contention; nobody else sends in a slot; whoever has packets
  serves one of them, with its own retries; what is acknowledged was delivered.
* Radio: the events it schedules for itself are those its state calls for, it
  ends where it was commanded to, and it passes up what it heard in whole.
* growBalls and alphaHopClustering: a routing forest. Next hops never lead in a
  circle although they are overwritten, heads, hops and distances agree, and
  every sensor in reach is in a cluster when the loop ends, as it does.

## Modules

| module | models | abstract data |
|---|---|---|
| `TunableMAC` | one node's TunableMAC with the VirtualMac buffer and its TimerService slots | durations; packets, which are a count; beacon payload |
| `PacketQueue` | abstract: a queue that attempts its front packet a fixed number of times | |
| `TMAC`, `MCTMAC` | several nodes' TMAC, VirtualMac's buffer, numbering and duplicate filter, their timers and the frames between them | durations, schedule offsets |
| `Link` | abstract: an ordered, at-most-once, acknowledged, lossy link | |
| `Mac802154`, `MCMac802154` | a PAN: Basic802154 with StaticGTS802154's decisions, VirtualMac's buffer, numbering and duplicate filter, timers and frames | time in half slots, PAN identifiers, beacon numbers |
| `Radio`, `MCRadio` | one node's Radio: states, transitions, transmit buffer, received signals | powers, durations, energy |
| `GrowBalls`, `MCGrowBalls` | `growBalls` of globecom, wu2019 and uavCollectionRouting | heap order, edge lengths |
| `AlphaHop`, `MCAlphaHop` | `alphaHopClustering` of wu2019 and the loop over alpha in `mainAlg` | weights, trajectory lengths |
| `*_proofs` | theorems about the module of that name; `TMAC_link_proofs` and `Mac802154_link_proofs` those about what several nodes agree on | |

`PROJECT.json` maps every definition to its lines. In general: a handler is an
action; a helper function of the source keeps its name and is an operator on
what it changes; a timer that is set is a member of a set, and since durations
are abstracted it may fire at any later step. Variables marked *history* are
not in the code: they record what properties speak of. A definition whose
comment begins with *Mutant of* is a plausible bug of the definition it names;
no model uses it, and it serves to show that a property notices.

### TunableMAC

`macState`, `numTxTries`, `timers`, `duty`, `numTx` are the fields of the
class; `buffered` is the length of `TXBuffer`, `radio` the last state the MAC
commanded, `inFlight` a frame that the radio decoded but still holds for its
`PROCESSING_DELAY`. `attemptTx` and `sendBeaconsOrData` are called from several
handlers and call one another: `AttemptTx(T, n, k, t)` says what the call
makes of timers `T`, `n` packets, `k` attempts left and `t` made. `SenseClear`
and `SenseAgain` are the answers of the radio to carrier sense. `Disable` is
the `OUT_OF_ENERGY` or `DESTROY_NODE` that VirtualMac handles.

### TMAC

A record `mac[n]` holds the fields of node n; the source's helpers
(`resetDefaultState`, `popTxBuffer`, ...) are functions from record to record,
composed in the order of the calls. The active period has expired exactly when
no `CHECK_TA` is pending, because `extendActivePeriod` always sets that timer
to the period's end. `air[m][n]` is the frame on its way from m to n; a
broadcast medium puts one frame on the way to everybody, each listener
receives or loses it by itself. Losing it at once stands for being out of
range too, so hidden senders are included. A listener does not receive while
it sends or sleeps, and the channel is clear for a node that no frame is on
its way to. With `synced` the nodes start asleep on the sink's schedule, the
state after an undisturbed setup; without it they start at `startup()`. The
branches that only warn of an empty buffer are left out: `FrontPacketServed`
shows that they cannot be reached.

### Mac802154

A record `mac[n]` holds the fields of node n, `hub` what only the coordinator
has. Superframes are about time, so here timers count down: `timers[t]` is the
number of ticks left (two per superframe slot, `Off` when the slot is empty),
`Tick` passes when nothing is due, and what is due in one tick comes in any
order. A guard or wake-up time is shorter than a tick and puts its timer on
the tick before; a radio that is woken for a slot hears nothing until the slot
begins (`Waking`), for GTS_START comes early by the time it takes to wake up. The
random backoff (`Backoff`) and the length of a transmission with its answer
(`Exchange`) are any number of ticks up to `maxBackoff`, or from `minExchange` to
`maxExchange`, chosen where the code computes them. Nothing relates these to the
length of a slot or a CAP, as nothing in the code does. Whether a frame fits its part of the
superframe is then the code's own comparison (`Fits`), with its gap: next to the
own slot nothing is compared.

`transmitPacket`, `attemptTransmission`, `clearCurrentPacket` and
`transmissionOutcome` call one another; they are functions from record to
record as in `TMAC`. A node transmits while `to`, the nodes still to receive or
lose its frame, is not empty. `ACK_TIMEOUT` does not fire while the answer is
on its way, for that is what ackWaitDuration is computed for. With
`requestGTS` = 0 and without `gtsOnly` the decisions are those of Basic802154
itself. All nodes have the same `requestGTS`, as in every configuration of the
repository, so `gtsRequest_hub` meets no owner that asks for another length
(lines 53-55).

### Radio

`pending` holds the self messages `RADIO_ENTER_STATE`, `RADIO_CONTINUE_TX` and
the `SET_STATE` the radio sends itself; the delay of a transition is the time
until `EnterState`. `receivedSignals` says of each sender whether its signal is
in the list and may still be decoded. `air` is the environment: which signals
there are, how strong, and (history) whether this radio heard the signal in
whole. `wanted` and `late` record the commands. A packet from the MAC is a
count in the buffer.

### GrowBalls and AlphaHop

The planning is sequential code on data of its own; the models are about the
order in which nodes are taken. In `GrowBalls` the sink starts with whatever
head and list an earlier round left it, for `clearData` resets sensors only and
`growBalls` the landmarks of this round. A sink that is no landmark any more
keeps its old list, so `RepresentExact` speaks of landmarks and sensors.
`queue[v]` counts v's entries in the heap: the heap compares by a field that the
loop lowers, so its order is not to be relied on, and any queued node may be
popped. In `AlphaHop` any queued
sensor may be popped, since the weights are NaN for isolated sensors and then no
order at all. `Retry` is another turn of `mainAlg`'s loop, taken at will up to
`MaxAlpha`, because lengths of trajectories are not modelled.

In an alpha-hop clustering a packet does reach a centre, but not always the
head its sender was given: a later ball may have taken over a node on the way.
No document promises otherwise, so `RoutesReachACentre` states what holds.

## Runs

| run | instance | what it shows |
|---|---|---|
| TunableCsma | 8 packets, 3 attempts, skipped attempts, a free channel kept for all packets (the default) | without duty cycle, beacons and commands the MAC implements `PacketQueue` with its fairness; every packet gets `numTx` attempts |
| TunableDuty | 2 packets, 2 attempts, beacons, commands, death, one packet per free channel | one driver, an idle MAC is empty, attempts bounded, whatever is received or retuned. A dead node's MAC is frozen, so of death it shows only that it may come at any step; and that a channel kept for an emptied buffer is not contended for is left to TunableCsma and the theorems |
| TunableUntried | 1 attempt, beacons | *violation*: a packet that arrives in RX is deleted unattempted |
| TunableLateBeacon | the same | *violation*: `START_LISTENING` survives a late beacon and later puts the radio to sleep |
| TunableStuckAsleep | commands, skipped attempts | *violation*: the duty cycle is switched off in the wrong moment and the radio stays asleep |
| TmacExchange | 2 nodes, 2 packets each, 2 retries; four settings, see `MCTMAC` | timers, retries, schedules; TMAC implements `Link` |
| TmacDrains | 2 packets from one node to the other | every packet leaves its buffer |
| TmacNoSchedule | 1 packet, from startup | *violation*: a node addressed during setup sleeps for ever |
| Mac802154 | a coordinator and up to 2 devices, superframes of 3 slots; six settings, see `MCMac802154` | beacons, slots, retries, buffers; 802.15.4 implements `Link` |
| Radio | 2 senders, 2 frames, every starting state, both collision models | no event too many or too few, commands obeyed, exactly the whole signals received |
| GrowBalls | 24 graphs of 4 sensors and sink, all landmark sets, any order of pops | heads, hops, representation, coverage, end |
| AlphaHop | 32 graphs of 6 sensors and sink, alpha up to 3 | distances, separation, no loop, coverage, end |

Bounds. Two packets in a buffer are one in service and one behind it, which is
all `attemptTx` and `popTxBuffer` distinguish; two or three attempts have a
first, a middle and a last. Two TMAC nodes exercise every frame and reply,
with crossing RTS frames, and overhear what is meant for the third address. The
four settings are startup without traffic, where both nodes create, renew and
exchange schedules; the defaults; SMAC with immediate retries and broadcasts;
and `collisionResolution` 2, where an overhearing node has no timeout. A
schedule that is renewed once is already one overtaking another.

The six settings of `MCMac802154` are contention without slots; two packets,
broadcast and to nobody, with a coordinator that dies in between; a backoff that
outlasts the CAP or the slot; slots longer than there is room for; one device
with a slot, data in slots only and an inactive period; and two devices with a
slot each, of which one sends to the other, in a PAN that is lost with the first
beacon. A slot of the last two has two ticks; an exchange takes up to three in the
one, so that it ends in its slot, with it, or after it, and two or three in the
other, where its overrun meets the other owner. Three slots leave a CAP of one beside
two granted ones; two
retries have a first and a last; a bound of one or two packets per source
suffices for one in service and one behind it. Two senders overlap in every
way, and with two frames the radio both goes on and stops after a frame.

The graphs of `MCGrowBalls` contain balls that meet, sensors
at one location, isolated sensors and sensors that only the sink would connect;
those of `MCAlphaHop` a path long enough for three balls with chords that let a
later ball break into an earlier one. What holds beyond these bounds is proved,
see below. `maxPackets`, `maxSN`, `MaxBeacons` and `MaxAlpha` are the bounds on
counters that the code does not bound.

Fairness. The simulator delivers every scheduled message: weak fairness on each
timer and each frame. Carrier sense is repeated after random delays, so one that
is repeated for ever finds the channel free at some time: strong fairness on
the four sends of `TMAC` and on `SenseClear`. Without durations TLC also needs to be told
that a TMAC frame (610 ms) is much longer than its active period (15 ms after
the last activity): a node that sleeps again and again is asleep at some
frame's start, strong fairness on `StartFromSleep`. The clustering loops
are sequential code: weak fairness on `Next`.

## Proofs

Each proof module proves that an invariant `IInv` is inductive, one lemma per
action, and derives the theorems from it, for all constants that satisfy the
named assumption of the module.

* `TunableMAC_proofs`: the properties of the duty-cycle runs each need the
  others (who drives the MAC says what attempts and packets are left), so
  `IInv` is their conjunction. `AttemptTx` and its callers have a lemma each,
  from which the handlers follow. For a MAC that hears no beacons and takes no
  commands (the assumptions of the run `TunableCsma`, where `FullyTried` is
  stated) nothing but its own packets moves it (`Quiet`), and attempts made and
  left add up to numTx (`Counted`): so no packet is let go before its last
  attempt, and every step is one of `PacketQueue` or invisible to it.
* `GrowBalls_proofs`: all properties of the run but termination. To them `IInv`
  adds that landmarks own themselves, that outside the balls nothing is queued
  or routed, and that the neighbours of a removed node are in a ball. Acyclicity
  follows from the removal order: a next hop was removed before.
* `AlphaHop_proofs`: all properties of the run but termination, for any graph.
  Acyclicity needs the search's own invariant: what it visited belongs to the
  current ball, and a node of that ball has a visited next hop. So a later ball
  may take a node over, but then all that routed through it route into a later
  ball. `Within` and `Follow` are recursive functions, so what holds of them needs
  induction over Nat. The library states it with an operator as a parameter;
  `Induct` states it with a set, from the well-foundedness of finite sets
  (`LeastNatural`). `Iterates` shows that a function recursive in `k - 1` exists,
  hence that both satisfy their definitions (`ReachUnfolds`, `ChaseUnfolds`).
  `SearchInv` then is what breadth-first search rests on: the queue is ordered by
  hop count and spans two counts at most (`InOrder`), a visited node that is not
  queued any more has had its neighbours visited (`Expanded`), so all that is as
  near as the front node has been visited (`Complete`) and what it takes is
  exactly one hop further (`CountedRight`, `HopsRight`). A finished ball holds all
  in reach, so a later centre was out of reach of the earlier ones, and, the
  graph being undirected, they of it (`ReachSymmetric`, `Apart`). A route that
  had not ended after as many hops as there are nodes would pass one twice,
  although each hop leads inward (`RouteEnds`, by the pigeonhole principle).

Of the two `Terminates`, the proof modules have the part that needs no fairness:
every step gets ahead (`EveryStepAhead`) in a lexicographic order in which, on
finitely many nodes and up to the bound `MaxAlpha`, nothing descends for ever. The
code has no such bound: a single clustering ends, the loop over alpha need not
(see the hazards).
* `TMAC_proofs`: the timers and the retries, for any number of nodes, any
  settings and whatever frames reach a node. `IInv` adds two facts to the
  properties: `SYNC_RENEW`, `FRAME_START` and `needResync` exist only with a
  schedule (resetDefaultState reads its first entry), and with
  disableTAextension every state but `SETUP`, `SLEEP` and `WAIT_FOR_DATA` has
  `CHECK_TA` pending: a busy channel then silences a node without setting it. Each
  helper function has a lemma saying what it needs and what it leaves, so that
  the lemma of a handler only composes them.

* `TMAC_link_proofs`: that TMAC implements `Link`, gives no packet up early and
  keeps schedules behind their authors, again for any number of nodes, packets
  and settings and with any frames lost. Its invariants order the numbers of a
  sender's packets along their way: the buffer rises (`BufferInv`), no data
  frame in the air is ahead of the buffer nor behind what the receiver let
  through (`FramesInv`), nothing passed up is beyond what the receiver remembers
  (`HistoryInv`), and while a node waits for an ACK, one from its addressee is
  for the packet at the front of its buffer (`AckInv`). A new attempt finds a
  retry left (`RetriesInv`). A schedule is no newer than its author's own
  (`ScheduleInv`). Most steps leave these alone, so the helpers are sorted by
  how much they may change of a node (`Plain`, `Calm`, `Steady`, `Quiet`), and
  only the steps that put a DATA, ACK or SYNC frame on the air, receive one or
  take a packet from a buffer need an argument of their own. The last part are
  the bounds: retries, buffer and schedule numbers of a node (`Bounds`), the
  numbers in SYNC frames (`NewsBounds`) and what is acknowledged
  (`HandedBounds`, which needs the link: an ACK is for a packet that was sent).
* `Mac802154_proofs`: for any devices and any setting `MacAssumption` allows,
  that attempts are counted, buffers served, members awake for the beacon,
  packets not given up early, and the coordinator's list in order. None of this
  is inductive alone, for superframes are about time. Of each node `IInv` says
  that its frames are well formed (`Carries`), its attempts and a pending CCA
  agree (`Counted`: a CCA pending in a slot ends before the slot does, for there
  the retries may be used up), its buffer is served (`Served`) and its timers
  are in range (`Ranged`); of a device, that slot and sleep come before the
  next beacon (`Timed`) and who is a member waits for it (`Member`); of the
  coordinator, that it never stops sending beacons (`Leads`); and of both, that
  they agree on the time: a device expects the beacon one tick before the
  coordinator sends it and gives it up one tick after, and has neither CAP nor
  slot left when it comes (`Paced`). Each helper function has a lemma
  (`AgainOK`, `NextPacketOK`, ...) saying that it leaves a node in order and
  what it may change (`Kept`, `Works`); the last part follows the packet in
  service through every step (`Has`, `Justified`).
* `Mac802154_link_proofs`: that a PAN implements `Link` and that the coordinator
  keeps what it granted, again for any devices, settings and losses. First every
  operation is summed up by what it does to the node that takes it: most keep
  packets and air (`Still`), some try or give up the packet in service
  (`Tries`), a beacon, an answer, an ACK, a new packet, a lost PAN have a kind
  of their own. Grants: a device believes only what the coordinator's lists say,
  or an ACK on its way to it (`Owed`). The link: what is on the air has a timer
  running and ends in time (`Local`), numbers rise from buffer over packet in
  service to air and history (`AllOrdered`), and, since an ACK does not say what
  it answers, `AllSided`: an ACK on its way to a device is one of data that was
  passed up, and then the device serves data or nothing (`DataSide`), or one of
  the coordinator's for a request, and then the request is still in service
  (`ControlSide`). Exchanges may outlast everything, so a device may lose the
  PAN, come back and serve something else while an ACK is still on its way. But
  the coordinator answers requests with number 0, which only a first packet could
  take for its own, and by then the first packet is either not yet in service or
  gone for good (`Past`).
  The slots: whose slot a tick is follows from the list the last beacon
  announced (`Laid`: the slots adjoin, and the first follows the CAP). A member
  counts down what is left of the CAP and of its slot by the same clock
  (`InStep`). It is busy only in ticks before the next beacon that are no slot of
  another, and so are all the ticks that its transmission or its wait for an
  answer still has to go (`Polite`, which says too that a node that wakes up a
  tick before its slot has nothing on the air). So what a node started before a
  beacon is over with it, unless it is one the invariant does not bind. That needs
  what `Timed` and `Member` say of GTS_START: in the CAP, a device whose slot is
  adjacent still has the whole slot before it, so that an exchange no longer than
  a slot ends in it, and in GTS it is a tick early at most; so whatever `Fits` is
  over in time (`FitsClear`). Three kinds of devices are excepted because the
  code lets them in, see below: *guests*, those that *carried* an exchange over a
  beacon, and the owner of the slot next to the CAP where `maxExchange` exceeds
  the slot (`Overruns`).
* `Radio_proofs`: the events pending are those the state calls for (`Driven`),
  a radio is headed where the commands sent it (`Headed`), and the list of
  received signals agrees with the air while signals can be heard (`Tracked`);
  for any senders and either collision model.

Only model-checked: liveness, that is `Terminates` of both clusterings,
`QueueNeverStalls`, `Drains` and the fairness of `PacketQueue`: it needs ENABLED,
which the prover does not reason about. Every invariant and action property of a
passing run is proved.

## Findings

Four runs end in a violation on purpose: each states what a comment or
parameter description says and shows a behaviour of the code that differs.
`PROJECT.json` quotes the lines. Two more disagreements are in the models
without a run: `StartupBackoff` has the missing braces that make backoffType 0
(TunableMAC.ned:34, a backoff of one sleep interval) a constant backoff, and
`SenseInVain` is the state that TMAC.cc:213 rules out.

Behaviour of the 802.15.4 MAC that a reader of its comments would not expect,
and that the models contain:

* A node that associates during a CAP next to its slot gets no timers for that
  superframe: it may still send in the slots of others, which is why
  `SlotsExclusive` excepts a *guest* (Basic802154.cc:703).
* The owner of the slot next to the CAP may start an exchange at any time of the
  CAP without a comparison (CAPend != GTSstart, 703), not even with the end of its
  slot. One that takes longer than the slot runs into the slot of the next owner.
  Which lengths occur is a matter of the .ini, so `SlotsExclusive` excepts this
  owner where `maxExchange` is more than a slot, and only there.
* In SETUP transmitCurrentPacket compares with nothing, and a request for
  association whose CCA comes after the CAP is sent there. Such an exchange may
  still wait for its answer when the beacon comes; it ends, or is repeated (even
  while the device wakes up for its slot), at any time of the new superframe.
  `SlotsExclusive` excepts who *carried* one over the beacon, until the next.
* A backoff may outlast the service of its packet. Its CCA then finds no packet,
  or another one; without a packet a busy channel takes the retries to -1 (225),
  which the next packet resets.
* The CCA of a node that is not associated stays pending when the CAP ends, so
  its association request may go out later, and it may end associated with no
  timer to wake it before the next beacon it happens to hear (209, 259).
* A request for a slot that is denied is repeated for ever, and packets wait
  behind it, since the next packet is chosen by `assignedGTS` = 0
  (StaticGTS802154.cc:120).
* `seqNum == 0` (Basic802154.cc:275) compares where it should assign; sequence
  numbers grow past 255.

And of the radio:

* bitErrors() returns 0 for every signal (Radio.cc:1035), so with the additive
  model no interference ever corrupts a frame; in the simple model the later of
  two colliding frames is received although the comment speaks of catastrophic
  interference (141).
* A command between the decision how to leave TX and its execution is recorded
  for the next transmission; a frame that comes with such a command stays in
  the buffer until then (`late`, 437).
* A radio that starts in TX (Radio.ned allows it) has its first self message
  deleted before NODE_STARTUP, and stays in TX.

## Not modelled, and the plan

* The UAV round (`globecom`, `wu2019`, `uavCollectionRouting` and their
  relatives): the sources are in the middle of a rewrite and do not compile
  (globecom.cc:98 uses a packet that is nowhere declared; `txSize` and `nextHop`
  are used likewise), so what a node sends in a round is not defined. The
  planning, which is, is modelled. When the round compiles again: rounds and
  sending over the shared configuration, forwarding along next hops, death
  between any two steps, composed with `GrowBalls` by what its theorems
  guarantee, and with it `VirtualRouting`'s bounded duplicate history.
* `BaselineBAN`: the shape of `Mac802154`, with connection requests and polls.
* `TMAC`: death of a node. `TimerService`: the slots a disabled module keeps.
* `Mac802154`: several PANs that hear each other, and the time limit of a packet.
* `Radio`: powers and the carrier sense interrupt. Where a MAC uses the radio,
  its model has the interface only: a state command takes effect at once, and a
  frame is received in whole or not at all, which is what `Radio` shows.

Left out for good: the genetic solvers, tours and geometry (numerical, without
protocol state), path loss and physical processes (numerical; who hears a frame
is a choice of the models), energy accounting, applications (the environment),
the viewer and vendored libraries. The vendored headers (CPLEX, Concert,
abseil) and the viewer are most of the repository's lines, so the mapped lines
are a small share of it although every MAC but two, the radio and the clustering
are modelled.
