# A TLA+ verification of INETMANET: TCP, AODV-UU, OSPFv2

INETMANET is a collection of protocol models for the OMNeT++ simulator: link
layers, IPv4 and IPv6, routing, TCP, UDP, SCTP and applications, some 180000
lines of C++. This directory specifies three of its protocols:

* TCP (`src/src/transport/tcp`, with `TCPSocket` on top), used by most of the
  examples, with the most concurrency per line;
* AODV-UU (`src/src/networklayer/manetrouting/aodv`), the routing protocol of
  ad hoc networks: many hosts, a lossy medium, two tables to keep in step;
* OSPFv2 (`src/src/networklayer/ospfv2`): the adjacency of two routers and the
  reliable flooding of router LSAs.

The other parts are listed below with the reason why they are not modelled.

In OMNeT++ a handler runs to its end before the next event, so a handler is one
atomic step here. What interleaves are the events: commands of applications,
packets on their way, and timers. A failed `ASSERT`, an `opp_error()` and
`scheduleAt()` on a pending timer stop the simulation; the models record the
first of them (`err`, `error`) and TCP takes no step after it.

## Inventory

| part | state | operations | what is hard |
|---|---|---|---|
| `TCPConnection` | FSM state, `TCPStateVariables`, four timers | OPEN, SEND, CLOSE, ABORT, segment arrival, timeouts | simultaneous open and close, deferred FIN, a FIN above sequence, timers deleted in some states and needed in others |
| flavours (`TCPBaseAlg`, Reno, Tahoe, no congestion control, `DumbTCP`) | cwnd, ssthresh, REXMIT | ACKs, duplicate ACKs, REXMIT timeout | one timer started and cancelled from six places, `snd_nxt` set back |
| send queue | `begin`, `end` | enqueue, make a segment, discard | the FIN has a number and no octet |
| receive queue | `rcv_nxt`, list of regions | insert and merge, extract | overlaps, wraparound |
| `TCP` main module | two maps, ephemeral ports | create, look up, fork, re-key, remove | a fork exchanges connection ids; a connection changes its key |
| `TCPSocket` | socket state | commands, indications | what the application believes against what is so |
| AODV agent | route table, seek list, RREQ records, packet queue, own sequence number | RREQ, RREP, RERR, hello; route, neighbour, hello, search and repair timers; link layer feedback | freshness decided by numbers that several handlers write; a search ended by any message that makes the route valid |
| IP under AODV | its own routing table | forward, deliver, ask the agent | written by the agent at other places than the agent's table |
| OSPF neighbour | state, DD sequence number, four lists, four timers | hello, DD, request, update, acknowledgement, timeouts | nested origination; timers with a flag beside them |
| OSPF database | instances of LSAs | originate, install, age, refresh | one number, one content; nothing goes back |
| IP and below | packets under way | deliver, lose, duplicate, reorder | all of it at once |

## Modules

| module | models |
|---|---|
| `TCPSeq` | sequence numbers and `seqLess` ... `seqGE`, modulo `SeqMod` instead of 2^32 |
| `TCPRcvQueue` | `TCPVirtualDataRcvQueue` as operators on a record |
| `TCPRcvBuffer`, `MCTCPRcvBuffer` | that queue under arbitrary arrivals, with a ghost set of the octets held; `merge()` once in closed form and once as the source's loops |
| `TCPFsm` | the table of `performStateTransition()` |
| `TCPConnState` | the connection record, timers, indications |
| `TCPAlgorithm` | senders, send queue, retransmission, flavours |
| `TCPConnection` | commands, timeouts, the eight steps of segment arrival |
| `ReliableStream` | abstract: two streams of octets, in order, once, end after the last |
| `TCPPair`, `MCTCPPair` | two connections, applications and a network; properties; refinement |
| `TCPClaims` | the statement of a comment that fails |
| `TCPMain`, `MCTCPMain` | the maps, ports, forks and removal of `TCP.cc` |
| `TCPMainProofs`, `TCPRcvBufferProofs` | theorems about `TCPMain` and `TCPRcvBuffer`, with their proofs |
| `TCPPairProofs` | theorem about `TCPPair`: the handshake timers |
| `TCPSendingProofs`, `TCPReceivingProofs` | lemmas about one connection: the invariant of the sender, what sends and what acknowledges; receiving, the state transition, the handlers of a synchronised connection |
| `TCPSenderProofs` | the handshake, and theorems about `TCPPair`: the sender, the types and what the application is told |
| `AODVRouting` | one AODV agent: route table, seek list, packet queue; every message handler and timer |
| `AODV`, `MCAODV` | hosts with IP, agent and applications on links that come and go; properties |
| `AODVHostProofs` | lemmas about one host: routing table, searches, message handlers |
| `AODVProofs` | the same for its timers and feedback, and theorems about the network of `AODV` |
| `OSPFNeighbor` | the neighbour state machine, the lists and timers of a neighbour, flooding and origination |
| `OSPFHandlers` | the five message handlers, the retransmission timers, the age timer |
| `OSPF`, `MCOSPF` | routers on point-to-point links; properties |

In all of them a C++ object is a record with the source's field names, and a
method is an operator from the record before the call to the one after it, so a
handler reads as a composition of methods in the order of its calls. What a
handler sends collects in a field `out`, which the action empties into the
network (`Finish` in `TCPPair`, `Become` in `AODV` and `OSPF`).

### Abstractions: TCP

Octets are counted, not stored: the virtual queues of the source do the same.
The advertised window is constant in the source, so segments do not carry it.
`snd_cwnd` is cut off at the window, above which it has no effect. Time is left
out: a timer expires when nothing is under way (but for `budget.spurious`
times), because the shortest timeout is longer than a round trip; CONN-ESTAB
expires after `ConnEstabRexmits` SYN retransmissions, the order that the 75 s
and the doubling SYN timeout give. `TCPMain` keeps of a connection only what
`TCP.cc` looks at, with the states after the handshake as one; a remote address
and port are one value.

Not in the model because the source never does it: delayed ACKs (disabled in
the constructor), PERSIST and KEEPALIVE and FIN-WAIT-2 (never scheduled), URG
and PSH (not acted on). The STATUS command changes nothing.

### Abstractions: AODV

Lifetimes are no numbers: the timer of a route is the handler it will call
(`expire`, `delete`, `repair`), and it may fire at any time outside a search,
within the budget. Frames in flight are a set, because the agent delays each
broadcast by a random time. The flags that `rreq_create()` and `rrep_create()`
do not initialise are a free choice (`garbage`). A hello that is not due
because of another broadcast is a choice too (`quiet`). Sequence numbers are
unbounded naturals: the runs use values far below the wraparound.

Left out: `unidir_hack` and all it switches on (blacklist, RREP_ACK timers), the
quiet time after a reboot, gateways and the locator, the rate limits (a message
not sent for a limit is a message lost), and multiple interfaces.

### Abstractions: OSPF

Point-to-point interfaces in one area. An LSA is its key, its sequence number
and the links it lists; keys outside `Router` stand for LSAs of routers that are
gone. `MTU` is the number of headers in a DD packet, so that an exchange takes
several, and `MaxRequests` the number of entries in a link state request. An LSA
fits an update packet, and the delayed acknowledgements of an interface one
packet. The values of the runs are those of interfaces of 129 octets (one header
or three requests; two acknowledgements, the most that are ever delayed there)
and 160 octets (three headers, six requests, three acknowledgements). Packets
between two neighbours keep their order, as on a PPP line.
`sent` is the age of an entry of the list of transmitted LSAs, by which the code
waits with a retransmission; the age timer advances it. Retransmission timers
fire when nothing is under way, but for `race` times.

Left out: broadcast, NBMA and virtual interfaces with the election of the
designated router, authentication, network, summary and external LSAs, MAX_AGE
and the largest sequence number, and the routing table computed from the
database. The code has no restart of a router, so no router meets a newer
instance of its own LSA: that branch of the update handler
(`LinkStateUpdateHandler.cc:185`) is in `UpdateNewer`, but no run reaches it.

## Runs

All runs of `TCPPair` use two ends, `SeqMod` 64 and small windows, and let each
application issue any legal sequence of commands. A window of three to five
segments is the least in which a gap, three duplicate ACKs and a partial window
happen; 64 is far above twice the window, and the initial number 63 makes the
numbers wrap at the first octet. A stream that itself crosses the wraparound
fails the assertion of `extractTo()` (see below); the queue without the assertion
is checked across it by `rcvbuffer`. `Faults` is a set of budgets, of which a behaviour has one: so many
losses, duplicates and timeouts before their time, at any place of it, and how
many others a segment may overtake.

`AODV` and `OSPF` have a budget for each kind of fault and one for all of them
together (`any`). Three hosts in a line are the least in which a request is
passed on and answered by a host in between; four in a ring give two ways, so
that the copies of a flood overtake each other. The four hosts of the loop are
a star whose fourth host is not in range. Two routers have every state of an
adjacency, the third LSA makes their databases differ in both directions, and two
more make one request too small for the list, so that the rest is left to the
timer;
three in a line are the least in which an LSA is passed on.

| run | situation | properties |
|---|---|---|
| `pair_loss` | client and server, TCPReno, MSS 2, data both ways; one loss, or one timer before its time | `NoError`, `IndicationsOnce`, `HandshakeEnds`, `DataGetsThrough`, `TeardownEnds` |
| `pair_faults` | one loss, one duplicate, overtaking, wraparound in the handshake, TCPTahoe | `TypeOK`, `AckedWasReceived`, `RexmitArmed`, `SendVariablesOrdered`, `ReliableStreams` |
| `pair_reopen` | simultaneous open, back to LISTEN and again, aborts, SEND in LISTEN, two losses, no congestion control | `HandshakeTimers`, `RemovedMeansTold`, `ReliableStreams` |
| `pair_reno` | nine octets, one loss, fast retransmit and recovery | `FlightWithinWindow`, `LossRepaired` |
| `rcvbuffer` | the receive queue alone, every start, window 7 of 16 | `RegionsHoldOctets`, `RegionsSeparated`, `MergeIsLoops`, `PassedUpInSequence` |
| `main_ports` | three objects, two ports, two remotes | `MainTypeOK`, `SockPairsAgree`, `ConnIdsAgree`, `PortsCounted`, `ConfiguredBeyondListen`, `ListenerStays` |
| `aodv_discovery` | four hosts in a ring, in a line and in two parts, searches in every order of the floods | `SearchEnds`, `DataArrives` |
| `aodv_faults` | three hosts in a line, two datagrams, with and without link layer feedback, two faults | `TypeOK`, `KernelFollowsTable`, `QueuedMeansSeeking`, `SeekingMeansNoRoute`, `RepairMeansInvalid`, `OwnSeqnoAdvances` |
| `ospf_adjacency` | two routers from Down, different databases, one fault | `TimersKnown`, `Converges` |
| `ospf_flooding` | three routers in a line, Full, two faults and refreshes | `TypeOK`, `OwnLSACurrent`, `InstancesAgree`, `KeptUntilHeld`, `InstancesAdvance` |

The main result of `TCPPair` is the refinement `ReliableStreams`: mapping what
was written, closed, delivered and reported to `ReliableStream`, every step of
the two connections is a step or a stutter of the abstract streams. It is
safety only. Deadlock is not checked there, since two closed connections rest;
nor in `AODV` and `OSPF`, where a network without faults left to happen rests.

Each liveness property holds in the situation of its run and not in all:

* `TeardownEnds` speaks of behaviours in which the fault does not happen: a FIN
  that `process_CLOSE()` sends is not retransmitted, and after a spurious timeout
  two ends in TIME_WAIT can answer each other's ACKs for ever. `DataGetsThrough` allows giving
  up, which REXMIT does after `MaxRexmitCount` (12 in the source) tries.
  `NoError` holds where the disturbance is small, and the section below shows
  what breaks it.
* `DataArrives` speaks of connected networks without faults. What it excludes
  is that the order of the floods alone loses a datagram: a hello or an overheard
  message that makes the route valid before the reply comes also releases it.
* `QueuedMeansSeeking` and `RepairMeansInvalid` hold without link layer feedback.
  With it, `packetFailed()` may leave a datagram in the queue without a search,
  until the garbage collection takes it.
* `Converges` names one exception: a DD packet lost in Exchange. Nobody sends it
  again, since `NegotiationDone` has cleared the timer, and the hellos keep the
  inactivity timer from firing.
* `KeptUntilHeld` is about the LSAs a router originates. One that it passes on
  is taken off the retransmission lists by the same handler that has put it
  there (`LinkStateUpdateHandler.cc:178`).

Fairness. TCP (`FairSpec`): a segment under way to an end is eventually received
or lost, and a timer due on a quiet network eventually expires; the conditions
are written out (`SegmentUnderWay`, `TimerDue`) and equal the enabling
conditions of the actions. AODV: weak fairness of frames in flight and search
timers together (`Proceed`); route timers, hellos and movements need not
happen. OSPF: weak fairness of packets and retransmission timers together, and
strong fairness of the periodic hello, which faster timers may interrupt but not
stop. The simulation kernel takes every event off its queue in the order of
time, which guarantees all of these. Nothing is assumed of the applications or
of the faults.

### Claims that fail

| run | what the repository says | what happens |
|---|---|---|
| `claim_fin_gap` | `TCPConnectionRcvSegment.cc:491` a FIN above sequence is handled when the gap is filled | the connection has moved to CLOSE_WAIT, where text is not processed |
| `claim_aodv_loop` | `rfc3561.txt:36` sequence numbers ensure "loop freedom at all times" | a hello lowers the number of a route (`aodv_hello.cc:345`); after the next break the host asks for no more than what its neighbour has, and takes the neighbour's route, which leads through itself |

The models contain further deviations that are not kept as runs; each shows as
a counterexample to the obvious property:

* `TCP.ned:131` promises the teardown of RFC 793. A FIN sent by CLOSE is not
  repeated when it is lost.
* `TCPVirtualDataSendQueue.cc:60` asserts that the octets asked for are in the
  queue. A retransmission counts the FIN as an octet.
* `TCPConnectionRcvSegment.cc:864` a forked connection that goes back to LISTEN
  forks again on the next SYN, on an address that is taken.
* `:1040` expects no 2MSL timeout outside TIME_WAIT. In CLOSING, a FIN repeated
  with the ACK of the own FIN starts the timer and replaces the event (two
  losses).
* `:47-50` wants the RST of a closed port to be acceptable. Its ACK does not
  count the SYN, so a refused connection times out instead.
* `:544` a deferred CLOSE replaces the event of a FIN in the same segment
  (simultaneous open); the connection stays in FIN_WAIT_2.
* `:349` in TIME_WAIT every acceptable ACK is answered by an ACK: two ends in
  TIME_WAIT can answer each other for ever (one spurious timeout).
* `TCP.ned:136` lists a FIN-WAIT-2 timer, which is never scheduled.
* `TCPVirtualDataRcvQueue.cc:147` compares region bounds as plain numbers, and
  fails for a region across the wraparound.
* `DumbTCP.cc:45` the REXMIT timer has no connection attached.
* `TCPNoCongestionControl.cc:32` the infinite cwnd is set to one MSS by
  `established()`.
* `aodv_uu_omnet.cc:346`, `OSPFNeighborStateExchangeStart.cc:68` and
  `LinkStateUpdateHandler.cc:178`: see the properties above.

## Proofs

`TCPMainProofs`, for any objects, addresses, ports, port range and bound on
connection ids (`MainAssumption`):

* `MainTypeCorrect`, `ConnMapConsistent` (`SockPairsAgree`) and its consequence
  `SegmentsMatch`. `SockPairsAgree` is inductive with the types, but one case is
  delicate: `updateSockPair()` does not look at the new key. It is free because
  the connection was found by `findConnForSegment()`, which tries the full key
  first: if another connection had it, that one would have been found.
* `AppConnMapConsistent` (`ConnIdsAgree`), strengthened by `ConnIdsIssued`: every
  id in use is at most `uniqueNumber`, so a fork's new id is fresh.
* `ForksAreConfigured` (`ConfiguredBeyondListen`), strengthened by
  `ConfiguredUnlessClone`: only a forking listener may be unconfigured, and it
  configures itself, by what looks like a slip in `cloneListeningConnection()`,
  when it forks in its turn.
* `ListenerSurvivesFork` (`ListenerStays`), an action property.
* `PortsAreCounted` (`PortsCounted`): the number kept for an ephemeral port is
  the number of keys of `tcpConnMap` with that port. The proof follows the
  cardinality of that set through each change of the map.

`TCPRcvBufferProofs`, for every even `SeqMod` and every window below half of it
(`WindowAssumption`): `ListHoldsOctets` (`RegionsHoldOctets`), `ListIsSeparated`
(`RegionsSeparated`) and `InSequence` (`PassedUpInSequence`).

* Every number is turned into its distance from `rcv_nxt` (`SeqDiff`). Inside
  the window the modular order is the order of the distances (`WindowOrder`), so
  the wraparound disappears from the rest of the argument.
* `BufferInv`: the regions are non-empty intervals of distances, in order and
  with a gap between any two, none of them contains distance 0, and together they
  cover the octets held. The properties are not inductive without the order and
  without the fact that the octet awaited is missing.
* `merge()` in its closed form replaces the regions that touch the new one, which
  are neighbours in the list, by one (`Stops`, `Splice`, `Merged`); taking the first
  region off moves all distances by the same amount (`Shifted`, `Further`).
  The closed form names the positions at which the two loops stop; that there is
  a first such position (`LeastNumber`) is the only induction needed. That the
  loops of the source compute the closed form needs another, over the list, and is
  `MergeIsLoops`, model-checked on every list of the bounded instance.

`AODVProofs`, for any hosts, parameters, topologies, flows, limits of faults and
choices of the uninitialised flags (`ParamsAreNumbers`, `NetworkIsWellFormed`):
`TypeCorrect` (`TypeOK`), `QueuedIsSought` (`QueuedMeansSeeking`),
`RepairIsOfInvalid` (`RepairMeansInvalid`), `SeqnoNeverBack`
(`OwnSeqnoAdvances`), and for networks without link layer feedback `KernelFollows`
(`KernelFollowsTable`) and `SeekingHasNoRoute` (`SeekingMeansNoRoute`).

* The inductive invariant `IInv` says of each host that its record is well formed
  (`Well`) and, unless it uses feedback, that the two tables, the searches and the
  queue agree (`Calm`). The four properties need each other: a packet is released
  only with the search, the search ends where a route becomes valid, and a route
  that RT_REPAIR marks is not valid. Two more facts are needed about timers:
  `local_repair_timeout` is set on invalid routes only, and a hello timer
  runs on routes of one hop only.
* Each operator of `AODVRouting` has a lemma that relates the host before and
  after it (`Keeps`); inside `rt_table_insert()` and `rt_table_update()` there is
  a moment when the route is valid and the search still on (`CalmBut`), which
  `Release` ends. A handler is then a chain of such lemmas, and an action of the
  network one handler and what it sends.
* `0 < LOCAL_ADD_TTL` is needed: `rreq_local_repair()` sends its request with a
  TTL of at least that.
* With feedback `Calm` is not inductive: `packetFailed()` may leave RT_REPAIR
  on a route of several hops to a host that is a neighbour as well, and the next
  hello makes that route valid. What `aodv_faults` shows of `KernelFollowsTable`
  and `SeekingMeansNoRoute` with feedback is therefore model-checked only.

`TCPPairProofs`, for any window, MSS, flavour, write sizes and fault budgets:

* `HandshakeTimersHold`: `Spec => []HandshakeTimers`. The inductive invariant
  `TimersInv` says it of each connection record (`Fits`). One lemma per method
  says which of the watched fields (state, two timers, event, ...) it touches;
  one per handler that the record is `Ready` for the event it sets; one
  (`TransitionFits`) that the table and `stateEntered()` turn a ready record
  into one that fits.

`TCPSenderProofs`, on the lemmas of `TCPSendingProofs` and `TCPReceivingProofs`,
for any window, MSS, flavour, write sizes and fault budgets, and every even
`SeqMod` above 2:

* `SenderInvariant` and its consequences `PairTypeCorrect` (`TypeOK`),
  `RemovedMeansToldHolds`, `SendVariablesOrderedHolds`, `FlightWithinWindowHolds`
  and `RexmitArmedHolds`.
* Three of them speak of the order of sequence numbers. Counted from `iss` the
  send variables are plain numbers (`Una`, `Nxt`, `Maxi`, `End`), and the modular
  comparisons of the source are comparisons of these as long as they stay within
  half of the number space. So these theorems assume `NumbersSuffice`: neither
  application writes more than `SeqMod / 2 - 3` octets in one connection. The code
  has no such limit, because its comparisons are of numbers that are at most a
  window apart; proving that needs the invariants of the network, which bound how
  old an ACK may be. The ACKs of the proof are arbitrary: what makes a wrong one
  harmless is that the code accepts `snd_una < SEG.ACK <= snd_max` only.
* The inductive invariant `SenderInv` says of each connection that it is `Sound`:
  the variables are in order, with the FIN numbered after the last octet
  (`InOrder`); what is in flight fits the window (`InWindow`); REXMIT runs while
  an octet is unacknowledged (`Armed`), which for DumbTCP, where the timer is
  never stopped, is another condition than for the others; and the state fits the
  rest of the record (`Suits`). The properties are not inductive alone: that
  `snd_nxt` is `snd_max` during the handshake is needed when `established()` sends,
  that the FIN leaves together with the last octet or has left already (`snd_max` is
  never the number of a queued FIN) is needed when a retransmitted segment ends
  there and takes the FIN along, which must not carry `snd_nxt` beyond `snd_max`;
  and that a connection in SYN_RCVD which may go back to LISTEN has nothing to send
  is needed so that a CLOSE there is not deferred into the next life.
* As in `TCPPairProofs`, a method has a lemma on what it may change (`Keeps`,
  `Sent`, `Resends`, `Acked`, `Receives`), a handler one that its result is
  `Ready`, and `TransitionSound` takes a ready record through the table (`Table`:
  which of its entries change the state, and to what) and `stateEntered()`. That
  `merge()` returns a list of regions is a hypothesis of these lemmas (`MergeTyped`)
  that `MergeIsTyped` discharges before the theorems.
* `RemovedMeansToldHolds` assumes `ConnEstabFirst`: CONN-ESTAB (75 s) expires before
  SYN-REXMIT has counted to `MAX_SYN_REXMIT_COUNT` (12), as it does with the
  constants of the source. The ABORT that `process_TIMEOUT_SYN_REXMIT()` would then
  perform closes the connection and tells the application nothing.

Model-checked only: the liveness properties; `ReliableStreams` and
`AckedWasReceived`, whose invariants span both ends and the network;
`NoError` and `IndicationsOnce`, which hold in the situation of their run and
depend on which segments its faults can produce; `MergeIsLoops`, which compares two recursive
computations and needs induction over the list; `KernelFollowsTable` and
`SeekingMeansNoRoute` with link layer feedback; and the properties of `OSPF`,
whose flooding is a recursive operator, out of the prover's reach.

## Not modelled

* Radio, MAC timing, mobility, real network interfaces: what they do is a matter
  of real-valued times, geometry and signal strength.
* Configurators, address types, serializers, statistics, traffic generators:
  data or one-off initialization, without a protocol state.
* UDP's tables, ARP, IPv6 neighbour discovery, DHCP, LDP, RSVP, the Ethernet
  switch, 802.11 association: protocol state machines within reach of the
  methods used here, not done yet.
* SCTP and the other ad hoc routing protocols (DSR-UU, OLSR, DYMO): each of the
  size of the parts modelled here.

## Plan

1. Extend TCP: `TCPMsgBased*Queue` over `TCPRcvQueue`; a queue between
   application and `TCP`, so that commands cross indications; `TCPPair` over
   `TCPMain` with forking listeners.
2. Extend OSPF by broadcast interfaces and the designated router.
3. Further components: UDP socket tables, `ReassemblyBuffer` and `IPFragBuf`,
   ARP, IPv6 neighbour cache, the SCTP handshake and shutdown, 802.11
   association, DYMO routes, DHCP.
4. Proofs: OSPF with flooding written without recursion; the implementation of
   `ReliableStream`, for which the segments under way need an invariant.
