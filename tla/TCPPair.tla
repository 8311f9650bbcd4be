------------------------------- MODULE TCPPair -------------------------------
(***************************************************************************)
(* Two hosts with one TCP connection each, and the network between them.   *)
(* A handler runs to its end before the next event (OMNeT++), so each one  *)
(* is a single step; the hosts, their timers and the network interleave.   *)
(***************************************************************************)
EXTENDS TCPConnection

CONSTANTS Opens,          \* Opens[e]: how an end may open, "active" or "passive"
          InitialSeqNums, \* the values selectInitialSeqNum() may take
          WriteSizes,     \* the octets of one SEND
          MaxWritten,     \* MaxWritten[e]: bound on the octets an end writes
          Aborts,         \* the ends whose application may ABORT
          RawSend,        \* the application may SEND in LISTEN (without a TCPSocket)
          ConnEstabRexmits, \* SYN retransmissions that fit into CONN-ESTAB's 75s
          Faults          \* the budgets of faults that a behaviour may have

Ends == {1, 2}

Peer(e) == 3 - e

\* How many segments the network may lose and duplicate, how many others a segment
\* may overtake, and how many timers may expire while segments are under way.
Budget == [loss : Nat, dup : Nat, overtake : Nat, spurious : Nat]

ASSUME PairAssumption ==
  /\ Opens \in [Ends -> SUBSET {"active", "passive"}]
  /\ InitialSeqNums \subseteq SeqNo
  /\ WriteSizes \subseteq Nat \ {0}
  /\ MaxWritten \in [Ends -> Nat]
  /\ Aborts \subseteq Ends
  /\ RawSend \in BOOLEAN
  /\ ConnEstabRexmits \in Nat
  /\ Faults \subseteq Budget

VARIABLES conn,    \* conn[e]: the connection of end e
          net,     \* net[e]: the segments under way to end e
          budget   \* what the network and the timers may still do

vars == <<conn, net, budget>>

Init ==
  /\ conn = [e \in Ends |-> NewConn]
  /\ net = [e \in Ends |-> <<>>]
  /\ budget \in Faults

\* An assertion or opp_error() has stopped the simulation.
Stopped == \E e \in Ends : conn[e].err # "none"

\* The end of a handler: the state transition, and the segments go out.
Finish(e, c, inbound) ==
  LET d == performStateTransition(c)
  IN /\ ~ Stopped
     /\ conn' = [conn EXCEPT ![e] = [d EXCEPT !.out = <<>>]]
     /\ net' = [net EXCEPT ![e] = inbound, ![Peer(e)] = @ \o d.out]

(***************************************************************************)
(* The application.                                                        *)
(***************************************************************************)
OpenActive(e) ==
  /\ "active" \in Opens[e]
  /\ conn[e].state = "INIT"
  /\ \E iss \in InitialSeqNums : Finish(e, process_OPEN_ACTIVE(conn[e], iss), net[e])
  /\ UNCHANGED budget

OpenPassive(e) ==
  /\ "passive" \in Opens[e]
  /\ conn[e].state = "INIT"
  /\ Finish(e, process_OPEN_PASSIVE(conn[e]), net[e])
  /\ UNCHANGED budget

\* TCPSocket::send(); an application does not write after it closed.
Send(e) ==
  /\ \/ conn[e].sock \in {"CONNECTED", "CONNECTING", "PEER_CLOSED"}
     \/ RawSend /\ conn[e].state = "LISTEN"
  /\ ~ conn[e].closeCalled
  /\ \E n \in WriteSizes, iss \in InitialSeqNums :
       /\ conn[e].written + n <= MaxWritten[e]
       /\ Finish(e, process_SEND(conn[e], n, iss), net[e])
  /\ UNCHANGED budget

\* TCPSocket::close(); an application closes once.
Close(e) ==
  /\ conn[e].sock \in {"CONNECTED", "PEER_CLOSED", "CONNECTING", "LISTENING"}
  /\ ~ conn[e].closeCalled
  /\ Finish(e, process_CLOSE(conn[e]), net[e])
  /\ UNCHANGED budget

\* TCPSocket::abort().
Abort(e) ==
  /\ e \in Aborts
  /\ conn[e].sock \notin {"NOT_BOUND", "CLOSED", "SOCKERROR"}
  /\ Finish(e, process_ABORT(conn[e]), net[e])
  /\ UNCHANGED budget

(***************************************************************************)
(* Arriving segments, in any order that budget.overtake allows.            *)
(***************************************************************************)
Arrival(e, i) == i \in 1 .. Lesser(Len(net[e]), 1 + budget.overtake)

Without(q, i) == SubSeq(q, 1, i - 1) \o SubSeq(q, i + 1, Len(q))

\* Segment i reaches end e, whose handler turns its connection into c.
Arrives(e, i, c) == Finish(e, c, Without(net[e], i)) /\ UNCHANGED budget

SegmentWhileClosed(e) ==
  \E i \in 1 .. Len(net[e]) :
    /\ Arrival(e, i)
    /\ conn[e].state \in {"INIT", "CLOSED"}
    /\ Arrives(e, i, segmentArrivalWhileClosed(conn[e], net[e][i]))

SegmentInListen(e) ==
  \E i \in 1 .. Len(net[e]), iss \in InitialSeqNums :
    /\ Arrival(e, i)
    /\ conn[e].state = "LISTEN"
    /\ Arrives(e, i, processSegmentInListen(conn[e], net[e][i], iss))

SegmentInSynSent(e) ==
  \E i \in 1 .. Len(net[e]) :
    /\ Arrival(e, i)
    /\ conn[e].state = "SYN_SENT"
    /\ Arrives(e, i, processSegmentInSynSent(conn[e], net[e][i]))

\* The states whose segments go to processSegment1stThru8th().
OtherStates == States \ {"INIT", "CLOSED", "LISTEN", "SYN_SENT"}

UnacceptableSegment(e) ==
  \E i \in 1 .. Len(net[e]) :
    /\ Arrival(e, i)
    /\ conn[e].state \in OtherStates
    /\ ~ isSegmentAcceptable(conn[e], net[e][i])
    /\ Arrives(e, i, processUnacceptable(conn[e], net[e][i]))

RstSegment(e) ==
  \E i \in 1 .. Len(net[e]) :
    /\ Arrival(e, i)
    /\ conn[e].state \in OtherStates
    /\ isSegmentAcceptable(conn[e], net[e][i])
    /\ "RST" \in net[e][i].flags
    /\ Arrives(e, i, processRst(conn[e]))

UnexpectedSyn(e) ==
  \E i \in 1 .. Len(net[e]) :
    /\ Arrival(e, i)
    /\ conn[e].state \in OtherStates
    /\ isSegmentAcceptable(conn[e], net[e][i])
    /\ "RST" \notin net[e][i].flags /\ "SYN" \in net[e][i].flags
    /\ Arrives(e, i, processUnexpectedSyn(conn[e]))

\* Every segment without RST and SYN that this TCP sends has the ACK bit.
AckSegment(e) ==
  \E i \in 1 .. Len(net[e]) :
    /\ Arrival(e, i)
    /\ conn[e].state \in OtherStates
    /\ isSegmentAcceptable(conn[e], net[e][i])
    /\ "RST" \notin net[e][i].flags /\ "SYN" \notin net[e][i].flags
    /\ Arrives(e, i, processAckSegment(conn[e], net[e][i]))

Lose(e) ==
  /\ ~ Stopped /\ budget.loss > 0
  /\ \E i \in 1 .. Len(net[e]) : net' = [net EXCEPT ![e] = Without(@, i)]
  /\ budget' = [budget EXCEPT !.loss = @ - 1]
  /\ UNCHANGED conn

Duplicate(e) ==
  /\ ~ Stopped /\ budget.dup > 0
  /\ \E i \in 1 .. Len(net[e]) : net' = [net EXCEPT ![e] = Append(@, @[i])]
  /\ budget' = [budget EXCEPT !.dup = @ - 1]
  /\ UNCHANGED conn

(***************************************************************************)
(* Timers. They are longer than a round trip, so that they expire when no  *)
(* segment is under way, but for budget.spurious times.                    *)
(***************************************************************************)
Quiet == \A e \in Ends : net[e] = <<>>

Expire ==
  \/ Quiet /\ UNCHANGED budget
  \/ ~ Quiet /\ budget.spurious > 0 /\ budget' = [budget EXCEPT !.spurious = @ - 1]

\* CONN-ESTAB runs from the open, and so does SYN-REXMIT unless a simultaneous
\* open restarts it: then fewer retransmissions fit into the time that is left.
TimeoutConnEstab(e) ==
  /\ conn[e].connEstabTimer = "scheduled"
  /\ \/ conn[e].syn_rexmit_count >= ConnEstabRexmits
     \/ conn[e].active /\ conn[e].state = "SYN_RCVD"
  /\ Expire
  /\ Finish(e, process_TIMEOUT_CONN_ESTAB(conn[e]), net[e])

TimeoutSynRexmit(e) ==
  /\ conn[e].synRexmitTimer = "scheduled"
  /\ conn[e].syn_rexmit_count < ConnEstabRexmits
  /\ Expire
  /\ Finish(e, process_TIMEOUT_SYN_REXMIT(conn[e]), net[e])

Timeout2MSL(e) ==
  /\ conn[e].the2MSLTimer = "scheduled"
  /\ Expire
  /\ Finish(e, process_TIMEOUT_2MSL(conn[e]), net[e])

TimeoutRexmit(e) ==
  /\ conn[e].rexmitTimer = "scheduled"
  /\ Expire
  /\ Finish(e, processRexmitTimer(conn[e]), net[e])
----
Receive(e) ==
  \/ SegmentWhileClosed(e) \/ SegmentInListen(e) \/ SegmentInSynSent(e)
  \/ UnacceptableSegment(e) \/ RstSegment(e) \/ UnexpectedSyn(e) \/ AckSegment(e)

Timeout(e) ==
  \/ TimeoutConnEstab(e) \/ TimeoutSynRexmit(e) \/ Timeout2MSL(e) \/ TimeoutRexmit(e)

Application(e) ==
  \/ OpenActive(e) \/ OpenPassive(e) \/ Send(e) \/ Close(e) \/ Abort(e)

Network(e) == Lose(e) \/ Duplicate(e)

Next == \E e \in Ends : Application(e) \/ Receive(e) \/ Timeout(e) \/ Network(e)

Spec == Init /\ [][Next]_vars

(***************************************************************************)
(* Fairness: a segment that is under way arrives or is lost, and a timer   *)
(* that is pending on a quiet network expires, as the simulation kernel    *)
(* takes every event off its queue.  SegmentUnderWay(e) and TimerDue(e)    *)
(* are when Receive(e) and Timeout(e) can be taken; written out, they are  *)
(* cheap to evaluate.                                                      *)
(***************************************************************************)
SegmentUnderWay(e) == ~ Stopped /\ net[e] # <<>>

TimerDue(e) ==
  /\ ~ Stopped /\ Quiet
  /\ "scheduled" \in {conn[e].connEstabTimer, conn[e].the2MSLTimer, conn[e].rexmitTimer}

FairSpec ==
  /\ Spec
  /\ \A e \in Ends :
       /\ []<> ~ SegmentUnderWay(e) \/ []<> <<Receive(e)>>_vars
       /\ []<> ~ TimerDue(e) \/ []<> <<Timeout(e)>>_vars

(***************************************************************************)
(* Properties that hold on any network.                                    *)
(***************************************************************************)
\* The variables keep their types: no handler of TCPConnection leaves a sequence
\* number outside the number space or a counter, window or buffer below zero.
TypeOK ==
  /\ conn \in [Ends -> Conn]
  /\ net \in [Ends -> Seq(Segment)]
  /\ budget \in Budget

Handshaking == {"SYN_SENT", "SYN_RCVD"}

(***************************************************************************)
(* CONN-ESTAB and SYN-REXMIT are pending in SYN_SENT and SYN_RCVD and in   *)
(* no other state: the handshake cannot hang for want of a timer, and the  *)
(* "should not receive this timeout in this state" errors of the two       *)
(* timeout handlers cannot occur.  The timer messages are deleted only on  *)
(* entering ESTABLISHED, never where they are needed again.                *)
(***************************************************************************)
HandshakeTimers ==
  \A e \in Ends :
    /\ conn[e].connEstabTimer = "scheduled" <=> conn[e].state \in Handshaking
    /\ conn[e].synRexmitTimer = "scheduled" <=> conn[e].state \in Handshaking
    /\ conn[e].connEstabTimer = "NULL" => conn[e].state \in SynchronizedStates
    /\ conn[e].synRexmitTimer = "NULL" => conn[e].state \in SynchronizedStates

Synchronized(e) == conn[e].state \in SynchronizedStates

\* The sequence variables of the sender stay in order, through retransmissions
\* that set snd_nxt back, ACKs ahead of snd_nxt and the FIN of process_CLOSE(),
\* which comes right after the last octet of the queue however long it is deferred.
SendVariablesOrdered ==
  \A e \in Ends : Synchronized(e) =>
    /\ conn[e].send_fin => conn[e].snd_fin_seq = conn[e].end
    /\ seqLE(conn[e].snd_una, conn[e].snd_nxt)
    /\ seqLE(conn[e].snd_nxt, conn[e].snd_max)
    /\ seqLE(conn[e].snd_max, SeqAdd(conn[e].end, IF conn[e].send_fin THEN 1 ELSE 0))

\* What processAckInEstabEtc() holds for acknowledged the other end has received,
\* and the receive queue of the other end has taken in nothing that was not sent.
AckedWasReceived ==
  \A e \in Ends : Synchronized(e) /\ Synchronized(Peer(e)) =>
    /\ seqLE(conn[e].snd_una, conn[Peer(e)].rcv_nxt)
    /\ seqLE(conn[Peer(e)].rcv_nxt, conn[e].snd_max)

DataOutstanding(c) ==
  /\ c.state \in SynchronizedStates
  /\ seqLess(c.iss, c.snd_una)
  /\ seqLess(c.snd_una, c.snd_max) /\ seqLess(c.snd_una, c.end)

\* Octets that were sent and not acknowledged are covered by the REXMIT timer:
\* every path through sendData(), receivedDataAck(), receivedDuplicateAck() and
\* processRexmitTimer() leaves it scheduled.
RexmitArmed ==
  \A e \in Ends : DataOutstanding(conn[e]) => conn[e].rexmitTimer = "scheduled"

FinSent(e) ==
  conn[e].send_fin /\ conn[e].snd_max = SeqAdd(conn[e].snd_fin_seq, 1)

\* sendData() never has more in flight than the window its peer advertises, for
\* all the inflating and cutting of snd_cwnd (the FIN does not count).
FlightWithinWindow ==
  \A e \in Ends : Synchronized(e) =>
    SeqDiff(conn[e].snd_max, conn[e].snd_una) <= RcvWnd + (IF FinSent(e) THEN 1 ELSE 0)

\* A connection is not deleted (TCP::removeConnection()) behind the back of its
\* application: it was told so, or it asked for it.
RemovedMeansTold ==
  \A e \in Ends : conn[e].state = "CLOSED" => conn[e].sock \in {"CLOSED", "SOCKERROR"}

\* The two connections implement two reliable streams (ReliableStream): what the
\* applications write with SEND and end with CLOSE is what the DATA and
\* PEER_CLOSED indications give the peer, whatever the network loses, duplicates
\* or reorders.
Streams ==
  INSTANCE ReliableStream WITH
    Writers <- Ends,
    sent <- [e \in Ends |-> conn[e].written],
    ended <- [e \in Ends |-> conn[e].closeCalled],
    read <- [e \in Ends |-> conn[Peer(e)].delivered],
    eof <- [e \in Ends |-> conn[Peer(e)].peerClosedInds > 0]

ReliableStreams == Streams!StreamSpec

(***************************************************************************)
(* Properties of networks that disturb a connection little.                *)
(***************************************************************************)
\* No ASSERT fails and no opp_error() is called, in any handler: no timer is
\* scheduled twice or expires in a wrong state, no octet outside the queues is
\* asked for, and no command comes in a state that refuses it.
NoError == ~ Stopped

\* PEER_CLOSED and CLOSED are reported to the application once each, although a
\* FIN may arrive twice and a connection may end in several ways.
IndicationsOnce ==
  \A e \in Ends : conn[e].peerClosedInds <= 1 /\ conn[e].closedInds <= 1

\* A handshake ends: the connection is established, or given up when CONN-ESTAB
\* expires, whatever segments of the handshake are lost.
HandshakeEnds ==
  \A e \in Ends : conn[e].state \in Handshaking ~> conn[e].state \notin Handshaking

\* Octets that process_SEND() accepts are delivered, or the connection is given
\* up: the REXMIT timer and the retransmissions see to it.
DataGetsThrough ==
  \A e \in Ends : \A n \in 1 .. MaxWritten[e] :
    (conn[e].written >= n)
      ~> (conn[Peer(e)].delivered >= n \/ \E f \in Ends : conn[f].state = "CLOSED")

\* Octets written to a connection that is established at both ends are
\* delivered, unless an application closes: the loss is repaired by a fast
\* retransmission or by the REXMIT timer, and not by giving up.
LossRepaired ==
  \A e \in Ends : \A n \in 1 .. MaxWritten[e] :
    (conn[e].written >= n /\ \A f \in Ends : conn[f].state = "ESTABLISHED")
      ~> (conn[Peer(e)].delivered >= n \/ \E f \in Ends : conn[f].closeCalled)

\* Once both applications have closed, both connections are deleted, whichever
\* closes first and however long data defers the FIN, unless the network or a
\* timer spends its fault: sendFin() starts no REXMIT timer, and two ends that are
\* disturbed in TIME_WAIT may answer each other's ACKs for ever.
TeardownEnds ==
  (\A e \in Ends : conn[e].closeCalled)
    ~> (budget.loss + budget.spurious = 0 \/ \A e \in Ends : conn[e].state = "CLOSED")
=============================================================================
