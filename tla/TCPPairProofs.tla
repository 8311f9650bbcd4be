---------------------------- MODULE TCPPairProofs ----------------------------
(***************************************************************************)
(* The handshake timers of TCPPair, for any sizes, windows, flavour and    *)
(* network: CONN-ESTAB and SYN-REXMIT are pending in SYN_SENT and SYN_RCVD *)
(* and in no other state.  The argument is about five fields of the record *)
(* that stands for a connection; most methods leave all five alone.        *)
(***************************************************************************)
EXTENDS TCPPair, TLAPS

Watched == {"state", "active", "event", "connEstabTimer", "synRexmitTimer"}

Shaped(c) == Watched \subseteq DOMAIN c

\* d agrees with c but for the event and what is not watched.
SameTimers(c, d) ==
  /\ DOMAIN d = DOMAIN c
  /\ d.state = c.state /\ d.active = c.active
  /\ d.connEstabTimer = c.connEstabTimer /\ d.synRexmitTimer = c.synRexmitTimer

Same(c, d) == SameTimers(c, d) /\ d.event = c.event

\* Methods called one after the other leave alone what each of them does.
LEMMA SameTransitive ==
  ASSUME NEW c, NEW d, NEW f, Same(c, d), Same(d, f)
  PROVE  Same(c, f)
BY DEF Same, SameTimers

\* A connection keeps its fields.
LEMMA SameShaped ==
  ASSUME NEW c, NEW d, Shaped(c), Same(c, d)
  PROVE  Shaped(d)
BY DEF Same, SameTimers, Shaped

(***************************************************************************)
(* The methods that leave the watched fields alone.                        *)
(***************************************************************************)
\* ASSERT and opp_error() only set err.
LEMMA AssertSame ==
  ASSUME NEW c, Shaped(c), NEW cond, NEW what
  PROVE  Same(c, Assert(c, cond, what))
BY DEF Assert, Same, SameTimers, Shaped, Watched

\* sendToIP() only hands over a segment.
LEMMA SendToIPSame ==
  ASSUME NEW c, Shaped(c), NEW seg
  PROVE  Same(c, sendToIP(c, seg))
BY DEF sendToIP, Same, SameTimers, Shaped, Watched

\* Sending an ACK, a FIN or a RST changes no handshake timer.
LEMMA SendSame ==
  ASSUME NEW c, Shaped(c)
  PROVE  /\ Same(c, sendAck(c)) /\ Same(c, sendFin(c))
         /\ \A seq : Same(c, sendRst(c, seq))
         /\ \A seq, ack : Same(c, sendRstAck(c, seq, ack))
BY SendToIPSame DEF sendAck, sendFin, sendRst, sendRstAck

\* Sending a SYN or a SYN+ACK does not schedule the timers by itself.
LEMMA SendSynSame ==
  ASSUME NEW c, Shaped(c)
  PROVE  Same(c, sendSyn(c)) /\ Same(c, sendSynAck(c))
<1>1. Same(c, sendSynAck(c))
  BY DEF sendToIP, sendSynAck, Same, SameTimers, Shaped, Watched
<1>2. Same(c, sendSyn(c))
  BY DEF sendToIP, sendSyn, Assert, Same, SameTimers, Shaped, Watched
<1> QED
  BY <1>1, <1>2

\* The send queue's methods and selectInitialSeqNum() touch sequence numbers only.
LEMMA QueueSame ==
  ASSUME NEW c, Shaped(c), NEW n
  PROVE  /\ Same(c, enqueueAppData(c, n)) /\ Same(c, discardUpTo(c, n))
         /\ Same(c, selectInitialSeqNum(c, n))
BY AssertSame
   DEF enqueueAppData, discardUpTo, selectInitialSeqNum, Same, SameTimers, Shaped, Watched

\* Sending data touches the sequence variables only.
LEMMA SendSegmentsSame ==
  ASSUME NEW c, Shaped(c), NEW n
  PROVE  Same(c, sendSegments(c, n))
BY AssertSame DEF sendSegments, Same, SameTimers, Shaped, Watched

\* REXMIT and 2MSL are timers of their own.
LEMMA RexmitTimerSame ==
  ASSUME NEW c, Shaped(c)
  PROVE  /\ Same(c, scheduleRexmit(c)) /\ Same(c, cancelRexmit(c))
         /\ Same(c, startRexmitTimer(c)) /\ Same(c, schedule2MSL(c))
<1> DEFINE r == Assert(c, c.rexmitTimer = "idle", "REXMIT scheduled twice")
           t == Assert(c, c.the2MSLTimer = "idle", "2MSL scheduled twice")
<1>0. Same(c, r) /\ Same(c, t)
  BY AssertSame, ZenonT(30)
<1>1. Same(c, scheduleRexmit(c)) /\ Same(c, schedule2MSL(c))
  <2> HIDE DEF r, t
  <2>1. Same(r, [r EXCEPT !.rexmitTimer = "scheduled"])
        /\ Same(t, [t EXCEPT !.the2MSLTimer = "scheduled"])
    BY <1>0 DEF Same, SameTimers, Shaped, Watched
  <2>2. Same(c, [r EXCEPT !.rexmitTimer = "scheduled"])
        /\ Same(c, [t EXCEPT !.the2MSLTimer = "scheduled"])
    BY <1>0, <2>1, SameTransitive
  <2> QED
    BY <2>2, ZenonT(30) DEF r, t, scheduleRexmit, schedule2MSL
<1>2. Same(c, cancelRexmit(c))
  BY DEF cancelRexmit, Same, SameTimers, Shaped, Watched
<1>3. Same(scheduleRexmit(c), startRexmitTimer(c))
  BY <1>1, SameShaped DEF startRexmitTimer, Same, SameTimers, Shaped, Watched
<1> QED
  BY <1>1, <1>2, <1>3, SameTransitive

\* The congestion control variables are the flavour's own.
LEMMA CwndSame ==
  ASSUME NEW c, Shaped(c), NEW n
  PROVE  /\ Same(c, setCwnd(c, n)) /\ Same(c, growCwnd(c)) /\ Same(c, initialize(c))
         /\ Same(c, recalculateSlowStartThreshold(c))
BY DEF setCwnd, growCwnd, initialize, recalculateSlowStartThreshold,
       Same, SameTimers, Shaped, Watched

\* An indication only changes what the application sees.
LEMMA IndicationSame ==
  ASSUME NEW c, Shaped(c), NEW n
  PROVE  /\ Same(c, sendEstabIndicationToApp(c)) /\ Same(c, indicateData(c, n))
         /\ Same(c, indicatePeerClosed(c)) /\ Same(c, indicateClosed(c))
         /\ Same(c, indicateFailure(c))
BY DEF sendEstabIndicationToApp, indicateData, indicatePeerClosed, indicateClosed,
       indicateFailure, Same, SameTimers, Shaped, Watched

\* dataSent() may start REXMIT.
LEMMA DataSentSame ==
  ASSUME NEW c, Shaped(c)
  PROVE  Same(c, dataSent(c))
<1>1. Same(c, cancelRexmit(c)) /\ Shaped(cancelRexmit(c))
  BY RexmitTimerSame, SameShaped
<1>2. Same(c, scheduleRexmit(cancelRexmit(c)))
  BY <1>1, RexmitTimerSame, SameTransitive
<1>3. Same(c, c)
  BY DEF Same, SameTimers
<1> QED
  BY <1>2, <1>3, RexmitTimerSame DEF dataSent

\* sendData() touches no handshake timer.
LEMMA SendDataSame ==
  ASSUME NEW c, Shaped(c)
  PROVE  Same(c, sendData(c))
<1> DEFINE a == [c EXCEPT !.snd_nxt = c.snd_max]
           n == IF bytesToSend(c) <= MSS THEN bytesToSend(c)
                ELSE (bytesToSend(c) \div MSS) * MSS
           b == sendSegments(a, n)
           d == [b EXCEPT !.snd_max = b.snd_nxt]
<1>1. Same(c, a) /\ Shaped(a)
  BY DEF Same, SameTimers, Shaped, Watched
<1>2. Same(c, b) /\ Shaped(b)
  BY <1>1, SendSegmentsSame, SameTransitive, SameShaped
<1>3. Same(b, d)
  BY <1>2 DEF Same, SameTimers, Shaped, Watched
<1>4. Same(c, d) /\ Shaped(d)
  BY <1>2, <1>3, SameTransitive, SameShaped
<1>5. Same(c, dataSent(d))
  BY <1>4, DataSentSame, SameTransitive
<1> QED
  BY <1>1, <1>5 DEF sendData

\* Nor does a retransmission.
LEMMA RetransmitSame ==
  ASSUME NEW c, Shaped(c)
  PROVE  Same(c, retransmitOneSegment(c)) /\ Same(c, retransmitData(c))
<1>1. ASSUME NEW cond, NEW what, NEW n, NEW seq
      PROVE  Same(c, sendSegments([Assert(c, cond, what) EXCEPT !.snd_nxt = seq], n))
  <2> DEFINE a == Assert(c, cond, what)
             b == [a EXCEPT !.snd_nxt = seq]
  <2>1. Same(c, a) /\ Shaped(a)
    BY AssertSame, SameShaped
  <2>2. Same(a, b)
    BY <2>1 DEF Same, SameTimers, Shaped, Watched
  <2>3. Same(c, b) /\ Shaped(b)
    BY <2>1, <2>2, SameTransitive, SameShaped
  <2> QED
    BY <2>3, SendSegmentsSame, SameTransitive
<1>2. Same(c, retransmitOneSegment(c))
  BY <1>1, ZenonT(30) DEF retransmitOneSegment
<1>3. Same(c, retransmitData(c))
  BY <1>1, AssertSame, SameShaped, SameTransitive, ZenonT(30) DEF retransmitData
<1> QED
  BY <1>2, <1>3

\* Nor does the flavour's handling of an ACK,
LEMMA ReceivedDataAckSame ==
  ASSUME NEW c, Shaped(c)
  PROVE  Same(c, receivedDataAck(c))
<1> DEFINE a == IF Alg = "DumbTCP" THEN c
                ELSE IF c.snd_una = c.snd_max THEN cancelRexmit(c)
                ELSE startRexmitTimer(cancelRexmit(c))
           b == IF ~ HasFastRetransmit THEN a
                ELSE IF Alg = "TCPReno" /\ c.dupacks >= 3 THEN setCwnd(a, a.ssthresh)
                ELSE growCwnd(a)
<1>1. Same(c, cancelRexmit(c)) /\ Shaped(cancelRexmit(c)) /\ Same(c, c)
  BY RexmitTimerSame, SameShaped DEF Same, SameTimers
<1>2. Same(c, startRexmitTimer(cancelRexmit(c)))
  BY <1>1, RexmitTimerSame, SameTransitive
<1>3. Same(c, a) /\ Shaped(a)
  BY <1>1, <1>2, SameShaped
<1>4. Same(c, setCwnd(a, a.ssthresh)) /\ Same(c, growCwnd(a))
  BY <1>3, CwndSame, SameTransitive
<1>5. Same(c, b) /\ Shaped(b)
  BY <1>3, <1>4, SameShaped
<1>6. Same(c, sendData(b))
  BY <1>5, SendDataSame, SameTransitive
<1> QED
  BY <1>6 DEF receivedDataAck

\* of a duplicate ACK,
LEMMA ReceivedDuplicateAckSame ==
  ASSUME NEW c, Shaped(c)
  PROVE  Same(c, receivedDuplicateAck(c))
<1> DEFINE r == retransmitOneSegment(c)
           a == recalculateSlowStartThreshold(r)
           b == setCwnd(a, IF Alg = "TCPReno" THEN a.ssthresh + 3 * MSS ELSE MSS)
           i == setCwnd(c, c.snd_cwnd + MSS)
<1>1. Same(c, r) /\ Shaped(r)
  BY RetransmitSame, SameShaped
<1>2. Same(c, a) /\ Shaped(a)
  BY <1>1, CwndSame, SameTransitive, SameShaped
<1>3. Same(c, b) /\ Shaped(b)
  BY <1>2, CwndSame, SameTransitive, SameShaped
<1>4. Same(c, cancelRexmit(b)) /\ Shaped(cancelRexmit(b))
  BY <1>3, RexmitTimerSame, SameTransitive, SameShaped
<1>5. Same(c, startRexmitTimer(cancelRexmit(b)))
  BY <1>4, RexmitTimerSame, SameTransitive
<1>6. Same(c, i) /\ Shaped(i)
  BY CwndSame, SameShaped
<1>7. Same(c, sendData(i)) /\ Same(c, c)
  BY <1>6, SendDataSame, SameTransitive DEF Same, SameTimers
<1> QED
  BY <1>5, <1>7 DEF receivedDuplicateAck

\* or of the end of the handshake: stateEntered() deletes the timers.
LEMMA EstablishedSame ==
  ASSUME NEW c, Shaped(c), NEW active
  PROVE  Same(c, established(c, active))
<1> DEFINE a == IF Alg = "DumbTCP" THEN c ELSE setCwnd(c, MSS)
<1>1. Same(c, a) /\ Shaped(a)
  BY CwndSame, SameShaped DEF Same, SameTimers
<1>2. Same(c, sendData(a)) /\ Shaped(sendData(a))
  BY <1>1, SendDataSame, SameTransitive, SameShaped
<1>3. Same(c, sendAck(sendData(a)))
  BY <1>2, SendSame, SameTransitive
<1> QED
  BY <1>1, <1>2, <1>3 DEF established

\* The REXMIT timer ends in ABORT or without an event.
LEMMA RexmitTimeoutTimers ==
  ASSUME NEW c, Shaped(c)
  PROVE  /\ SameTimers(c, processRexmitTimer(c))
         /\ processRexmitTimer(c).event \in {c.event, "ABORT"}
<1> DEFINE i == [c EXCEPT !.rexmitTimer = "idle", !.rexmit_count = @ + 1]
           a == scheduleRexmit(i)
           b == IF HasFastRetransmit THEN setCwnd(recalculateSlowStartThreshold(a), MSS) ELSE a
           f == [indicateFailure(c) EXCEPT !.rexmitTimer = "idle", !.event = "ABORT",
                                           !.rexmit_count = @ + 1]
<1>1. Same(c, i) /\ Shaped(i)
  BY DEF Same, SameTimers, Shaped, Watched
<1>2. Same(c, a) /\ Shaped(a)
  BY <1>1, RexmitTimerSame, SameTransitive, SameShaped
<1>3. Same(c, recalculateSlowStartThreshold(a)) /\ Shaped(recalculateSlowStartThreshold(a))
  BY <1>2, CwndSame, SameTransitive, SameShaped
<1>4. Same(c, setCwnd(recalculateSlowStartThreshold(a), MSS))
  BY <1>3, CwndSame, SameTransitive
<1>5. Same(c, b) /\ Shaped(b)
  BY <1>2, <1>4, SameShaped
<1>6. Same(c, retransmitData(b)) /\ Same(c, retransmitOneSegment(b))
  BY <1>5, RetransmitSame, SameTransitive
<1>7. SameTimers(c, f) /\ f.event = "ABORT"
  <2>1. Same(c, indicateFailure(c)) /\ Shaped(indicateFailure(c))
    BY IndicationSame, SameShaped
  <2>2. SameTimers(indicateFailure(c), f) /\ f.event = "ABORT"
    BY <2>1 DEF SameTimers, Shaped, Watched
  <2> QED
    BY <2>1, <2>2 DEF Same, SameTimers
<1>8. Same(c, Assert(c, FALSE, "REXMIT without connection"))
  BY AssertSame, ZenonT(30)
<1> QED
  BY <1>6, <1>7, <1>8, ZenonT(30) DEF processRexmitTimer, Same

(***************************************************************************)
(* Handlers that leave the handshake timers alone may still end in an      *)
(* event, but never in one that starts a handshake.                        *)
(***************************************************************************)
OpeningEvents == {"OPEN_ACTIVE", "SEND", "RCV_SYN"}

Calm(c, d) == SameTimers(c, d) /\ d.event \notin OpeningEvents

\* How calm handlers are put together.
LEMMA CalmSteps ==
  ASSUME NEW c, NEW d, NEW f
  PROVE  /\ Same(c, d) /\ c.event \notin OpeningEvents => Calm(c, d)
         /\ Calm(c, d) /\ Same(d, f) => Calm(c, f)
         /\ Same(c, d) /\ Calm(d, f) => Calm(c, f)
         /\ Calm(c, d) /\ Calm(d, f) => Calm(c, f)
         /\ Calm(c, d) /\ Shaped(c) => Shaped(d)
BY DEF Calm, Same, SameTimers, Shaped

\* Setting the event keeps everything else.
LEMMA EventCalm ==
  ASSUME NEW c, Shaped(c), NEW ev, ev \notin OpeningEvents
  PROVE  Calm(c, [c EXCEPT !.event = ev])
BY DEF Calm, SameTimers, Shaped, Watched

\* An ACK in the window touches the send variables only.
LEMMA AcceptAckSame ==
  ASSUME NEW c, Shaped(c), NEW s
  PROVE  Same(c, acceptAck(c, s))
<1> DEFINE acksFin == c.send_fin /\ s.ack = SeqAdd(c.snd_fin_seq, 1)
           a == [c EXCEPT !.snd_una = s.ack, !.snd_nxt = advanceNxt(@, s.ack)]
           a1 == [a EXCEPT !.fin_ack_rcvd = @ \/ acksFin]
           b == discardUpTo(a1, IF acksFin THEN SeqDiff(s.ack, 1) ELSE s.ack)
           d == [b EXCEPT !.snd_wnd = RcvWnd, !.snd_wl1 = s.seq, !.snd_wl2 = s.ack]
           updatesWindow == \/ seqLess(c.snd_wl1, s.seq)
                            \/ c.snd_wl1 = s.seq /\ seqLE(c.snd_wl2, s.ack)
           f == IF updatesWindow THEN d ELSE b
<1> HIDE DEF acksFin, updatesWindow
<1>1. Same(c, a) /\ Shaped(a)
  BY DEF Same, SameTimers, Shaped, Watched
<1>2. Same(c, a1) /\ Shaped(a1)
  <2> HIDE DEF a
  <2>1. Same(a, a1)
    BY <1>1 DEF Same, SameTimers, Shaped, Watched
  <2> QED
    BY <1>1, <2>1, SameTransitive, SameShaped
<1>3. Same(c, b) /\ Shaped(b)
  <2> HIDE DEF a1
  <2> QED
    BY <1>2, QueueSame, SameTransitive, SameShaped
<1>4. Same(c, d)
  <2> HIDE DEF b
  <2>1. Same(b, d)
    BY <1>3 DEF Same, SameTimers, Shaped, Watched
  <2> QED
    BY <1>3, <2>1, SameTransitive
<1>5. Same(c, f) /\ Shaped(f)
  BY <1>3, <1>4, SameShaped
<1>6. Same(c, receivedDataAck(f)) /\ Shaped(receivedDataAck(f))
  BY <1>5, ReceivedDataAckSame, SameTransitive, SameShaped
<1>7. Same(c, [receivedDataAck(f) EXCEPT !.dupacks = 0])
  <2> HIDE DEF f
  <2>1. Same(receivedDataAck(f), [receivedDataAck(f) EXCEPT !.dupacks = 0])
    BY <1>6 DEF Same, SameTimers, Shaped, Watched
  <2> QED
    BY <1>6, <2>1, SameTransitive
<1> QED
  BY <1>7 DEF acceptAck, acksFin, updatesWindow

\* processAckInEstabEtc() leaves the handshake timers alone.
LEMMA ProcessAckSame ==
  ASSUME NEW c, Shaped(c), NEW s
  PROVE  Same(c, processAckInEstabEtc(c, s))
<1> DEFINE n == Lesser(c.dupacks + 1, 4)
           a == [c EXCEPT !.dupacks = n]
           z == [c EXCEPT !.dupacks = 0]
           w == Assert(c, seqGreater(s.ack, c.snd_max), "processAckInEstabEtc")
           y == [w EXCEPT !.dupacks = 0]
<1>1. Same(c, a) /\ Shaped(a) /\ Same(c, z)
  BY DEF Same, SameTimers, Shaped, Watched
<1>2. Same(c, receivedDuplicateAck(a))
  BY <1>1, ReceivedDuplicateAckSame, SameTransitive
<1>3. Same(c, w) /\ Shaped(w)
  BY AssertSame, SameShaped
<1>4. Same(c, y) /\ Shaped(y)
  <2> HIDE DEF w
  <2>1. Same(w, y)
    BY <1>3 DEF Same, SameTimers, Shaped, Watched
  <2> QED
    BY <1>3, <2>1, SameTransitive, SameShaped
<1>5. Same(c, sendAck(y))
  BY <1>4, SendSame, SameTransitive
<1>6. Same(c, acceptAck(c, s))
  BY AcceptAckSame
<1> QED
  BY <1>1, <1>2, <1>5, <1>6 DEF processAckInEstabEtc

\* So does the report of the peer's FIN,
LEMMA AdvanceOverFinSame ==
  ASSUME NEW c, Shaped(c)
  PROVE  Same(c, advanceOverFin(c))
<1> DEFINE a == [c EXCEPT !.rcv_nxt = SeqAdd(@, 1)]
<1>1. Same(c, a) /\ Shaped(a)
  BY DEF Same, SameTimers, Shaped, Watched
<1>2. Same(c, indicatePeerClosed(a))
  BY <1>1, IndicationSame, SameTransitive
<1> QED
  BY <1>2 DEF advanceOverFin

\* the processing of the segment text
LEMMA TextSame ==
  ASSUME NEW c, Shaped(c), NEW s
  PROVE  Same(c, processText(c, s))
<1> DEFINE q == insertBytesFromSegment(c.rcvQueue, s.seq, s.len)
           a == [c EXCEPT !.rcvQueue = q, !.rcv_nxt = q.rcv_nxt]
           x == extractTo(a.rcvQueue, a.rcv_nxt)
           w == Assert(a, extractAssertions(a.rcvQueue, a.rcv_nxt)
                            /\ extractAssertions(x, a.rcv_nxt), "extractTo")
           v == [w EXCEPT !.rcvQueue = x]
           b == forwardData(a)
<1> HIDE DEF q, x
<1>1. Same(c, a) /\ Shaped(a)
  BY DEF Same, SameTimers, Shaped, Watched
<1> HIDE DEF a
<1>2. Same(c, w) /\ Shaped(w)
  BY <1>1, AssertSame, SameTransitive, SameShaped
<1>3. Same(c, v) /\ Shaped(v)
  <2> HIDE DEF w
  <2>1. Same(w, v)
    BY <1>2 DEF Same, SameTimers, Shaped, Watched
  <2> QED
    BY <1>2, <2>1, SameTransitive, SameShaped
<1>4. Same(c, b) /\ Shaped(b)
  <2>1. Same(c, indicateData(v, extractedOctets(a.rcvQueue, a.rcv_nxt)))
    BY <1>3, IndicationSame, SameTransitive
  <2> QED
    BY <2>1, SameShaped DEF forwardData, x
<1>5. Same(c, advanceOverFin(b)) /\ Same(c, sendAck(a)) /\ Same(c, c)
  BY SMTT(30), <1>1, <1>4, AdvanceOverFinSame, SendSame, SameTransitive DEF Same, SameTimers
<1> QED
  BY <1>4, <1>5 DEF processText, a, q

\* and the note of a FIN above sequence.
LEMMA NoteFinSame ==
  ASSUME NEW c, Shaped(c), NEW s
  PROVE  Same(c, noteFin(c, s))
<1>1. Same(c, [c EXCEPT !.fin_rcvd = TRUE, !.rcv_fin_seq = SeqAdd(s.seq, s.len)])
  BY DEF Same, SameTimers, Shaped, Watched
<1> QED
  BY <1>1, AdvanceOverFinSame DEF noteFin

\* A FIN may end in RCV_FIN or RCV_FIN_ACK.
LEMMA FinCalm ==
  ASSUME NEW c, Shaped(c), c.event \notin OpeningEvents, NEW s
  PROVE  Calm(c, processFin(c, s))
<1> DEFINE n == noteFin(c, s)
           a == [n EXCEPT !.event = "RCV_FIN"]
           b == indicateClosed(schedule2MSL(a))
           t == [a EXCEPT !.the2MSLTimer = "idle"]
<1>1. Same(c, n) /\ Shaped(n)
  BY NoteFinSame, SameShaped
<1> HIDE DEF n
<1>2. Calm(c, a) /\ Shaped(a)
  <2>1. Calm(n, a)
    BY <1>1, EventCalm DEF OpeningEvents
  <2> QED
    BY <1>1, <2>1, CalmSteps
<1> HIDE DEF a
<1>3. Calm(c, schedule2MSL(a)) /\ Shaped(schedule2MSL(a))
  BY <1>2, RexmitTimerSame, CalmSteps
<1>4. Calm(c, b) /\ Shaped(b)
  BY <1>3, IndicationSame, CalmSteps
<1> HIDE DEF b
<1>5. ASSUME NEW ev \in {"RCV_FIN_ACK", "RCV_FIN"}
      PROVE  Calm(c, [b EXCEPT !.event = ev])
  <2>1. Calm(b, [b EXCEPT !.event = ev])
    BY <1>4, EventCalm DEF OpeningEvents
  <2> QED
    BY <1>4, <2>1, CalmSteps
<1>6. Calm(c, t) /\ Shaped(t)
  <2>1. Same(a, t)
    BY <1>2 DEF Same, SameTimers, Shaped, Watched
  <2> QED
    BY <1>2, <2>1, CalmSteps
<1>7. Calm(c, schedule2MSL(t))
  BY <1>6, RexmitTimerSame, CalmSteps
<1>8. Calm(c, c)
  BY DEF Calm, SameTimers
<1> QED
  BY <1>2, <1>5, <1>7, <1>8 DEF processFin, b, a, n

\* A deferred CLOSE may replace the event by CLOSE.
LEMMA DeferredCloseCalm ==
  ASSUME NEW c, Shaped(c), c.event \notin OpeningEvents, NEW old
  PROVE  Calm(c, deferredClose(c, old))
<1>1. Calm(c, [c EXCEPT !.event = "CLOSE"]) /\ Calm(c, c)
  BY EventCalm DEF OpeningEvents, Calm, SameTimers
<1> QED
  BY <1>1 DEF deferredClose

\* Steps six to eight of processSegment1stThru8th() are calm.
LEMMA TextAndFinCalm ==
  ASSUME NEW c, Shaped(c), c.event \notin OpeningEvents, NEW s, NEW old
  PROVE  Calm(c, processTextAndFin(c, s, old))
<1> DEFINE t == processText(c, s)
           a == processFin(t, s)
           b == IF a.rcv_nxt # c.rcv_nxt THEN sendAck(a) ELSE a
<1>1. Same(c, t) /\ Shaped(t) /\ t.event \notin OpeningEvents
  BY TextSame, SameShaped DEF Same
<1>2. Calm(c, a) /\ Shaped(a)
  BY <1>1, FinCalm, CalmSteps
<1>3. Calm(c, sendAck(a))
  BY <1>2, SendSame, CalmSteps, SMTT(30)
<1>4. Calm(c, b) /\ Shaped(b) /\ b.event \notin OpeningEvents
  BY <1>2, <1>3, CalmSteps DEF Calm
<1>5. Calm(c, deferredClose(b, old))
  BY <1>4, DeferredCloseCalm, CalmSteps
<1> QED
  BY <1>5 DEF processTextAndFin

\* An ACK in the closing states may end in RCV_ACK.
LEMMA AckWhileClosingCalm ==
  ASSUME NEW c, Shaped(c), c.event \notin OpeningEvents
  PROVE  Calm(c, processAckWhileClosing(c))
<1> DEFINE d == indicateClosed(schedule2MSL(c))
           a == sendAck(c)
           t == [a EXCEPT !.the2MSLTimer = "idle"]
<1>1. Calm(c, [c EXCEPT !.event = "RCV_ACK"]) /\ Calm(c, c)
  BY EventCalm DEF OpeningEvents, Calm, SameTimers
<1>2. Same(c, schedule2MSL(c)) /\ Shaped(schedule2MSL(c))
  BY RexmitTimerSame, SameShaped
<1>3. Same(c, d) /\ Shaped(d)
  BY <1>2, IndicationSame, SameTransitive, SameShaped
<1>4. Calm(c, [d EXCEPT !.event = "RCV_ACK"])
  <2> HIDE DEF d
  <2>1. Calm(d, [d EXCEPT !.event = "RCV_ACK"])
    BY <1>3, EventCalm DEF OpeningEvents
  <2> QED
    BY <1>3, <2>1, CalmSteps
<1>5. Same(c, t) /\ Shaped(t)
  <2>1. Same(c, a) /\ Shaped(a)
    BY SendSame, SameShaped
  <2> HIDE DEF a
  <2>2. Same(a, t)
    BY <2>1 DEF Same, SameTimers, Shaped, Watched
  <2> QED
    BY <2>1, <2>2, SameTransitive, SameShaped
<1>6. Calm(c, schedule2MSL(t))
  BY <1>5, RexmitTimerSame, SameTransitive, CalmSteps
<1> QED
  BY <1>1, <1>4, <1>6 DEF processAckWhileClosing

\* processSegment1stThru8th() on a segment with ACK is calm, in SYN_RCVD too.
LEMMA AckSegmentCalm ==
  ASSUME NEW c, Shaped(c), c.event \notin OpeningEvents, NEW s
  PROVE  Calm(c, processAckSegment(c, s))
<1> DEFINE e == sendEstabIndicationToApp(established(c, FALSE))
           g == [e EXCEPT !.event = "RCV_ACK"]
           a == IF c.state = "SYN_RCVD" THEN g ELSE c
           b == IF c.state \in AckStates THEN processAckInEstabEtc(a, s) ELSE a
           k == indicateClosed(c)
           h == processAckWhileClosing(b)
<1>1. Same(c, e) /\ Shaped(e)
  <2>1. Same(c, established(c, FALSE)) /\ Shaped(established(c, FALSE))
    BY EstablishedSame, SameShaped, ZenonT(30)
  <2> QED
    BY <2>1, IndicationSame, SameTransitive, SameShaped, ZenonT(30)
<1>2. Calm(c, g)
  <2> HIDE DEF e
  <2>1. Calm(e, g)
    BY <1>1, EventCalm DEF OpeningEvents
  <2> QED
    BY <1>1, <2>1, CalmSteps
<1>3. Calm(c, c)
  BY DEF Calm, SameTimers
<1>4. Calm(c, a) /\ Shaped(a)
  BY <1>2, <1>3, CalmSteps
<1> HIDE DEF a
<1>5. Calm(c, processAckInEstabEtc(a, s))
  BY <1>4, ProcessAckSame, CalmSteps
<1>6. Calm(c, b) /\ Shaped(b) /\ b.event \notin OpeningEvents
  BY <1>4, <1>5, CalmSteps DEF Calm
<1> HIDE DEF b
<1>7. Calm(c, [b EXCEPT !.event = "IGNORE"])
  <2>1. Calm(b, [b EXCEPT !.event = "IGNORE"])
    BY <1>6, EventCalm DEF OpeningEvents
  <2> QED
    BY <1>6, <2>1, CalmSteps
<1>8. Calm(c, [k EXCEPT !.event = "RCV_ACK"])
  <2>1. Same(c, k) /\ Shaped(k)
    BY IndicationSame, SameShaped
  <2> HIDE DEF k
  <2>2. Calm(k, [k EXCEPT !.event = "RCV_ACK"])
    BY <2>1, EventCalm DEF OpeningEvents
  <2> QED
    BY <2>1, <2>2, CalmSteps
<1>9. Calm(c, h) /\ Shaped(h) /\ h.event \notin OpeningEvents
  <2>1. Calm(b, h)
    BY <1>6, AckWhileClosingCalm
  <2> QED
    BY <1>6, <2>1, CalmSteps DEF Calm
<1> HIDE DEF h
<1>10. Calm(c, processTextAndFin(h, s, c.snd_nxt))
  BY <1>9, TextAndFinCalm, CalmSteps
<1>11. Calm(c, sendRst(c, s.ack))
  BY SendSame, CalmSteps
<1> QED
  BY <1>7, <1>8, <1>10, <1>11 DEF processAckSegment, h, b, a, k

\* CLOSE is calm, whether the FIN goes out now or later.
LEMMA CloseCalm ==
  ASSUME NEW c, Shaped(c)
  PROVE  Calm(c, process_CLOSE(c))
<1> DEFINE a == [c EXCEPT !.closeCalled = TRUE, !.event = "CLOSE",
                   !.sock = IF @ = "CONNECTED" THEN "LOCALLY_CLOSED" ELSE "CLOSED"]
           b == [a EXCEPT !.send_fin = TRUE, !.snd_fin_seq = getBufferEndSeq(c)]
           n == [b EXCEPT !.snd_nxt = b.snd_max]
           f == sendFin(n)
<1>1. Calm(c, a) /\ Shaped(a)
  BY DEF Calm, OpeningEvents, SameTimers, Shaped, Watched
<1> HIDE DEF a
<1>2. Calm(c, b) /\ Shaped(b)
  <2>1. Same(a, b)
    BY <1>1 DEF Same, SameTimers, Shaped, Watched
  <2> QED
    BY <1>1, <2>1, CalmSteps
<1> HIDE DEF b
<1>3. Calm(c, n) /\ Shaped(n)
  <2>1. Same(b, n)
    BY <1>2 DEF Same, SameTimers, Shaped, Watched
  <2> QED
    BY <1>2, <2>1, CalmSteps
<1> HIDE DEF n
<1>4. Calm(c, f) /\ Shaped(f)
  BY <1>3, SendSame, CalmSteps
<1> HIDE DEF f
<1>5. Calm(c, advanceOverOwnFin(f))
  <2>1. Same(f, advanceOverOwnFin(f))
    BY <1>4 DEF advanceOverOwnFin, Same, SameTimers, Shaped, Watched
  <2> QED
    BY <1>4, <2>1, CalmSteps
<1>6. Calm(c, [b EXCEPT !.event = "IGNORE"])
  <2>1. Calm(b, [b EXCEPT !.event = "IGNORE"])
    BY <1>2, EventCalm DEF OpeningEvents
  <2> QED
    BY <1>2, <2>1, CalmSteps
<1>7. Calm(c, Assert(a, FALSE, "duplicate CLOSE or connection not open"))
  BY <1>1, AssertSame, CalmSteps, ZenonT(30)
<1> QED
  BY <1>1, <1>5, <1>6, <1>7, ZenonT(30) DEF process_CLOSE, sendFinNow, f, n, b, a

\* ABORT is calm.
LEMMA AbortCalm ==
  ASSUME NEW c, Shaped(c)
  PROVE  Calm(c, process_ABORT(c))
<1> DEFINE w == Assert(c, c.state \notin {"INIT", "CLOSED"}, "ABORT: connection not open")
           a == [w EXCEPT !.closeCalled = TRUE, !.event = "ABORT", !.sock = "CLOSED"]
<1>1. Same(c, w) /\ Shaped(w)
  BY AssertSame, SameShaped, ZenonT(30)
<1> HIDE DEF w
<1>2. Calm(w, a)
  BY <1>1 DEF Calm, OpeningEvents, SameTimers, Shaped, Watched
<1>3. Calm(c, a) /\ Shaped(a)
  BY <1>1, <1>2, CalmSteps
<1> HIDE DEF a
<1>4. Calm(c, sendRst(a, c.snd_nxt))
  BY <1>3, SendSame, CalmSteps
<1> QED
  BY <1>3, <1>4 DEF process_ABORT, a, w

\* A RST and an unexpected SYN are calm.
LEMMA ResetCalm ==
  ASSUME NEW c, Shaped(c)
  PROVE  Calm(c, processRst(c)) /\ Calm(c, processUnexpectedSyn(c))
<1> DEFINE a == [c EXCEPT !.event = "RCV_RST"]
           b == discardUpTo(a, c.end)
           f == indicateFailure(c)
<1>1. Calm(c, a) /\ Shaped(a)
  BY EventCalm, CalmSteps DEF OpeningEvents
<1> HIDE DEF a
<1>2. Calm(c, b) /\ Shaped(b)
  BY <1>1, QueueSame, CalmSteps
<1> HIDE DEF b
<1>3. Calm(c, indicateFailure(b)) /\ Calm(c, indicateFailure(a)) /\ Calm(c, indicateClosed(a))
  BY <1>1, <1>2, IndicationSame, CalmSteps
<1>4. Calm(c, processRst(c))
  BY <1>1, <1>2, <1>3 DEF processRst, a, b
<1>5. Calm(c, [f EXCEPT !.event = "RCV_UNEXP_SYN"])
  <2>1. Same(c, f) /\ Shaped(f)
    BY IndicationSame, SameShaped
  <2> HIDE DEF f
  <2>2. Calm(f, [f EXCEPT !.event = "RCV_UNEXP_SYN"])
    BY <2>1, EventCalm DEF OpeningEvents
  <2> QED
    BY <2>1, <2>2, CalmSteps
<1> QED
  BY <1>4, <1>5 DEF processUnexpectedSyn


\* So are segments to no connection, unacceptable ones, 2MSL and REXMIT.
LEMMA OtherCalm ==
  ASSUME NEW c, Shaped(c), c.event \notin OpeningEvents, NEW s
  PROVE  /\ Calm(c, segmentArrivalWhileClosed(c, s)) /\ Calm(c, processUnacceptable(c, s))
         /\ Calm(c, process_TIMEOUT_2MSL(c)) /\ Calm(c, processRexmitTimer(c))
<1> DEFINE t == [c EXCEPT !.the2MSLTimer = "idle", !.event = "TIMEOUT_2MSL"]
<1>1. Calm(c, c)
  BY DEF Calm, SameTimers
<1>2. Calm(c, segmentArrivalWhileClosed(c, s)) /\ Calm(c, processUnacceptable(c, s))
  BY <1>1, SendSame, CalmSteps DEF segmentArrivalWhileClosed, processUnacceptable
<1>3. Calm(c, t) /\ Shaped(t)
  BY DEF Calm, OpeningEvents, SameTimers, Shaped, Watched
<1>4. Calm(c, process_TIMEOUT_2MSL(c))
  <2> HIDE DEF t
  <2> DEFINE w == Assert(t, c.state = "TIME_WAIT", "2MSL timeout")
  <2>1. Same(t, w)
    BY <1>3, AssertSame, ZenonT(30)
  <2> HIDE DEF w
  <2>2. Calm(c, w)
    BY <1>3, <2>1, CalmSteps
  <2> QED
    BY <2>2, ZenonT(30) DEF process_TIMEOUT_2MSL, t, w
<1>5. Calm(c, processRexmitTimer(c))
  BY RexmitTimeoutTimers DEF Calm, OpeningEvents
<1> QED
  BY <1>2, <1>4, <1>5

(***************************************************************************)
(* The state transition.                                                   *)
(***************************************************************************)
TimersFit(c) ==
  /\ c.connEstabTimer = "scheduled" <=> c.state \in Handshaking
  /\ c.synRexmitTimer = "scheduled" <=> c.state \in Handshaking
  /\ c.connEstabTimer = "NULL" => c.state \in SynchronizedStates
  /\ c.synRexmitTimer = "NULL" => c.state \in SynchronizedStates

\* A connection between two handlers.
Fits(c) == Shaped(c) /\ c.state \in States /\ c.event = "IGNORE" /\ TimersFit(c)

\* A connection before performStateTransition(): if the transition leads into
\* the handshake, the handler has scheduled both timers.
Ready(c) ==
  LET next == nextState(c.state, c.event, c.active)
  IN /\ Shaped(c) /\ c.state \in States
     /\ next = c.state => TimersFit(c)
     /\ next # c.state /\ next \in Handshaking =>
          c.connEstabTimer = "scheduled" /\ c.synRexmitTimer = "scheduled"

\* The transitions of the nested switch, row by row: only an opening event leads
\* into the handshake, and no event leads back to INIT.
LEMMA Rows ==
  ASSUME NEW state \in DOMAIN Fsm, NEW event \in DOMAIN Fsm[state]
  PROVE  /\ Fsm[state][event] \in States \ {"INIT"}
         /\ Fsm[state][event] \in Handshaking => event \in OpeningEvents
<1> DEFINE row == Fsm[state]
<1>0. DOMAIN Fsm = {"INIT", "LISTEN", "SYN_RCVD", "SYN_SENT",
                   "ESTABLISHED", "CLOSE_WAIT", "LAST_ACK", "FIN_WAIT_1",
                   "FIN_WAIT_2", "CLOSING", "TIME_WAIT"}
  BY DEF Fsm
<1>1. CASE state = "INIT"
  <2>1. row = [OPEN_PASSIVE |-> "LISTEN", OPEN_ACTIVE |-> "SYN_SENT"]
    BY <1>1, Zenon DEF Fsm
  <2>2. event \in DOMAIN row
    OBVIOUS
  <2> HIDE DEF row
  <2>3. /\ row[event] \in States \ {"INIT"}
        /\ row[event] \in Handshaking => event \in OpeningEvents
    BY <2>1, <2>2 DEF States, Handshaking, OpeningEvents
  <2> QED
    BY <2>3 DEF row
<1>2. CASE state = "LISTEN"
  <2>1. row = [OPEN_ACTIVE |-> "SYN_SENT", SEND |-> "SYN_SENT",
               CLOSE |-> "CLOSED", ABORT |-> "CLOSED", RCV_SYN |-> "SYN_RCVD"]
    BY <1>2, Zenon DEF Fsm
  <2>2. event \in DOMAIN row
    OBVIOUS
  <2> HIDE DEF row
  <2>3. /\ row[event] \in States \ {"INIT"}
        /\ row[event] \in Handshaking => event \in OpeningEvents
    BY <2>1, <2>2 DEF States, Handshaking, OpeningEvents
  <2> QED
    BY <2>3 DEF row
<1>3. CASE state = "SYN_RCVD"
  <2>1. row = [CLOSE |-> "FIN_WAIT_1", ABORT |-> "CLOSED",
               RCV_ACK |-> "ESTABLISHED", RCV_FIN |-> "CLOSE_WAIT",
               RCV_UNEXP_SYN |-> "CLOSED", TIMEOUT_CONN_ESTAB |-> "LISTEN",
               RCV_RST |-> "LISTEN"]
    BY <1>3, Zenon DEF Fsm
  <2>2. event \in DOMAIN row
    OBVIOUS
  <2> HIDE DEF row
  <2>3. /\ row[event] \in States \ {"INIT"}
        /\ row[event] \in Handshaking => event \in OpeningEvents
    BY <2>1, <2>2 DEF States, Handshaking, OpeningEvents
  <2> QED
    BY <2>3 DEF row
<1>4. CASE state = "SYN_SENT"
  <2>1. row = [CLOSE |-> "CLOSED", ABORT |-> "CLOSED",
               TIMEOUT_CONN_ESTAB |-> "CLOSED", RCV_RST |-> "CLOSED",
               RCV_SYN_ACK |-> "ESTABLISHED", RCV_SYN |-> "SYN_RCVD"]
    BY <1>4, Zenon DEF Fsm
  <2>2. event \in DOMAIN row
    OBVIOUS
  <2> HIDE DEF row
  <2>3. /\ row[event] \in States \ {"INIT"}
        /\ row[event] \in Handshaking => event \in OpeningEvents
    BY <2>1, <2>2 DEF States, Handshaking, OpeningEvents
  <2> QED
    BY <2>3 DEF row
<1>5. CASE state = "ESTABLISHED"
  <2>1. row = [CLOSE |-> "FIN_WAIT_1", RCV_FIN |-> "CLOSE_WAIT"]
    BY <1>5, Zenon DEF Fsm
  <2>2. event \in DOMAIN row
    OBVIOUS
  <2> HIDE DEF row
  <2>3. /\ row[event] \in States \ {"INIT"}
        /\ row[event] \in Handshaking => event \in OpeningEvents
    BY <2>1, <2>2 DEF States, Handshaking, OpeningEvents
  <2> QED
    BY <2>3 DEF row
<1>6. CASE state = "CLOSE_WAIT"
  <2>1. row = [CLOSE |-> "LAST_ACK"]
    BY <1>6, Zenon DEF Fsm
  <2>2. event \in DOMAIN row
    OBVIOUS
  <2> HIDE DEF row
  <2>3. /\ row[event] \in States \ {"INIT"}
        /\ row[event] \in Handshaking => event \in OpeningEvents
    BY <2>1, <2>2 DEF States, Handshaking, OpeningEvents
  <2> QED
    BY <2>3 DEF row
<1>7. CASE state = "LAST_ACK"
  <2>1. row = [RCV_ACK |-> "CLOSED"]
    BY <1>7, Zenon DEF Fsm
  <2>2. event \in DOMAIN row
    OBVIOUS
  <2> HIDE DEF row
  <2>3. /\ row[event] \in States \ {"INIT"}
        /\ row[event] \in Handshaking => event \in OpeningEvents
    BY <2>1, <2>2 DEF States, Handshaking, OpeningEvents
  <2> QED
    BY <2>3 DEF row
<1>8. CASE state = "FIN_WAIT_1"
  <2>1. row = [RCV_FIN |-> "CLOSING", RCV_ACK |-> "FIN_WAIT_2",
               RCV_FIN_ACK |-> "TIME_WAIT"]
    BY <1>8, Zenon DEF Fsm
  <2>2. event \in DOMAIN row
    OBVIOUS
  <2> HIDE DEF row
  <2>3. /\ row[event] \in States \ {"INIT"}
        /\ row[event] \in Handshaking => event \in OpeningEvents
    BY <2>1, <2>2 DEF States, Handshaking, OpeningEvents
  <2> QED
    BY <2>3 DEF row
<1>9. CASE state = "FIN_WAIT_2"
  <2>1. row = [RCV_FIN |-> "TIME_WAIT", TIMEOUT_FIN_WAIT_2 |-> "CLOSED"]
    BY <1>9, Zenon DEF Fsm
  <2>2. event \in DOMAIN row
    OBVIOUS
  <2> HIDE DEF row
  <2>3. /\ row[event] \in States \ {"INIT"}
        /\ row[event] \in Handshaking => event \in OpeningEvents
    BY <2>1, <2>2 DEF States, Handshaking, OpeningEvents
  <2> QED
    BY <2>3 DEF row
<1>10. CASE state = "CLOSING"
  <2>1. row = [RCV_ACK |-> "TIME_WAIT"]
    BY <1>10, Zenon DEF Fsm
  <2>2. event \in DOMAIN row
    OBVIOUS
  <2> HIDE DEF row
  <2>3. /\ row[event] \in States \ {"INIT"}
        /\ row[event] \in Handshaking => event \in OpeningEvents
    BY <2>1, <2>2 DEF States, Handshaking, OpeningEvents
  <2> QED
    BY <2>3 DEF row
<1>11. CASE state = "TIME_WAIT"
  <2>1. row = [TIMEOUT_2MSL |-> "CLOSED"]
    BY <1>11, Zenon DEF Fsm
  <2>2. event \in DOMAIN row
    OBVIOUS
  <2> HIDE DEF row
  <2>3. /\ row[event] \in States \ {"INIT"}
        /\ row[event] \in Handshaking => event \in OpeningEvents
    BY <2>1, <2>2 DEF States, Handshaking, OpeningEvents
  <2> QED
    BY <2>3 DEF row
<1> QED
  BY <1>0, <1>1, <1>2, <1>3, <1>4, <1>5, <1>6, <1>7, <1>8, <1>9, <1>10, <1>11, SMTT(30)

\* performStateTransition(): only an opening event leads into the handshake, and
\* no event leads back to INIT.
LEMMA Transitions ==
  ASSUME NEW state \in States, NEW event, NEW active,
         nextState(state, event, active) # state
  PROVE  /\ nextState(state, event, active) \in States \ {"INIT"}
         /\ nextState(state, event, active) \in Handshaking => event \in OpeningEvents
<1>1. \/ nextState(state, event, active) = "CLOSED"
      \/ /\ state \in DOMAIN Fsm /\ event \in DOMAIN Fsm[state]
         /\ nextState(state, event, active) = Fsm[state][event]
  BY ZenonT(30) DEF nextState
<1> QED
  BY <1>1, Rows DEF States, Handshaking

\* Where the opening events lead.
LEMMA OpeningTransitions ==
  ASSUME NEW active
  PROVE  /\ nextState("INIT", "OPEN_PASSIVE", active) = "LISTEN"
         /\ nextState("INIT", "OPEN_ACTIVE", active) = "SYN_SENT"
         /\ nextState("LISTEN", "SEND", active) = "SYN_SENT"
         /\ nextState("LISTEN", "RCV_SYN", active) = "SYN_RCVD"
         /\ nextState("SYN_SENT", "RCV_SYN", active) = "SYN_RCVD"
         /\ \A state \in States \ {"LISTEN"} : nextState(state, "SEND", active) = state
<1> USE DEF nextState, Fsm, SynchronizedStates
<1>1. nextState("INIT", "OPEN_PASSIVE", active) = "LISTEN"
  BY ZenonT(60)
<1>2. nextState("INIT", "OPEN_ACTIVE", active) = "SYN_SENT"
  BY ZenonT(60)
<1>3. nextState("LISTEN", "SEND", active) = "SYN_SENT"
  BY ZenonT(60)
<1>4. nextState("LISTEN", "RCV_SYN", active) = "SYN_RCVD"
  BY ZenonT(60)
<1>5. nextState("SYN_SENT", "RCV_SYN", active) = "SYN_RCVD"
  BY ZenonT(60)
<1>6. ASSUME NEW state \in States \ {"LISTEN"}
      PROVE  nextState(state, "SEND", active) = state
  <2>1. nextState("INIT", "SEND", active) = "INIT"
    BY ZenonT(60)
  <2>2. nextState("CLOSED", "SEND", active) = "CLOSED"
    BY ZenonT(60)
  <2>3. nextState("SYN_SENT", "SEND", active) = "SYN_SENT"
    BY ZenonT(60)
  <2>4. nextState("SYN_RCVD", "SEND", active) = "SYN_RCVD"
    BY ZenonT(60)
  <2>5. nextState("ESTABLISHED", "SEND", active) = "ESTABLISHED"
    BY ZenonT(60)
  <2>6. nextState("CLOSE_WAIT", "SEND", active) = "CLOSE_WAIT"
    BY ZenonT(60)
  <2>7. nextState("LAST_ACK", "SEND", active) = "LAST_ACK"
    BY ZenonT(60)
  <2>8. nextState("FIN_WAIT_1", "SEND", active) = "FIN_WAIT_1"
    BY ZenonT(60)
  <2>9. nextState("FIN_WAIT_2", "SEND", active) = "FIN_WAIT_2"
    BY ZenonT(60)
  <2>10. nextState("CLOSING", "SEND", active) = "CLOSING"
    BY ZenonT(60)
  <2>11. nextState("TIME_WAIT", "SEND", active) = "TIME_WAIT"
    BY ZenonT(60)
  <2> HIDE DEF nextState, Fsm, SynchronizedStates
  <2> QED
    BY <2>1, <2>2, <2>3, <2>4, <2>5, <2>6, <2>7, <2>8, <2>9, <2>10, <2>11 DEF States
<1> QED
  BY <1>1, <1>2, <1>3, <1>4, <1>5, <1>6, ZenonT(30)

\* What ends the handshake: ABORT closes, CONN-ESTAB closes or goes back to LISTEN.
LEMMA EndingTransitions ==
  ASSUME NEW active
  PROVE  /\ nextState("SYN_SENT", "ABORT", active) = "CLOSED"
         /\ nextState("SYN_RCVD", "ABORT", active) = "CLOSED"
         /\ nextState("SYN_SENT", "TIMEOUT_CONN_ESTAB", active) = "CLOSED"
         /\ nextState("SYN_RCVD", "TIMEOUT_CONN_ESTAB", active) \in {"LISTEN", "CLOSED"}
<1> USE DEF nextState, Fsm, SynchronizedStates
<1>1. nextState("SYN_SENT", "ABORT", active) = "CLOSED"
  BY ZenonT(60)
<1>2. nextState("SYN_RCVD", "ABORT", active) = "CLOSED"
  BY ZenonT(60)
<1>3. nextState("SYN_SENT", "TIMEOUT_CONN_ESTAB", active) = "CLOSED"
  BY ZenonT(60)
<1>4. nextState("SYN_RCVD", "TIMEOUT_CONN_ESTAB", active) \in {"LISTEN", "CLOSED"}
  BY ZenonT(60)
<1> QED
  BY <1>1, <1>2, <1>3, <1>4, ZenonT(30)

\* A calm handler leaves nothing to do for the handshake timers.
LEMMA CalmIsReady ==
  ASSUME NEW c, NEW d, Fits(c), Calm(c, d)
  PROVE  Ready(d)
<1>1. Shaped(d) /\ d.state \in States /\ TimersFit(d)
  BY CalmSteps DEF Fits, Calm, SameTimers, TimersFit
<1>2. nextState(d.state, d.event, d.active) # d.state
        => nextState(d.state, d.event, d.active) \notin Handshaking
  BY <1>1, Transitions, ZenonT(30) DEF Calm
<1> QED
  BY <1>1, <1>2 DEF Ready

\* A new connection has no timer pending.
LEMMA NewConnIdle ==
  /\ Shaped(NewConn) /\ NewConn.state = "INIT" /\ NewConn.event = "IGNORE"
  /\ NewConn.connEstabTimer = "idle" /\ NewConn.synRexmitTimer = "idle"
BY SMTT(30) DEF NewConn, Shaped, Watched

\* performStateTransition() and stateEntered(): the timers are cancelled or
\* deleted when the handshake is left.
LEMMA TransitionFits ==
  ASSUME NEW c, Ready(c)
  PROVE  Fits(performStateTransition(c))
<1> DEFINE next == nextState(c.state, c.event, c.active)
           a == [c EXCEPT !.event = "IGNORE"]
           b == [a EXCEPT !.state = next]
<1> HIDE DEF next
<1>1. Shaped(c) /\ c.state \in States
  BY DEF Ready
<1>2. CASE next = c.state
  <2>1. Fits(a)
    BY <1>1, <1>2 DEF Ready, next, Fits, TimersFit, Shaped, Watched
  <2> QED
    BY <1>2, <2>1 DEF performStateTransition, next
<1>3. CASE next # c.state
  <2>1. /\ Shaped(b) /\ b.state = next /\ b.event = "IGNORE"
        /\ b.connEstabTimer = c.connEstabTimer /\ b.synRexmitTimer = c.synRexmitTimer
    BY <1>1 DEF Shaped, Watched
  <2>2. next \in States \ {"INIT"}
    BY <1>1, <1>3, Transitions DEF next
  <2>3. next \in Handshaking => c.connEstabTimer = "scheduled" /\ c.synRexmitTimer = "scheduled"
    BY <1>3 DEF Ready, next
  <2> HIDE DEF b
  <2>4. Fits(stateEntered(b))
    <3> DEFINE w == Assert(b, b.connEstabTimer # "NULL" /\ b.synRexmitTimer # "NULL",
                           "stateEntered")
    <3>1. CASE next = "CLOSED"
      <4>1. Fits(removeConnection(b))
        BY NewConnIdle, SMTT(30)
           DEF removeConnection, Fits, TimersFit, Shaped, Watched, States, Handshaking
      <4> QED
        BY <2>1, <3>1, <4>1 DEF stateEntered
    <3>2. CASE next \in {"LISTEN", "ESTABLISHED"}
      <4>1. Same(b, w) /\ Shaped(w)
        BY <2>1, AssertSame, SameShaped
      <4>2. w.state = next /\ w.event = "IGNORE"
        BY <2>1, <4>1 DEF Same, SameTimers
      <4> HIDE DEF w
      <4>3. CASE next = "LISTEN"
        <5>1. Fits([w EXCEPT !.connEstabTimer = "idle", !.synRexmitTimer = "idle"])
          BY <2>2, <4>1, <4>2, <4>3 DEF Fits, TimersFit, Shaped, Watched, Handshaking
        <5> QED
          BY <2>1, <4>3, <5>1 DEF stateEntered, w
      <4>4. CASE next = "ESTABLISHED"
        <5>1. Fits([w EXCEPT !.connEstabTimer = "NULL", !.synRexmitTimer = "NULL"])
          BY <2>2, <4>1, <4>2, <4>4
             DEF Fits, TimersFit, Shaped, Watched, Handshaking, SynchronizedStates
        <5> QED
          BY <2>1, <4>4, <5>1 DEF stateEntered, w
      <4> QED
        BY <3>2, <4>3, <4>4
    <3>3. CASE next \in Handshaking
      BY <2>1, <2>2, <2>3, <3>3 DEF stateEntered, Fits, TimersFit, Handshaking
    <3>4. CASE next \in SynchronizedStates \ {"ESTABLISHED"}
      <4> DEFINE d == [b EXCEPT !.connEstabTimer = cancelIfExists(@),
                                !.synRexmitTimer = cancelIfExists(@)]
      <4>1. stateEntered(b) = d
        BY <2>1, <3>4 DEF stateEntered, SynchronizedStates
      <4>2. /\ Shaped(d) /\ d.state = next /\ d.event = "IGNORE"
            /\ d.connEstabTimer # "scheduled" /\ d.synRexmitTimer # "scheduled"
        BY <2>1 DEF Shaped, Watched, cancelIfExists
      <4> HIDE DEF d
      <4>3. Fits(d)
        BY <2>2, <3>4, <4>2 DEF Fits, TimersFit, Handshaking, SynchronizedStates
      <4> QED
        BY <4>1, <4>3
    <3> QED
      BY <2>2, <3>1, <3>2, <3>3, <3>4 DEF States, SynchronizedStates, Handshaking
  <2> QED
    BY <1>3, <2>4 DEF performStateTransition, next, b
<1> QED
  BY <1>2, <1>3

(***************************************************************************)
(* The handlers that start the handshake or belong to it.                  *)
(***************************************************************************)
\* What scheduling one of the two timers changes.
LEMMA ScheduleHandshake ==
  ASSUME NEW c, Shaped(c)
  PROVE  /\ DOMAIN startSynRexmitTimer(c) = DOMAIN c
         /\ startSynRexmitTimer(c).state = c.state /\ startSynRexmitTimer(c).event = c.event
         /\ startSynRexmitTimer(c).connEstabTimer = c.connEstabTimer
         /\ startSynRexmitTimer(c).synRexmitTimer = "scheduled"
         /\ DOMAIN scheduleConnEstab(c) = DOMAIN c
         /\ scheduleConnEstab(c).state = c.state /\ scheduleConnEstab(c).event = c.event
         /\ scheduleConnEstab(c).synRexmitTimer = c.synRexmitTimer
         /\ scheduleConnEstab(c).connEstabTimer = "scheduled"
<1> DEFINE r == Assert(c, c.synRexmitTimer # "NULL", "SYN-REXMIT deleted")
           t == Assert(c, c.connEstabTimer = "idle", "CONN-ESTAB scheduled twice")
<1>1. Same(c, r) /\ Same(c, t) /\ Shaped(r) /\ Shaped(t)
  BY AssertSame, SameShaped, ZenonT(30)
<1> HIDE DEF r, t
<1>2. LET x == [r EXCEPT !.syn_rexmit_count = 0, !.synRexmitTimer = "scheduled"]
      IN /\ DOMAIN x = DOMAIN c /\ x.state = c.state /\ x.event = c.event
         /\ x.connEstabTimer = c.connEstabTimer /\ x.synRexmitTimer = "scheduled"
  BY <1>1 DEF Same, SameTimers, Shaped, Watched
<1>3. LET x == [t EXCEPT !.connEstabTimer = "scheduled"]
      IN /\ DOMAIN x = DOMAIN c /\ x.state = c.state /\ x.event = c.event
         /\ x.synRexmitTimer = c.synRexmitTimer /\ x.connEstabTimer = "scheduled"
  BY <1>1 DEF Same, SameTimers, Shaped, Watched
<1> QED
  BY <1>2, <1>3, ZenonT(30) DEF startSynRexmitTimer, scheduleConnEstab, r, t

\* Both timers are pending, and nothing else that matters has changed.
Opened(c, d) ==
  /\ DOMAIN d = DOMAIN c /\ d.state = c.state /\ d.event = c.event
  /\ d.connEstabTimer = "scheduled" /\ d.synRexmitTimer = "scheduled"

\* An active open schedules both timers.
LEMMA StartActiveOpen ==
  ASSUME NEW c, Shaped(c), NEW iss
  PROVE  Opened(c, startActiveOpen(c, iss))
<1> DEFINE a == [c EXCEPT !.active = TRUE]
           b == selectInitialSeqNum(a, iss)
           d == sendSyn(b)
           f == startSynRexmitTimer(d)
<1>1. DOMAIN a = DOMAIN c /\ a.state = c.state /\ a.event = c.event /\ Shaped(a)
  BY DEF Shaped, Watched
<1> HIDE DEF a
<1>2. Same(a, b) /\ Shaped(b)
  BY <1>1, QueueSame, SameShaped
<1> HIDE DEF b
<1>3. Same(b, d) /\ Shaped(d)
  BY <1>2, SendSynSame, SameShaped
<1> HIDE DEF d
<1>4. /\ DOMAIN f = DOMAIN d /\ f.state = d.state /\ f.event = d.event
      /\ f.synRexmitTimer = "scheduled"
  BY <1>3, ScheduleHandshake
<1>5. Shaped(f)
  BY <1>3, <1>4, SMTT(30) DEF Shaped
<1> HIDE DEF f
<1>6. Opened(f, scheduleConnEstab(f))
  BY <1>4, <1>5, ScheduleHandshake DEF Opened
<1>7. Opened(c, scheduleConnEstab(f))
  BY <1>1, <1>2, <1>3, <1>4, <1>6 DEF Opened, Same, SameTimers
<1> QED
  BY <1>7 DEF startActiveOpen, f, d, b, a

\* A handler that opens may end in any event.
LEMMA OpenedIsReady ==
  ASSUME NEW c, Shaped(c), c.state \in States,
         c.connEstabTimer = "scheduled", c.synRexmitTimer = "scheduled",
         nextState(c.state, c.event, c.active) # c.state
  PROVE  Ready(c)
BY DEF Ready

\* OPEN_ACTIVE enters SYN_SENT with both timers pending.
LEMMA OpenActiveReady ==
  ASSUME NEW c, Fits(c), c.state = "INIT", NEW iss
  PROVE  Ready(process_OPEN_ACTIVE(c, iss))
<1> DEFINE i == initialize(c)
           a == [i EXCEPT !.remote = TRUE]
           b == startActiveOpen(a, iss)
           d == [b EXCEPT !.sock = "CONNECTING", !.event = "OPEN_ACTIVE"]
<1>1. Same(c, i) /\ Shaped(i)
  BY CwndSame, SameShaped DEF Fits
<1> HIDE DEF i
<1>2. Shaped(a) /\ a.state = "INIT"
  BY <1>1 DEF Same, SameTimers, Shaped, Watched
<1> HIDE DEF a
<1>3. Opened(a, b)
  BY <1>2, StartActiveOpen
<1>4. Shaped(b) /\ b.state = "INIT"
  BY <1>2, <1>3 DEF Opened, Shaped
<1> HIDE DEF b
<1>5. /\ Shaped(d) /\ d.state = "INIT" /\ d.event = "OPEN_ACTIVE"
      /\ d.connEstabTimer = "scheduled" /\ d.synRexmitTimer = "scheduled"
  BY <1>3, <1>4 DEF Opened, Shaped, Watched
<1> HIDE DEF d
<1>6. nextState(d.state, d.event, d.active) = "SYN_SENT"
  BY <1>5, OpeningTransitions
<1>7. Ready(d)
  BY <1>5, <1>6, OpenedIsReady DEF States
<1> QED
  BY <1>7 DEF process_OPEN_ACTIVE, d, b, a, i

\* OPEN_PASSIVE enters LISTEN with none.
LEMMA OpenPassiveReady ==
  ASSUME NEW c, Fits(c), c.state = "INIT"
  PROVE  Ready(process_OPEN_PASSIVE(c))
<1> DEFINE i == initialize(c)
           d == [i EXCEPT !.active = FALSE, !.sock = "LISTENING", !.event = "OPEN_PASSIVE"]
<1>1. Same(c, i) /\ Shaped(i)
  BY CwndSame, SameShaped DEF Fits
<1> HIDE DEF i
<1>2. Shaped(d) /\ d.state = "INIT" /\ d.event = "OPEN_PASSIVE"
  BY <1>1 DEF Same, SameTimers, Shaped, Watched
<1> HIDE DEF d
<1>3. nextState(d.state, d.event, d.active) = "LISTEN"
  BY <1>2, OpeningTransitions
<1>4. Ready(d)
  BY <1>2, <1>3 DEF Ready, States, Handshaking
<1> QED
  BY <1>4 DEF process_OPEN_PASSIVE, d, i

\* SEND opens a connection in LISTEN; in every other state it stays.
LEMMA SendReady ==
  ASSUME NEW c, Fits(c), NEW n, NEW iss
  PROVE  Ready(process_SEND(c, n, iss))
<1> DEFINE a == [c EXCEPT !.event = "SEND"]
           o == startActiveOpen(a, iss)
           q == enqueueAppData(a, n)
           d == process_SEND(c, n, iss)
<1>1. SameTimers(c, a) /\ a.event = "SEND" /\ Shaped(a) /\ Shaped(c)
  BY DEF Fits, SameTimers, Shaped, Watched
<1>2. CASE c.state = "LISTEN"
  <2>1. d = enqueueAppData(o, n)
    BY <1>2 DEF process_SEND
  <2> HIDE DEF a, d
  <2>2. Opened(a, o)
    BY <1>1, StartActiveOpen
  <2>3. Shaped(o)
    BY <1>1, <2>2 DEF Opened, Shaped
  <2> HIDE DEF o
  <2>4. Same(o, d) /\ Shaped(d)
    BY <2>1, <2>3, QueueSame, SameShaped
  <2>5. /\ d.state = "LISTEN" /\ d.event = "SEND"
        /\ d.connEstabTimer = "scheduled" /\ d.synRexmitTimer = "scheduled"
    BY <1>1, <1>2, <2>2, <2>4 DEF Opened, Same, SameTimers
  <2>6. nextState(d.state, d.event, d.active) = "SYN_SENT"
    BY <2>5, OpeningTransitions
  <2> QED
    BY <2>4, <2>5, <2>6, OpenedIsReady DEF States, d
<1>3. CASE c.state # "LISTEN"
  <2> HIDE DEF a
  <2>1. Same(a, q) /\ Shaped(q)
    BY <1>1, QueueSame, SameShaped
  <2>2. Same(a, sendData(q))
    BY <2>1, SendDataSame, SameTransitive
  <2>3. Same(a, Assert(a, FALSE, "SEND: connection not open or closing"))
    BY <1>1, AssertSame, ZenonT(30)
  <2>4. Same(a, d)
    BY <1>3, <2>1, <2>2, <2>3, ZenonT(30) DEF process_SEND, a
  <2> HIDE DEF d
  <2>5. Shaped(d) /\ d.event = "SEND" /\ d.state = c.state /\ TimersFit(d)
    BY <1>1, <2>4, SameShaped DEF Same, SameTimers, Fits, TimersFit
  <2>6. c.state \in States
    BY DEF Fits
  <2>7. nextState(d.state, d.event, d.active) = d.state
    BY <1>3, <2>5, <2>6, OpeningTransitions
  <2> QED
    BY <2>5, <2>6, <2>7 DEF Ready, d
<1> QED
  BY <1>2, <1>3

\* A SYN in LISTEN enters SYN_RCVD with both timers pending.
LEMMA InListenReady ==
  ASSUME NEW c, Fits(c), c.state = "LISTEN", NEW s, NEW iss
  PROVE  Ready(processSegmentInListen(c, s, iss))
<1> DEFINE a == [c EXCEPT !.remote = TRUE, !.rcv_nxt = SeqAdd(s.seq, 1),
                          !.rcvQueue = rcvInit(@, SeqAdd(s.seq, 1))]
           i == selectInitialSeqNum(a, iss)
           b == [i EXCEPT !.snd_wnd = RcvWnd, !.snd_wl1 = s.seq, !.snd_wl2 = iss,
                          !.event = "RCV_SYN"]
           k == sendSynAck(b)
           d == startSynRexmitTimer(k)
           f == IF d.connEstabTimer = "scheduled" THEN d ELSE scheduleConnEstab(d)
<1>0. Shaped(c) /\ c.event = "IGNORE"
  BY DEF Fits
<1>1. Same(c, a) /\ Shaped(a)
  BY <1>0 DEF Same, SameTimers, Shaped, Watched
<1> HIDE DEF a
<1>2. Same(a, i) /\ Shaped(i)
  BY <1>1, QueueSame, SameShaped
<1>3. i.state = "LISTEN"
  BY <1>1, <1>2 DEF Same, SameTimers
<1> HIDE DEF i
<1>4. Shaped(b) /\ b.state = "LISTEN" /\ b.event = "RCV_SYN"
  BY <1>2, <1>3 DEF Shaped, Watched
<1> HIDE DEF b
<1>5. Same(b, k) /\ Shaped(k)
  BY <1>4, SendSynSame, SameShaped
<1>6. k.state = "LISTEN" /\ k.event = "RCV_SYN"
  BY <1>4, <1>5 DEF Same, SameTimers
<1> HIDE DEF k
<1>7. /\ Shaped(d) /\ d.state = "LISTEN" /\ d.event = "RCV_SYN"
      /\ d.synRexmitTimer = "scheduled"
  BY <1>5, <1>6, ScheduleHandshake DEF Shaped
<1> HIDE DEF d
<1>8. /\ Shaped(scheduleConnEstab(d)) /\ scheduleConnEstab(d).state = "LISTEN"
      /\ scheduleConnEstab(d).event = "RCV_SYN"
      /\ scheduleConnEstab(d).synRexmitTimer = "scheduled"
      /\ scheduleConnEstab(d).connEstabTimer = "scheduled"
  BY <1>7, ScheduleHandshake DEF Shaped
<1>9. /\ Shaped(f) /\ f.state = "LISTEN" /\ f.event = "RCV_SYN"
      /\ f.synRexmitTimer = "scheduled" /\ f.connEstabTimer = "scheduled"
  BY <1>7, <1>8
<1> HIDE DEF f
<1>10. nextState(f.state, f.event, f.active) = "SYN_RCVD"
  BY <1>9, OpeningTransitions
<1>11. Ready(f)
  BY <1>9, <1>10, OpenedIsReady DEF States
<1>12. Calm(c, c) /\ Calm(c, sendRst(c, s.ack))
  <2>1. c.event \notin OpeningEvents
    BY <1>0 DEF OpeningEvents
  <2>2. Same(c, c)
    BY DEF Same, SameTimers
  <2> QED
    BY <1>0, <2>1, <2>2, SendSame, CalmSteps
<1>13. Ready(c) /\ Ready(sendRst(c, s.ack))
  BY <1>12, CalmIsReady
<1> QED
  BY <1>11, <1>13 DEF processSegmentInListen, f, d, k, b, i, a

\* A SYN in SYN_SENT keeps CONN-ESTAB and restarts SYN-REXMIT; a SYN+ACK establishes.
LEMMA InSynSentReady ==
  ASSUME NEW c, Fits(c), c.state = "SYN_SENT", NEW s
  PROVE  Ready(processSegmentInSynSent(c, s))
<1> DEFINE a == [c EXCEPT !.rcv_nxt = SeqAdd(s.seq, 1),
                          !.rcvQueue = rcvInit(@, SeqAdd(s.seq, 1))]
           u == [a EXCEPT !.snd_una = s.ack]
           v == discardUpTo(u, s.ack)
           b == [v EXCEPT !.snd_wnd = RcvWnd, !.snd_wl1 = s.seq, !.snd_wl2 = s.ack]
           d == IF "ACK" \in s.flags THEN b ELSE a
           e == sendEstabIndicationToApp(established(d, TRUE))
           k == sendSynAck(d)
           r == startSynRexmitTimer(k)
           o == [r EXCEPT !.event = "RCV_SYN"]
           x == indicateFailure(c)
<1>0. Shaped(c) /\ c.event = "IGNORE" /\ c.event \notin OpeningEvents
  BY DEF Fits, OpeningEvents
<1>1. Same(c, a) /\ Shaped(a)
  BY <1>0 DEF Same, SameTimers, Shaped, Watched
<1> HIDE DEF a
<1>2. Same(a, u) /\ Shaped(u)
  BY <1>1 DEF Same, SameTimers, Shaped, Watched
<1> HIDE DEF u
<1>3. Same(u, v) /\ Shaped(v)
  BY <1>2, QueueSame, SameShaped
<1> HIDE DEF v
<1>4. Same(v, b) /\ Shaped(b)
  BY <1>3 DEF Same, SameTimers, Shaped, Watched
<1>5. Same(c, b)
  BY <1>1, <1>2, <1>3, <1>4, SameTransitive
<1> HIDE DEF b
<1>6. Same(c, d) /\ Shaped(d)
  BY <1>1, <1>4, <1>5
<1> HIDE DEF d
<1>7. Ready([e EXCEPT !.event = "RCV_SYN_ACK"])
  <2>1. Same(c, established(d, TRUE)) /\ Shaped(established(d, TRUE))
    BY <1>6, EstablishedSame, SameTransitive, SameShaped, ZenonT(30)
  <2>2. Same(c, e) /\ Shaped(e)
    BY <2>1, IndicationSame, SameTransitive, SameShaped, ZenonT(30)
  <2> HIDE DEF e
  <2>3. Calm(e, [e EXCEPT !.event = "RCV_SYN_ACK"])
    BY <2>2, EventCalm DEF OpeningEvents
  <2> QED
    BY <2>2, <2>3, CalmSteps, CalmIsReady
<1>8. Ready(o)
  <2>1. Same(d, k) /\ Shaped(k)
    BY <1>6, SendSynSame, SameShaped
  <2>2. k.state = "SYN_SENT" /\ k.connEstabTimer = "scheduled"
    BY <1>6, <2>1 DEF Same, SameTimers, Fits, TimersFit, Handshaking
  <2> HIDE DEF k
  <2>3. /\ Shaped(r) /\ r.state = "SYN_SENT" /\ r.connEstabTimer = "scheduled"
        /\ r.synRexmitTimer = "scheduled"
    BY <2>1, <2>2, ScheduleHandshake DEF Shaped
  <2> HIDE DEF r
  <2>4. /\ Shaped(o) /\ o.state = "SYN_SENT" /\ o.connEstabTimer = "scheduled"
        /\ o.synRexmitTimer = "scheduled" /\ o.event = "RCV_SYN"
    BY <2>3 DEF Shaped, Watched
  <2> HIDE DEF o
  <2>5. nextState(o.state, o.event, o.active) = "SYN_RCVD"
    BY <2>4, OpeningTransitions
  <2> QED
    BY <2>4, <2>5, OpenedIsReady DEF States
<1>9. Ready(processSynInSynSent(c, s))
  BY <1>7, <1>8 DEF processSynInSynSent, o, r, k, e, d, b, v, u, a
<1>10. Ready([x EXCEPT !.event = "RCV_RST"])
  <2>1. Same(c, x) /\ Shaped(x)
    BY <1>0, IndicationSame, SameShaped
  <2> HIDE DEF x
  <2>2. Calm(x, [x EXCEPT !.event = "RCV_RST"])
    BY <2>1, EventCalm, ZenonT(30) DEF OpeningEvents
  <2> QED
    BY <2>1, <2>2, CalmSteps, CalmIsReady
<1>11. Same(c, c) /\ Same(c, sendRst(c, s.ack))
  BY <1>0, SendSame, ZenonT(30) DEF Same, SameTimers
<1>12. Ready(c) /\ Ready(sendRst(c, s.ack))
  BY <1>0, <1>11, CalmSteps, CalmIsReady
<1> QED
  BY <1>9, <1>10, <1>12 DEF processSegmentInSynSent, x

\* CONN-ESTAB expires: the connection is closed, or listens again.
LEMMA ConnEstabReady ==
  ASSUME NEW c, Fits(c), c.connEstabTimer = "scheduled"
  PROVE  Ready(process_TIMEOUT_CONN_ESTAB(c))
<1> DEFINE a == [c EXCEPT !.connEstabTimer = "idle", !.event = "TIMEOUT_CONN_ESTAB"]
           b == Assert(a, c.state \in {"SYN_RCVD", "SYN_SENT"}, "CONN_ESTAB timeout")
           d == IF c.active THEN indicateFailure(b) ELSE b
<1>1. Shaped(a) /\ a.state = c.state /\ a.event = "TIMEOUT_CONN_ESTAB"
  BY DEF Fits, Shaped, Watched
<1> HIDE DEF a
<1>2. Same(a, b) /\ Shaped(b)
  BY <1>1, AssertSame, SameShaped, ZenonT(30)
<1> HIDE DEF b
<1>3. Same(a, indicateFailure(b))
  BY <1>2, IndicationSame, SameTransitive
<1>4. Same(a, d)
  BY <1>2, <1>3
<1> HIDE DEF d
<1>5. Shaped(d) /\ d.state = c.state /\ d.event = "TIMEOUT_CONN_ESTAB"
  BY <1>1, <1>4, SameShaped DEF Same, SameTimers
<1>6. c.state \in Handshaking
  BY DEF Fits, TimersFit
<1>7. nextState(d.state, d.event, d.active) \in {"LISTEN", "CLOSED"}
  <2>1. CASE c.state = "SYN_SENT"
    BY <1>5, <2>1, EndingTransitions
  <2>2. CASE c.state = "SYN_RCVD"
    BY <1>5, <2>2, EndingTransitions
  <2> QED
    BY <1>6, <2>1, <2>2 DEF Handshaking
<1>8. Ready(d)
  BY <1>5, <1>6, <1>7 DEF Ready, Handshaking, States
<1> QED
  BY <1>8, ZenonT(30) DEF process_TIMEOUT_CONN_ESTAB, d, b, a

\* SYN-REXMIT expires: it is scheduled again, or the connection is given up.
LEMMA SynRexmitReady ==
  ASSUME NEW c, Fits(c), c.synRexmitTimer = "scheduled"
  PROVE  Ready(process_TIMEOUT_SYN_REXMIT(c))
<1> DEFINE a == [c EXCEPT !.synRexmitTimer = "scheduled", !.syn_rexmit_count = @ + 1]
           g == [a EXCEPT !.synRexmitTimer = "idle", !.event = "ABORT"]
           w == Assert(a, FALSE, "SYN-REXMIT timeout")
<1>1. Shaped(c) /\ c.state \in Handshaking /\ c.event = "IGNORE"
  BY DEF Fits, TimersFit
<1>2. Same(c, a) /\ Shaped(a)
  BY <1>1 DEF Same, SameTimers, Shaped, Watched
<1> HIDE DEF a
<1>3. Same(c, sendSyn(a)) /\ Same(c, sendSynAck(a)) /\ Same(c, w)
  BY <1>2, SendSynSame, AssertSame, SameTransitive, ZenonT(30)
<1> HIDE DEF w
<1>4. Ready(sendSyn(a)) /\ Ready(sendSynAck(a)) /\ Ready(w)
  <2>1. c.event \notin OpeningEvents
    BY <1>1 DEF OpeningEvents
  <2> QED
    BY <1>3, <2>1, CalmSteps, CalmIsReady
<1>5. Ready(g)
  <2>1. Shaped(g) /\ g.state = c.state /\ g.event = "ABORT"
    BY <1>2 DEF Same, SameTimers, Shaped, Watched
  <2> HIDE DEF g
  <2>2. nextState(g.state, g.event, g.active) = "CLOSED"
    <3>1. CASE c.state = "SYN_SENT"
      BY <2>1, <3>1, EndingTransitions
    <3>2. CASE c.state = "SYN_RCVD"
      BY <2>1, <3>2, EndingTransitions, SMTT(30)
    <3> QED
      BY <1>1, <3>1, <3>2 DEF Handshaking
  <2> QED
    BY <1>1, <2>1, <2>2 DEF Ready, Handshaking, States
<1> QED
  BY <1>4, <1>5, ZenonT(30) DEF process_TIMEOUT_SYN_REXMIT, w, g, a

(***************************************************************************)
(* The two ends.                                                           *)
(***************************************************************************)
\* The inductive invariant: the handshake timers of both ends fit their states,
\* and no event is left over from a handler.
TimersInv == DOMAIN conn = Ends /\ \A e \in Ends : Fits(conn[e])

\* The end of a handler, for end e.
LEMMA FinishFits ==
  ASSUME TimersInv, NEW e \in Ends, NEW c, Ready(c), NEW q, Finish(e, c, q)
  PROVE  TimersInv'
<1> DEFINE d == performStateTransition(c)
           f == [d EXCEPT !.out = <<>>]
<1>1. Fits(d)
  BY TransitionFits
<1>2. conn' = [conn EXCEPT ![e] = f]
  BY DEF Finish
<1> HIDE DEF d
<1>3. Fits(f)
  BY <1>1 DEF Fits, TimersFit, Shaped, Watched
<1> HIDE DEF f
<1>4. DOMAIN conn' = Ends /\ \A x \in Ends : conn'[x] = IF x = e THEN f ELSE conn[x]
  BY <1>2 DEF TimersInv
<1> QED
  BY <1>3, <1>4 DEF TimersInv, Fits, TimersFit, Shaped

\* New connections satisfy the invariant.
LEMMA InitTimers == Init => TimersInv
BY NewConnIdle DEF Init, TimersInv, Fits, TimersFit, States, Handshaking

\* Every step of either end keeps it.
LEMMA NextTimers ==
  ASSUME TimersInv, [Next]_vars
  PROVE  TimersInv'
<1>1. CASE UNCHANGED vars
  BY <1>1 DEF TimersInv, vars, Fits, TimersFit, Shaped
<1>2. ASSUME NEW e \in Ends, Network(e)
      PROVE  TimersInv'
  BY <1>2 DEF Network, Lose, Duplicate, TimersInv, Fits, TimersFit, Shaped
<1>3. ASSUME NEW e \in Ends, Application(e)
      PROVE  TimersInv'
  <2>1. Fits(conn[e]) /\ Shaped(conn[e])
    BY DEF TimersInv, Fits
  <2>2. CASE OpenActive(e)
    BY <2>1, <2>2, OpenActiveReady, FinishFits, ZenonT(30) DEF OpenActive
  <2>3. CASE OpenPassive(e)
    BY <2>1, <2>3, OpenPassiveReady, FinishFits, ZenonT(30) DEF OpenPassive
  <2>4. CASE Send(e)
    BY <2>1, <2>4, SendReady, FinishFits, ZenonT(30) DEF Send
  <2>5. CASE Close(e)
    BY <2>1, <2>5, CloseCalm, CalmIsReady, FinishFits, ZenonT(30) DEF Close
  <2>6. CASE Abort(e)
    BY <2>1, <2>6, AbortCalm, CalmIsReady, FinishFits, ZenonT(30) DEF Abort
  <2> QED
    BY <1>3, <2>2, <2>3, <2>4, <2>5, <2>6 DEF Application
<1>4. ASSUME NEW e \in Ends, Receive(e)
      PROVE  TimersInv'
  <2>1. Fits(conn[e]) /\ Shaped(conn[e]) /\ conn[e].event \notin OpeningEvents
    BY DEF TimersInv, Fits, OpeningEvents
  <2>2. CASE SegmentWhileClosed(e)
    BY <2>1, <2>2, OtherCalm, CalmIsReady, FinishFits, ZenonT(30) DEF SegmentWhileClosed, Arrives
  <2>3. CASE SegmentInListen(e)
    BY <2>1, <2>3, InListenReady, FinishFits, ZenonT(30) DEF SegmentInListen, Arrives
  <2>4. CASE SegmentInSynSent(e)
    BY <2>1, <2>4, InSynSentReady, FinishFits, ZenonT(30) DEF SegmentInSynSent, Arrives
  <2>5. CASE UnacceptableSegment(e)
    BY <2>1, <2>5, OtherCalm, CalmIsReady, FinishFits, ZenonT(30) DEF UnacceptableSegment, Arrives
  <2>6. CASE RstSegment(e)
    BY <2>1, <2>6, ResetCalm, CalmIsReady, FinishFits, ZenonT(30) DEF RstSegment, Arrives
  <2>7. CASE UnexpectedSyn(e)
    BY <2>1, <2>7, ResetCalm, CalmIsReady, FinishFits, ZenonT(30) DEF UnexpectedSyn, Arrives
  <2>8. CASE AckSegment(e)
    BY <2>1, <2>8, AckSegmentCalm, CalmIsReady, FinishFits, ZenonT(30) DEF AckSegment, Arrives
  <2> QED
    BY <1>4, <2>2, <2>3, <2>4, <2>5, <2>6, <2>7, <2>8 DEF Receive
<1>5. ASSUME NEW e \in Ends, Timeout(e)
      PROVE  TimersInv'
  <2>1. Fits(conn[e]) /\ Shaped(conn[e]) /\ conn[e].event \notin OpeningEvents
    BY DEF TimersInv, Fits, OpeningEvents
  <2>2. CASE TimeoutConnEstab(e)
    BY <2>1, <2>2, ConnEstabReady, FinishFits, ZenonT(30) DEF TimeoutConnEstab
  <2>3. CASE TimeoutSynRexmit(e)
    BY <2>1, <2>3, SynRexmitReady, FinishFits, ZenonT(30) DEF TimeoutSynRexmit
  <2>4. CASE Timeout2MSL(e)
    BY <2>1, <2>4, OtherCalm, CalmIsReady, FinishFits, ZenonT(30) DEF Timeout2MSL
  <2>5. CASE TimeoutRexmit(e)
    BY <2>1, <2>5, OtherCalm, CalmIsReady, FinishFits, ZenonT(30) DEF TimeoutRexmit
  <2> QED
    BY <1>5, <2>2, <2>3, <2>4, <2>5 DEF Timeout
<1> QED
  BY <1>1, <1>2, <1>3, <1>4, <1>5 DEF Next

\* In every run of two connections over any network, CONN-ESTAB and SYN-REXMIT
\* are pending exactly in SYN_SENT and SYN_RCVD, and their messages are deleted
\* only in synchronized states: no handler of TCPConnection forgets to schedule,
\* cancel or keep them (HandshakeTimers).
THEOREM HandshakeTimersHold == Spec => []HandshakeTimers
<1>1. TimersInv => HandshakeTimers
  BY DEF TimersInv, Fits, TimersFit, HandshakeTimers
<1> QED
  BY <1>1, InitTimers, NextTimers, PTL DEF Spec
=============================================================================
