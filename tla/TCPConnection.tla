---------------------------- MODULE TCPConnection ----------------------------
(***************************************************************************)
(* Event processing of TCPConnection: application commands, timers and the *)
(* arriving segments.  Every handler ends with performStateTransition().   *)
(***************************************************************************)
EXTENDS TCPAlgorithm

(***************************************************************************)
(* stateEntered() and TCP::removeConnection().  A connection that reaches  *)
(* CLOSED is deleted with its queues and timers; what is left is what the  *)
(* application has seen of it.                                             *)
(***************************************************************************)
cancelIfExists(timer) == IF timer = "NULL" THEN "NULL" ELSE "idle"

removeConnection(c) ==
  [NewConn EXCEPT !.state = "CLOSED", !.sock = c.sock, !.closeCalled = c.closeCalled,
                  !.written = c.written, !.delivered = c.delivered,
                  !.peerClosedInds = c.peerClosedInds, !.closedInds = c.closedInds,
                  !.out = c.out, !.err = c.err]

stateEntered(c) ==
  CASE c.state = "CLOSED" -> removeConnection(c)
    [] c.state = "LISTEN" ->
         [Assert(c, c.connEstabTimer # "NULL" /\ c.synRexmitTimer # "NULL", "stateEntered")
            EXCEPT !.connEstabTimer = "idle", !.synRexmitTimer = "idle"]
    [] c.state = "ESTABLISHED" ->
         [Assert(c, c.connEstabTimer # "NULL" /\ c.synRexmitTimer # "NULL", "stateEntered")
            EXCEPT !.connEstabTimer = "NULL", !.synRexmitTimer = "NULL"]
    [] c.state \in {"INIT", "SYN_SENT", "SYN_RCVD"} -> c
    [] OTHER ->
         [c EXCEPT !.connEstabTimer = cancelIfExists(@), !.synRexmitTimer = cancelIfExists(@)]

performStateTransition(c) ==
  LET next == nextState(c.state, c.event, c.active)
      a    == [c EXCEPT !.event = "IGNORE"]
  IN IF next = c.state THEN a ELSE stateEntered([a EXCEPT !.state = next])

(***************************************************************************)
(* Application commands, issued through TCPSocket.                         *)
(***************************************************************************)
\* Common to an active open and to SEND on a listening connection.
startActiveOpen(c, iss) ==
  scheduleConnEstab(startSynRexmitTimer(sendSyn(
    selectInitialSeqNum([c EXCEPT !.active = TRUE], iss))))

process_OPEN_ACTIVE(c, iss) ==
  [startActiveOpen([initialize(c) EXCEPT !.remote = TRUE], iss)
     EXCEPT !.sock = "CONNECTING", !.event = "OPEN_ACTIVE"]

process_OPEN_PASSIVE(c) ==
  [initialize(c) EXCEPT !.active = FALSE, !.sock = "LISTENING", !.event = "OPEN_PASSIVE"]

process_SEND(c, octets, iss) ==
  LET a == [c EXCEPT !.event = "SEND"]
  IN CASE c.state = "LISTEN" -> enqueueAppData(startActiveOpen(a, iss), octets)
       [] c.state \in {"SYN_SENT", "SYN_RCVD"} -> enqueueAppData(a, octets)
       [] c.state \in {"ESTABLISHED", "CLOSE_WAIT"} -> sendData(enqueueAppData(a, octets))
       [] OTHER -> Assert(a, FALSE, "SEND: connection not open or closing")

\* Mutant: snd_max stays below the FIN.
advanceNxtOverFin(c) == [c EXCEPT !.snd_nxt = SeqAdd(@, 1)]

\* state->snd_max = ++state->snd_nxt
advanceOverOwnFin(c) ==
  [c EXCEPT !.snd_nxt = SeqAdd(@, 1), !.snd_max = SeqAdd(c.snd_nxt, 1)]

\* "sending FIN right away, advancing snd_nxt over the FIN"
sendFinNow(c) == advanceOverOwnFin(sendFin([c EXCEPT !.snd_nxt = c.snd_max]))

process_CLOSE(c) ==
  LET a == [c EXCEPT !.closeCalled = TRUE, !.event = "CLOSE",
                     !.sock = IF @ = "CONNECTED" THEN "LOCALLY_CLOSED" ELSE "CLOSED"]
      b == [a EXCEPT !.send_fin = TRUE, !.snd_fin_seq = getBufferEndSeq(c)]
  IN CASE c.state \in {"LISTEN", "SYN_SENT"} -> a
       [] c.state \in {"SYN_RCVD", "ESTABLISHED", "CLOSE_WAIT"} ->
            IF c.snd_max = getBufferEndSeq(c) THEN sendFinNow(b)
            ELSE [b EXCEPT !.event = "IGNORE"]
       [] OTHER -> Assert(a, FALSE, "duplicate CLOSE or connection not open")

process_ABORT(c) ==
  LET a == [Assert(c, c.state \notin {"INIT", "CLOSED"}, "ABORT: connection not open")
              EXCEPT !.closeCalled = TRUE, !.event = "ABORT", !.sock = "CLOSED"]
  IN IF c.state \in {"SYN_RCVD", "ESTABLISHED", "FIN_WAIT_1", "FIN_WAIT_2", "CLOSE_WAIT"}
     THEN sendRst(a, c.snd_nxt) ELSE a

(***************************************************************************)
(* Timers.                                                                 *)
(***************************************************************************)
process_TIMEOUT_CONN_ESTAB(c) ==
  LET a == [c EXCEPT !.connEstabTimer = "idle", !.event = "TIMEOUT_CONN_ESTAB"]
      b == Assert(a, c.state \in {"SYN_RCVD", "SYN_SENT"}, "CONN_ESTAB timeout")
  IN IF c.active THEN indicateFailure(b) ELSE b

process_TIMEOUT_2MSL(c) ==
  Assert([c EXCEPT !.the2MSLTimer = "idle", !.event = "TIMEOUT_2MSL"],
         c.state = "TIME_WAIT", "2MSL timeout")

process_TIMEOUT_SYN_REXMIT(c) ==
  LET a == [c EXCEPT !.synRexmitTimer = "scheduled", !.syn_rexmit_count = @ + 1]
  IN CASE c.syn_rexmit_count >= MaxSynRexmitCount ->
            [a EXCEPT !.synRexmitTimer = "idle", !.event = "ABORT"]
       [] c.syn_rexmit_count < MaxSynRexmitCount /\ c.state = "SYN_SENT" -> sendSyn(a)
       [] c.syn_rexmit_count < MaxSynRexmitCount /\ c.state = "SYN_RCVD" -> sendSynAck(a)
       [] OTHER -> Assert(a, FALSE, "SYN-REXMIT timeout")

(***************************************************************************)
(* Arriving segments.                                                      *)
(***************************************************************************)
\* No connection for the segment: TCP::segmentArrivalWhileClosed().
segmentArrivalWhileClosed(c, s) ==
  IF "RST" \in s.flags THEN c
  ELSE IF "ACK" \in s.flags THEN sendRst(c, s.ack)
  ELSE sendRstAck(c, 0, SeqAdd(s.seq, s.len))

\* SYN segments of this TCP carry no text.
processSegmentInListen(c, s, iss) ==
  LET a == [c EXCEPT !.remote = TRUE, !.rcv_nxt = SeqAdd(s.seq, 1),
                     !.rcvQueue = rcvInit(@, SeqAdd(s.seq, 1))]
      b == [selectInitialSeqNum(a, iss) EXCEPT
              !.snd_wnd = RcvWnd, !.snd_wl1 = s.seq, !.snd_wl2 = iss, !.event = "RCV_SYN"]
      d == startSynRexmitTimer(sendSynAck(b))
  IN IF "RST" \in s.flags THEN c
     ELSE IF "ACK" \in s.flags THEN sendRst(c, s.ack)
     ELSE IF "SYN" \notin s.flags THEN c
     ELSE IF d.connEstabTimer = "scheduled" THEN d ELSE scheduleConnEstab(d)

\* SYN+ACK establishes the connection; a SYN alone is a simultaneous open.
processSynInSynSent(c, s) ==
  LET a == [c EXCEPT !.rcv_nxt = SeqAdd(s.seq, 1),
                     !.rcvQueue = rcvInit(@, SeqAdd(s.seq, 1))]
      b == [discardUpTo([a EXCEPT !.snd_una = s.ack], s.ack) EXCEPT
              !.snd_wnd = RcvWnd, !.snd_wl1 = s.seq, !.snd_wl2 = s.ack]
      d == IF "ACK" \in s.flags THEN b ELSE a
  IN IF seqGreater(d.snd_una, d.iss)
     THEN [sendEstabIndicationToApp(established(d, TRUE)) EXCEPT !.event = "RCV_SYN_ACK"]
     ELSE [startSynRexmitTimer(sendSynAck(d)) EXCEPT !.event = "RCV_SYN"]

processSegmentInSynSent(c, s) ==
  IF "ACK" \in s.flags /\ (seqLE(s.ack, c.iss) \/ seqGreater(s.ack, c.snd_nxt))
  THEN sendRst(c, s.ack)
  ELSE IF "RST" \in s.flags
       THEN IF "ACK" \in s.flags THEN [indicateFailure(c) EXCEPT !.event = "RCV_RST"] ELSE c
  ELSE IF "SYN" \in s.flags THEN processSynInSynSent(c, s) ELSE c

\* processSegment1stThru8th(), first: check the sequence number.
isSegmentAcceptable(c, s) ==
  /\ seqGE(s.seq, c.rcv_nxt)
  /\ seqLE(SeqAdd(s.seq, s.len), SeqAdd(c.rcv_nxt, RcvWnd))

processUnacceptable(c, s) == IF "RST" \in s.flags THEN c ELSE sendAck(c)

\* Second: check the RST bit.  In SYN_RCVD the send queue is flushed, and only
\* an active open is reported.
processRst(c) ==
  LET a == [c EXCEPT !.event = "RCV_RST"]
      b == discardUpTo(a, c.end)
  IN CASE c.state = "SYN_RCVD" -> IF c.active THEN indicateFailure(b) ELSE b
       [] c.state \in {"ESTABLISHED", "FIN_WAIT_1", "FIN_WAIT_2", "CLOSE_WAIT"} ->
            indicateFailure(a)
       [] c.state \in {"CLOSING", "LAST_ACK"} -> indicateClosed(a)
       [] OTHER -> a

\* Mutant: the application is not told.
unexpectedSynUnreported(c) == [c EXCEPT !.event = "RCV_UNEXP_SYN"]

\* Fourth: a SYN in the window resets the connection.
processUnexpectedSyn(c) == [indicateFailure(c) EXCEPT !.event = "RCV_UNEXP_SYN"]

(***************************************************************************)
(* Fifth: check the ACK field, in all states but SYN_RCVD.                 *)
(***************************************************************************)
AckStates == {"SYN_RCVD", "ESTABLISHED", "FIN_WAIT_1", "FIN_WAIT_2", "CLOSE_WAIT", "CLOSING"}

\* "if acks something not yet sent, drop it"
acksUnsent(c, s) == ~ seqGE(c.snd_una, s.ack) /\ ~ seqLE(s.ack, c.snd_max)

\* "we may get an ack well ahead of snd_nxt"
advanceNxt(nxt, ack) == IF seqLess(nxt, ack) THEN ack ELSE nxt

\* An ACK in the window: lines 949 to 990 of the method below.
acceptAck(c, s) ==
  LET a == [c EXCEPT !.snd_una = s.ack,
                     !.snd_nxt = advanceNxt(@, s.ack)]
      acksFin == c.send_fin /\ s.ack = SeqAdd(c.snd_fin_seq, 1)
      b == discardUpTo([a EXCEPT !.fin_ack_rcvd = @ \/ acksFin],
                       IF acksFin THEN SeqDiff(s.ack, 1) ELSE s.ack)
      d == [b EXCEPT !.snd_wnd = RcvWnd, !.snd_wl1 = s.seq, !.snd_wl2 = s.ack]
      updatesWindow == \/ seqLess(c.snd_wl1, s.seq)
                       \/ c.snd_wl1 = s.seq /\ seqLE(c.snd_wl2, s.ack)
  IN [receivedDataAck(IF updatesWindow THEN d ELSE b) EXCEPT !.dupacks = 0]

\* dupacks counts up to 4, which stands for "more than 3".
processAckInEstabEtc(c, s) ==
  IF seqGE(c.snd_una, s.ack)
  THEN IF c.snd_una = s.ack /\ s.len = 0 /\ c.snd_una # c.snd_max
       THEN receivedDuplicateAck([c EXCEPT !.dupacks = Lesser(@ + 1, 4)])
       ELSE [c EXCEPT !.dupacks = 0]
  ELSE IF ~ acksUnsent(c, s) THEN acceptAck(c, s)
  ELSE sendAck([Assert(c, seqGreater(s.ack, c.snd_max), "processAckInEstabEtc")
                  EXCEPT !.dupacks = 0])

\* Fifth, in the closing states; CLOSING and TIME_WAIT start the 2MSL timer.
processAckWhileClosing(c) ==
  CASE c.state = "FIN_WAIT_1" /\ c.fin_ack_rcvd -> [c EXCEPT !.event = "RCV_ACK"]
    [] c.state = "CLOSING" /\ c.fin_ack_rcvd ->
         [indicateClosed(schedule2MSL(c)) EXCEPT !.event = "RCV_ACK"]
    [] c.state = "TIME_WAIT" -> schedule2MSL([sendAck(c) EXCEPT !.the2MSLTimer = "idle"])
    [] OTHER -> c

(***************************************************************************)
(* Seventh: process the segment text.  When the segment advances rcv_nxt,  *)
(* that is the end of the first region: one extraction empties it, and the *)
(* next call finds nothing more to extract.                                *)
(***************************************************************************)
TextStates == {"SYN_RCVD", "ESTABLISHED", "FIN_WAIT_1", "FIN_WAIT_2"}

forwardData(c) ==
  LET q == extractTo(c.rcvQueue, c.rcv_nxt)
      a == Assert(c, extractAssertions(c.rcvQueue, c.rcv_nxt) /\ extractAssertions(q, c.rcv_nxt),
                  "extractTo")
  IN indicateData([a EXCEPT !.rcvQueue = q], extractedOctets(c.rcvQueue, c.rcv_nxt))

\* The segment "filled the gap" until a FIN that arrived before.
advanceOverFin(c) == indicatePeerClosed([c EXCEPT !.rcv_nxt = SeqAdd(@, 1)])

processText(c, s) ==
  LET q == insertBytesFromSegment(c.rcvQueue, s.seq, s.len)
      a == [c EXCEPT !.rcvQueue = q, !.rcv_nxt = q.rcv_nxt]
      b == forwardData(a)
  IN IF c.state \notin TextStates \/ s.len = 0 THEN c
     ELSE IF q.rcv_nxt = c.rcv_nxt THEN sendAck(a)
     ELSE IF c.fin_rcvd /\ b.rcv_nxt = c.rcv_fin_seq THEN advanceOverFin(b) ELSE b

(***************************************************************************)
(* Eighth: check the FIN bit.  A FIN above sequence is only remembered.    *)
(***************************************************************************)
\* Mutants: RCV.NXT advances over a FIN above sequence, as in RFC 793; the peer's
\* close is reported when the FIN arrives.
noteFinAndAdvance(c, s) == indicatePeerClosed([c EXCEPT !.rcv_nxt = SeqAdd(s.seq, s.len + 1)])

noteFinAndReport(c, s) ==
  indicatePeerClosed([c EXCEPT !.fin_rcvd = TRUE, !.rcv_fin_seq = SeqAdd(s.seq, s.len)])

noteFin(c, s) ==
  LET fin_seq == SeqAdd(s.seq, s.len)
  IN IF c.rcv_nxt = fin_seq THEN advanceOverFin(c)
     ELSE [c EXCEPT !.fin_rcvd = TRUE, !.rcv_fin_seq = fin_seq]

processFin(c, s) ==
  LET a == [noteFin(c, s) EXCEPT !.event = "RCV_FIN"]
      timeWait == \/ c.state = "FIN_WAIT_1" /\ c.fin_ack_rcvd
                  \/ c.state = "FIN_WAIT_2"
      b == indicateClosed(schedule2MSL(a))
  IN CASE "FIN" \notin s.flags -> c
       [] "FIN" \in s.flags /\ timeWait ->
            [b EXCEPT !.event = IF c.state = "FIN_WAIT_1" THEN "RCV_FIN_ACK" ELSE "RCV_FIN"]
       [] "FIN" \in s.flags /\ c.state = "TIME_WAIT" ->
            schedule2MSL([a EXCEPT !.the2MSLTimer = "idle"])
       [] OTHER -> a

\* Mutant: the deferred CLOSE is forgotten.
noDeferredClose(c, old_snd_nxt) == c

\* "Now we can do the CLOSE which was deferred a while ago"
deferredClose(c, old_snd_nxt) ==
  LET finSent == c.send_fin /\ c.snd_nxt = SeqAdd(c.snd_fin_seq, 1)
  IN IF \/ c.state \in {"ESTABLISHED", "SYN_RCVD"} /\ finSent
        \/ c.state = "CLOSE_WAIT" /\ finSent /\ old_snd_nxt # c.snd_nxt
     THEN [c EXCEPT !.event = "CLOSE"] ELSE c

\* Steps six to eight and what follows them.
processTextAndFin(c, s, old_snd_nxt) ==
  LET a == processFin(processText(c, s), s)
      b == IF a.rcv_nxt # c.rcv_nxt THEN sendAck(a) ELSE a
  IN deferredClose(b, old_snd_nxt)

\* An acceptable segment with ACK and without RST and SYN.
processAckSegment(c, s) ==
  LET a == IF c.state = "SYN_RCVD"
           THEN [sendEstabIndicationToApp(established(c, FALSE)) EXCEPT !.event = "RCV_ACK"]
           ELSE c
      b == IF c.state \in AckStates THEN processAckInEstabEtc(a, s) ELSE a
  IN IF c.state = "SYN_RCVD" /\ ~ (seqLE(c.snd_una, s.ack) /\ seqLE(s.ack, c.snd_nxt))
     THEN sendRst(c, s.ack)
     ELSE IF c.state \in AckStates /\ acksUnsent(a, s) THEN [b EXCEPT !.event = "IGNORE"]
     ELSE IF c.state = "LAST_ACK" /\ c.send_fin /\ s.ack = SeqAdd(c.snd_fin_seq, 1)
          THEN [indicateClosed(c) EXCEPT !.event = "RCV_ACK"]
     ELSE processTextAndFin(processAckWhileClosing(b), s, c.snd_nxt)
=============================================================================
