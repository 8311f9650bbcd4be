---------------------------- MODULE TCPAlgorithm ----------------------------
(***************************************************************************)
(* Sending and retransmission: the send methods of TCPConnection           *)
(* (TCPConnectionUtil.cc), the send queue TCPVirtualDataSendQueue, and the *)
(* flavours behind the TCPAlgorithm interface.  Delayed ACKs are disabled  *)
(* in the code and the PERSIST and KEEPALIVE timers are never scheduled,   *)
(* so REXMIT is the only timer of the flavours.                            *)
(***************************************************************************)
EXTENDS TCPConnState

selectInitialSeqNum(c, iss) ==
  [c EXCEPT !.iss = iss, !.snd_una = iss, !.snd_nxt = iss, !.snd_max = iss,
            !.begin = SeqAdd(iss, 1), !.end = SeqAdd(iss, 1)]

sendSyn(c) ==
  sendToIP([Assert(c, c.remote, "foreign socket unspecified")
              EXCEPT !.snd_max = SeqAdd(c.iss, 1), !.snd_nxt = SeqAdd(c.iss, 1)],
           Seg(c.iss, 0, {"SYN"}))

sendSynAck(c) ==
  sendToIP([c EXCEPT !.snd_max = SeqAdd(c.iss, 1), !.snd_nxt = SeqAdd(c.iss, 1)],
           Seg(c.iss, c.rcv_nxt, {"SYN", "ACK"}))

sendRst(c, seq) == sendToIP(c, Seg(seq, 0, {"RST"}))

sendRstAck(c, seq, ack) == sendToIP(c, Seg(seq, ack, {"RST", "ACK"}))

sendAck(c) == sendToIP(c, Seg(c.snd_nxt, c.rcv_nxt, {"ACK"}))

sendFin(c) == sendToIP(c, Seg(c.snd_nxt, c.rcv_nxt, {"ACK", "FIN"}))

(***************************************************************************)
(* The send queue.                                                         *)
(***************************************************************************)
getBufferEndSeq(c) == c.end

getBytesAvailable(c, fromSeq) ==
  IF seqLess(fromSeq, c.end) THEN SeqDiff(c.end, fromSeq) ELSE 0

enqueueAppData(c, octets) ==
  [c EXCEPT !.end = SeqAdd(@, octets), !.written = @ + octets]

discardUpTo(c, seqNum) ==
  [Assert(c, seqLE(c.begin, seqNum) /\ seqLE(seqNum, c.end), "discardUpTo")
     EXCEPT !.begin = seqNum]

(***************************************************************************)
(* The effect of one or more calls of sendSegment(): "bytes" octets from   *)
(* snd_nxt on, cut into segments of MSS octets with the rest in the last   *)
(* one, or a single empty segment.  sendSegment() sets FIN on the segment  *)
(* that ends at snd_fin_seq.  That is the end of the send queue, because   *)
(* the application writes nothing after CLOSE (SendVariablesOrdered),      *)
(* so it can only be the last segment.                                     *)
(***************************************************************************)
SegmentCount(bytes) == IF bytes = 0 THEN 1 ELSE (bytes + MSS - 1) \div MSS

sendSegments(c, bytes) ==
  LET nxt   == SeqAdd(c.snd_nxt, bytes)
      fin   == c.send_fin /\ nxt = c.snd_fin_seq
      count == SegmentCount(bytes)
      seg(i) == [seq   |-> SeqAdd(c.snd_nxt, (i - 1) * MSS),
                 ack   |-> c.rcv_nxt,
                 len   |-> Lesser(MSS, bytes - (i - 1) * MSS),
                 flags |-> IF fin /\ i = count THEN {"ACK", "FIN"} ELSE {"ACK"}]
  IN [Assert(c, seqLE(c.begin, c.snd_nxt) /\ seqLE(nxt, c.end), "createSegmentWithBytes")
        EXCEPT !.snd_nxt = IF fin THEN SeqAdd(nxt, 1) ELSE nxt,
               !.out     = @ \o [i \in 1 .. count |-> seg(i)]]

(***************************************************************************)
(* The REXMIT timer.                                                       *)
(***************************************************************************)
startRexmitTimer(c) == [scheduleRexmit(c) EXCEPT !.rexmit_count = 0]

\* Mutant: the timer is not started.
dataSentWithoutTimer(c) == c

\* dataSent(): DumbTCP restarts the timer, the others leave it running.
dataSent(c) ==
  IF Alg = "DumbTCP" THEN scheduleRexmit(cancelRexmit(c))
  ELSE IF c.rexmitTimer = "scheduled" THEN c ELSE startRexmitTimer(c)

(***************************************************************************)
(* sendData(): from snd_max on, as far as the windows allow; either one    *)
(* segment of at most MSS octets or a number of full ones.                 *)
(***************************************************************************)
MaxWindow(c) == IF Alg = "DumbTCP" THEN c.snd_wnd ELSE Lesser(c.snd_wnd, c.snd_cwnd)

\* Mutant: the octets in flight are not subtracted from the window.
bytesToSendIgnoringFlight(c) == Lesser(MaxWindow(c), getBytesAvailable(c, c.snd_max))

bytesToSend(c) ==
  Lesser(MaxWindow(c) - SeqDiff(c.snd_max, c.snd_una), getBytesAvailable(c, c.snd_max))

\* Nagle's algorithm (TCPBaseAlg::sendData); DumbTCP does not use it.
fullSegmentsOnly(c) == Alg # "DumbTCP" /\ c.snd_una # c.snd_max

canSendData(c) ==
  /\ bytesToSend(c) > 0
  /\ fullSegmentsOnly(c) => bytesToSend(c) >= MSS

sendData(c) ==
  LET a == [c EXCEPT !.snd_nxt = c.snd_max]
      n == IF bytesToSend(c) <= MSS THEN bytesToSend(c)
           ELSE (bytesToSend(c) \div MSS) * MSS
      b == sendSegments(a, n)
  IN IF canSendData(c) THEN dataSent([b EXCEPT !.snd_max = b.snd_nxt]) ELSE a

retransmitOneSegment(c) ==
  LET n == Lesser(MSS, SeqDiff(c.snd_max, c.snd_una))
  IN sendSegments([Assert(c, n # 0, "retransmitOneSegment") EXCEPT !.snd_nxt = c.snd_una], n)

\* The loop stops at the FIN; without one it must end at snd_max.
retransmitData(c) ==
  LET outstanding == SeqDiff(c.snd_max, c.snd_una)
      a == [Assert(c, outstanding # 0, "retransmitData") EXCEPT !.snd_nxt = c.snd_una]
      b == sendSegments(a, Lesser(outstanding, getBytesAvailable(c, c.snd_una)))
  IN Assert(b, b.snd_nxt = c.snd_max \/ (c.send_fin /\ b.snd_nxt = SeqAdd(c.snd_fin_seq, 1)),
            "retransmitData loops")

(***************************************************************************)
(* The flavours. snd_cwnd is cut off at RcvWnd, above which it is the      *)
(* advertised window that limits the sender; the initial ssthresh, 65535,  *)
(* is above it as well.                                                    *)
(***************************************************************************)
HasFastRetransmit == Alg \in {"TCPReno", "TCPTahoe"}

setCwnd(c, cwnd) == [c EXCEPT !.snd_cwnd = Lesser(cwnd, RcvWnd)]

\* initialize(): TCPNoCongestionControl starts with a practically infinite cwnd.
initialize(c) == setCwnd(c, IF Alg = "TCPNoCongestionControl" THEN RcvWnd ELSE 0)

\* established(): the active side completes the setup with data or an ACK.
established(c, active) ==
  LET a == IF Alg = "DumbTCP" THEN c ELSE setCwnd(c, MSS)
  IN IF ~ active THEN a
     ELSE IF canSendData(a) THEN sendData(a) ELSE sendAck(sendData(a))

recalculateSlowStartThreshold(c) ==
  [c EXCEPT !.ssthresh = Greater(Lesser(c.snd_cwnd, c.snd_wnd) \div 2, 2 * MSS)]

\* Slow start below ssthresh, congestion avoidance from there on.
growCwnd(c) ==
  setCwnd(c, c.snd_cwnd + (IF c.snd_cwnd < c.ssthresh THEN MSS
                           ELSE Greater(1, (MSS * MSS) \div Greater(1, c.snd_cwnd))))

receivedDataAck(c) ==
  LET a == IF Alg = "DumbTCP" THEN c
           ELSE IF c.snd_una = c.snd_max THEN cancelRexmit(c)
           ELSE startRexmitTimer(cancelRexmit(c))
      b == IF ~ HasFastRetransmit THEN a
           ELSE IF Alg = "TCPReno" /\ c.dupacks >= 3 THEN setCwnd(a, a.ssthresh)
           ELSE growCwnd(a)
  IN sendData(b)

\* Fast retransmit on the third duplicate; Reno inflates cwnd on the later ones.
receivedDuplicateAck(c) ==
  LET a == recalculateSlowStartThreshold(retransmitOneSegment(c))
      b == setCwnd(a, IF Alg = "TCPReno" THEN a.ssthresh + 3 * MSS ELSE MSS)
  IN IF HasFastRetransmit /\ c.dupacks = 3 THEN startRexmitTimer(cancelRexmit(b))
     ELSE IF Alg = "TCPReno" /\ c.dupacks > 3
          THEN sendData(setCwnd(c, c.snd_cwnd + MSS))
          ELSE c

(***************************************************************************)
(* The REXMIT timer expires.  DumbTCP does not set the context pointer of  *)
(* its timer message, so TCP::handleMessage() finds no connection for it.  *)
(***************************************************************************)
processRexmitTimer(c) ==
  LET a == scheduleRexmit([c EXCEPT !.rexmitTimer = "idle", !.rexmit_count = @ + 1])
      b == IF HasFastRetransmit THEN setCwnd(recalculateSlowStartThreshold(a), MSS) ELSE a
  IN IF Alg = "DumbTCP" THEN Assert(c, FALSE, "REXMIT without connection")
     ELSE IF c.rexmit_count >= MaxRexmitCount
          THEN [indicateFailure(c) EXCEPT !.rexmitTimer = "idle", !.event = "ABORT",
                                          !.rexmit_count = @ + 1]
     ELSE IF Alg = "TCPReno" THEN retransmitData(b) ELSE retransmitOneSegment(b)
=============================================================================
