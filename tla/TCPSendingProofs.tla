-------------------------- MODULE TCPSendingProofs --------------------------
(***************************************************************************)
(* The sender of a connection of TCPPair: the order of its sequence        *)
(* variables, its window and its REXMIT timer, for any network, window,    *)
(* MSS and flavour.  The variables are numbers modulo SeqMod; counted from *)
(* iss they are plain numbers, as long as the application does not write   *)
(* half of the number space.  Here: the invariant, and what the methods of *)
(* the connection and of the algorithm, the arrival of an acknowledgement, *)
(* SEND and CLOSE do to it.                                                *)
(***************************************************************************)
EXTENDS TCPPair, TLAPS

\* The sequence variables, counted from the initial sequence number.
Una(c) == SeqDiff(c.snd_una, c.iss)

Nxt(c) == SeqDiff(c.snd_nxt, c.iss)

Maxi(c) == SeqDiff(c.snd_max, c.iss)

End(c) == SeqDiff(c.end, c.iss)

\* The sequence variables in order; the FIN has the number after the last octet,
\* and goes out with that octet or right after it.
InOrder(c) ==
  /\ Una(c) <= Nxt(c) /\ Nxt(c) <= Maxi(c)
  /\ Maxi(c) <= End(c) + (IF c.send_fin THEN 1 ELSE 0)
  /\ End(c) <= 1 + c.written
  /\ c.send_fin => /\ c.closeCalled /\ c.snd_fin_seq = c.end
                   /\ c.snd_max # c.end

InWindow(c) ==
  /\ c.snd_wnd <= RcvWnd
  /\ Maxi(c) - Una(c) <= RcvWnd + (IF Maxi(c) > End(c) THEN 1 ELSE 0)

\* REXMIT is pending, or there is nothing for it to send.  DumbTCP does not stop
\* it once it has sent an octet; the others stop it when all is acknowledged.
Armed(c) ==
  \/ c.rexmitTimer = "scheduled"
  \/ Alg = "DumbTCP" /\ (Maxi(c) <= 1 \/ End(c) <= 1)
  \/ Alg # "DumbTCP" /\ (Una(c) = 0 \/ Una(c) = Maxi(c) \/ Una(c) >= End(c))

\* All numbers of a connection that writes n octets, the SYN and the FIN included,
\* are within half of the number space.
Roomy(n) == 2 * (n + 3) <= SeqMod

Flow(c) == Roomy(c.written) => InOrder(c) /\ InWindow(c) /\ Armed(c)

\* CONN-ESTAB gives up the handshake before SYN-REXMIT does.
ConnEstabFirst == ConnEstabRexmits <= MaxSynRexmitCount

Told(c) == c.sock \in {"CLOSED", "SOCKERROR"}

\* What the state st asks of the rest of the connection.
Suits(c, st) ==
  /\ st \in Handshaking => c.snd_una = c.iss /\ c.snd_nxt = SeqAdd(c.iss, 1)
                           /\ c.snd_max = SeqAdd(c.iss, 1)
  /\ st \in Handshaking \cup {"INIT", "LISTEN"} => c.rexmitTimer = "idle"
  /\ st = "INIT" => c.sock = "NOT_BOUND" /\ ~ c.active /\ ~ c.closeCalled
  /\ st = "LISTEN" => c.sock = "LISTENING" /\ ~ c.active /\ ~ c.closeCalled
  /\ st = "SYN_RCVD" /\ ~ c.active =>
       c.sock = "LISTENING" /\ ~ c.closeCalled /\ c.end = SeqAdd(c.iss, 1)
  /\ st = "SYN_SENT" => c.active /\ c.sock # "CONNECTED"
  /\ ConnEstabFirst /\ st \in {"CLOSED", "TIME_WAIT"} => Told(c)

\* A connection between two handlers.
Sound(c) ==
  /\ c \in Conn /\ c.event = "IGNORE" /\ c.out = <<>>
  /\ Flow(c) /\ Suits(c, c.state)
  /\ c.state = "CLOSED" => c.rexmitTimer = "idle"

SenderInv ==
  /\ conn \in [Ends -> Conn]
  /\ \A e \in Ends : Sound(conn[e]) /\ conn[e].written <= MaxWritten[e]
  /\ net \in [Ends -> Seq(Segment)]
  /\ budget \in Budget

\* The fields of a connection that are numbers.
LEMMA Fields ==
  ASSUME NEW c \in Conn
  PROVE  /\ c.iss \in SeqNo /\ c.snd_una \in SeqNo /\ c.snd_nxt \in SeqNo
         /\ c.snd_max \in SeqNo /\ c.end \in SeqNo /\ c.snd_fin_seq \in SeqNo
         /\ c.rcv_nxt \in SeqNo /\ c.snd_wl1 \in SeqNo /\ c.snd_wl2 \in SeqNo
         /\ c.snd_wnd \in Nat /\ c.snd_cwnd \in Nat /\ c.ssthresh \in Nat
         /\ c.written \in Nat /\ c.delivered \in Nat /\ c.dupacks \in Nat
         /\ c.peerClosedInds \in Nat /\ c.closedInds \in Nat
         /\ c.rexmit_count \in Nat /\ c.syn_rexmit_count \in Nat
         /\ c.send_fin \in BOOLEAN /\ c.closeCalled \in BOOLEAN /\ c.active \in BOOLEAN
         /\ c.state \in States /\ c.rcvQueue \in RcvQueue /\ c.out \in Seq(Segment)
BY DEF Conn, Segments

\* A field may take any value of its type.
LEMMA Updates ==
  ASSUME NEW c \in Conn
  PROVE  /\ \A v \in SeqNo :
              /\ [c EXCEPT !.iss = v] \in Conn /\ [c EXCEPT !.snd_una = v] \in Conn
              /\ [c EXCEPT !.snd_nxt = v] \in Conn /\ [c EXCEPT !.snd_max = v] \in Conn
              /\ [c EXCEPT !.snd_wl1 = v] \in Conn /\ [c EXCEPT !.snd_wl2 = v] \in Conn
              /\ [c EXCEPT !.rcv_nxt = v] \in Conn /\ [c EXCEPT !.snd_fin_seq = v] \in Conn
              /\ [c EXCEPT !.rcv_fin_seq = v] \in Conn /\ [c EXCEPT !.begin = v] \in Conn
              /\ [c EXCEPT !.end = v] \in Conn
         /\ \A v \in Nat :
              /\ [c EXCEPT !.snd_wnd = v] \in Conn /\ [c EXCEPT !.dupacks = v] \in Conn
              /\ [c EXCEPT !.syn_rexmit_count = v] \in Conn /\ [c EXCEPT !.rexmit_count = v] \in Conn
              /\ [c EXCEPT !.written = v] \in Conn /\ [c EXCEPT !.peerClosedInds = v] \in Conn
              /\ [c EXCEPT !.closedInds = v] \in Conn
         /\ \A v \in BOOLEAN :
              /\ [c EXCEPT !.active = v] \in Conn /\ [c EXCEPT !.remote = v] \in Conn
              /\ [c EXCEPT !.fin_ack_rcvd = v] \in Conn /\ [c EXCEPT !.send_fin = v] \in Conn
              /\ [c EXCEPT !.fin_rcvd = v] \in Conn /\ [c EXCEPT !.closeCalled = v] \in Conn
         /\ \A v \in TimerState :
              /\ [c EXCEPT !.connEstabTimer = v] \in Conn /\ [c EXCEPT !.synRexmitTimer = v] \in Conn
              /\ [c EXCEPT !.the2MSLTimer = v] \in Conn /\ [c EXCEPT !.rexmitTimer = v] \in Conn
         /\ \A v \in States :
              /\ [c EXCEPT !.state = v] \in Conn
         /\ \A v \in SockStates :
              /\ [c EXCEPT !.sock = v] \in Conn
         /\ \A v \in Events :
              /\ [c EXCEPT !.event = v] \in Conn
         /\ \A v \in RcvQueue :
              /\ [c EXCEPT !.rcvQueue = v] \in Conn
         /\ \A v \in Segments :
              /\ [c EXCEPT !.out = v] \in Conn
<1>1. ASSUME NEW v \in SeqNo PROVE [c EXCEPT !.iss = v] \in Conn
  BY DEF Conn
<1>2. ASSUME NEW v \in SeqNo PROVE [c EXCEPT !.snd_una = v] \in Conn
  BY DEF Conn
<1>3. ASSUME NEW v \in SeqNo PROVE [c EXCEPT !.snd_nxt = v] \in Conn
  BY DEF Conn
<1>4. ASSUME NEW v \in SeqNo PROVE [c EXCEPT !.snd_max = v] \in Conn
  BY DEF Conn
<1>5. ASSUME NEW v \in SeqNo PROVE [c EXCEPT !.snd_wl1 = v] \in Conn
  BY DEF Conn
<1>6. ASSUME NEW v \in SeqNo PROVE [c EXCEPT !.snd_wl2 = v] \in Conn
  BY DEF Conn
<1>7. ASSUME NEW v \in SeqNo PROVE [c EXCEPT !.rcv_nxt = v] \in Conn
  BY DEF Conn
<1>8. ASSUME NEW v \in SeqNo PROVE [c EXCEPT !.snd_fin_seq = v] \in Conn
  BY DEF Conn
<1>9. ASSUME NEW v \in SeqNo PROVE [c EXCEPT !.rcv_fin_seq = v] \in Conn
  BY DEF Conn
<1>10. ASSUME NEW v \in SeqNo PROVE [c EXCEPT !.begin = v] \in Conn
  BY DEF Conn
<1>11. ASSUME NEW v \in SeqNo PROVE [c EXCEPT !.end = v] \in Conn
  BY DEF Conn
<1>12. ASSUME NEW v \in Nat PROVE [c EXCEPT !.snd_wnd = v] \in Conn
  BY DEF Conn
<1>13. ASSUME NEW v \in Nat PROVE [c EXCEPT !.dupacks = v] \in Conn
  BY DEF Conn
<1>14. ASSUME NEW v \in Nat PROVE [c EXCEPT !.syn_rexmit_count = v] \in Conn
  BY DEF Conn
<1>15. ASSUME NEW v \in Nat PROVE [c EXCEPT !.rexmit_count = v] \in Conn
  BY DEF Conn
<1>16. ASSUME NEW v \in Nat PROVE [c EXCEPT !.written = v] \in Conn
  BY DEF Conn
<1>17. ASSUME NEW v \in BOOLEAN PROVE [c EXCEPT !.active = v] \in Conn
  BY DEF Conn
<1>18. ASSUME NEW v \in BOOLEAN PROVE [c EXCEPT !.remote = v] \in Conn
  BY DEF Conn
<1>19. ASSUME NEW v \in BOOLEAN PROVE [c EXCEPT !.fin_ack_rcvd = v] \in Conn
  BY DEF Conn
<1>20. ASSUME NEW v \in BOOLEAN PROVE [c EXCEPT !.send_fin = v] \in Conn
  BY DEF Conn
<1>21. ASSUME NEW v \in BOOLEAN PROVE [c EXCEPT !.fin_rcvd = v] \in Conn
  BY DEF Conn
<1>22. ASSUME NEW v \in BOOLEAN PROVE [c EXCEPT !.closeCalled = v] \in Conn
  BY DEF Conn
<1>23. ASSUME NEW v \in TimerState PROVE [c EXCEPT !.connEstabTimer = v] \in Conn
  BY DEF Conn
<1>24. ASSUME NEW v \in TimerState PROVE [c EXCEPT !.synRexmitTimer = v] \in Conn
  BY DEF Conn
<1>25. ASSUME NEW v \in TimerState PROVE [c EXCEPT !.the2MSLTimer = v] \in Conn
  BY DEF Conn
<1>26. ASSUME NEW v \in TimerState PROVE [c EXCEPT !.rexmitTimer = v] \in Conn
  BY DEF Conn
<1>27. ASSUME NEW v \in States PROVE [c EXCEPT !.state = v] \in Conn
  BY DEF Conn
<1>28. ASSUME NEW v \in SockStates PROVE [c EXCEPT !.sock = v] \in Conn
  BY DEF Conn
<1>29. ASSUME NEW v \in Events PROVE [c EXCEPT !.event = v] \in Conn
  BY DEF Conn
<1>30. ASSUME NEW v \in RcvQueue PROVE [c EXCEPT !.rcvQueue = v] \in Conn
  BY DEF Conn
<1>31. ASSUME NEW v \in Segments PROVE [c EXCEPT !.out = v] \in Conn
  BY DEF Conn
<1>32. ASSUME NEW v \in Nat PROVE [c EXCEPT !.peerClosedInds = v] \in Conn
  BY DEF Conn
<1>33. ASSUME NEW v \in Nat PROVE [c EXCEPT !.closedInds = v] \in Conn
  BY DEF Conn
<1> QED
  BY Zenon, <1>1, <1>2, <1>3, <1>4, <1>5, <1>6, <1>7, <1>8, <1>9, <1>10, <1>11,
     <1>12, <1>13, <1>14, <1>15, <1>16, <1>17, <1>18, <1>19, <1>20, <1>21, <1>22,
     <1>23, <1>24, <1>25, <1>26, <1>27, <1>28, <1>29, <1>30, <1>31, <1>32, <1>33

(***************************************************************************)
(* Methods that touch nothing of this.                                     *)
(***************************************************************************)
\* The fields the argument is about.
Core(c) == <<c.state, c.active, c.iss, c.snd_una, c.snd_max, c.end, c.snd_wnd,
             c.send_fin, c.snd_fin_seq, c.closeCalled, c.written>>

Keeps(c, d) ==
  /\ d \in Conn /\ Core(d) = Core(c)
  /\ d.snd_nxt = c.snd_nxt /\ d.rexmitTimer = c.rexmitTimer
  /\ d.sock = c.sock /\ d.event = c.event

\* A method that does nothing keeps all, and so do two that keep all.
LEMMA KeepsSteps ==
  ASSUME NEW c \in Conn
  PROVE  /\ Keeps(c, c)
         /\ \A d, f : Keeps(c, d) /\ Keeps(d, f) => Keeps(c, f)
         /\ \A d : Keeps(c, d) => d \in Conn
BY Zenon DEF Keeps

\* ASSERT and opp_error() only set err.
LEMMA AssertKeeps ==
  ASSUME NEW c \in Conn, NEW cond, NEW what \in Errors
  PROVE  Keeps(c, Assert(c, cond, what))
<1>1. Keeps(c, [c EXCEPT !.err = what])
  BY DEF Keeps, Core, Conn
<1> QED
  BY Zenon, <1>1, KeepsSteps DEF Assert

\* sendToIP() only hands over a segment.
LEMMA SendToIPKeeps ==
  ASSUME NEW c \in Conn, NEW seg \in Segment
  PROVE  Keeps(c, sendToIP(c, seg))
<1>1. Append(c.out, seg) \in Segments
  BY Fields DEF Segments
<1> QED
  BY ZenonT(60), <1>1 DEF Keeps, Core, Conn, sendToIP

\* A segment without text.
LEMMA SegIsSegment ==
  ASSUME NEW seq \in SeqNo, NEW ack \in SeqNo, NEW flags \in SUBSET Flags
  PROVE  Seg(seq, ack, flags) \in Segment
BY DEF Seg, Segment

\* Zero is a sequence number, and the sum and the difference of two are.
LEMMA Numbers ==
  /\ 0 \in SeqNo
  /\ \A x \in SeqNo : x \in Nat /\ x \in Int
  /\ \A x \in SeqNo, n \in Nat : SeqAdd(x, n) \in SeqNo
  /\ \A x, y \in SeqNo : SeqDiff(x, y) \in SeqNo
  /\ \A x \in SeqNo : SeqAdd(x, 1) \in SeqNo /\ SeqDiff(x, 1) \in SeqNo
BY SeqModAssumption DEF SeqNo, SeqAdd, SeqDiff

\* Sending an ACK, a FIN or a RST moves no variable.
LEMMA SendKeeps ==
  ASSUME NEW c \in Conn
  PROVE  /\ Keeps(c, sendAck(c)) /\ Keeps(c, sendFin(c))
         /\ \A seq \in SeqNo : Keeps(c, sendRst(c, seq))
         /\ \A seq, ack \in SeqNo : Keeps(c, sendRstAck(c, seq, ack))
<1>1. c.snd_nxt \in SeqNo /\ c.rcv_nxt \in SeqNo /\ 0 \in SeqNo
  BY Numbers DEF Conn
<1>2. {"ACK"} \in SUBSET Flags /\ {"ACK", "FIN"} \in SUBSET Flags
      /\ {"RST"} \in SUBSET Flags /\ {"RST", "ACK"} \in SUBSET Flags
  BY DEF Flags
<1> QED
  BY Zenon, <1>1, <1>2, SegIsSegment, SendToIPKeeps
     DEF sendAck, sendFin, sendRst, sendRstAck

\* The send queue forgets octets at its beginning.
LEMMA DiscardKeeps ==
  ASSUME NEW c \in Conn, NEW n \in SeqNo
  PROVE  Keeps(c, discardUpTo(c, n))
<1> DEFINE a == Assert(c, seqLE(c.begin, n) /\ seqLE(n, c.end), "discardUpTo")
<1>0. "discardUpTo" \in Errors
  BY DEF Errors
<1>1. Keeps(c, a)
  BY Zenon, <1>0, AssertKeeps
<1> HIDE DEF a
<1>2. a \in Conn
  BY Zenon, <1>1, KeepsSteps
<1>3. Keeps(a, [a EXCEPT !.begin = n])
  BY <1>2 DEF Keeps, Core, Conn
<1>4. Keeps(c, [a EXCEPT !.begin = n])
  BY Zenon, <1>1, <1>3, KeepsSteps
<1> QED
  BY Zenon, <1>4 DEF discardUpTo, a

\* The congestion control variables are the flavour's own.
LEMMA CwndKeeps ==
  ASSUME NEW c \in Conn
  PROVE  /\ \A n \in Nat : Keeps(c, setCwnd(c, n))
         /\ Keeps(c, growCwnd(c)) /\ Keeps(c, initialize(c))
         /\ Keeps(c, recalculateSlowStartThreshold(c))
<1>1. ASSUME NEW n \in Nat PROVE Keeps(c, setCwnd(c, n))
  BY ConnectionAssumption DEF Keeps, Core, Conn, setCwnd, Lesser
<1>2. Keeps(c, initialize(c))
  BY <1>1, ConnectionAssumption DEF initialize
<1>3. Keeps(c, growCwnd(c))
  <2>1. c.snd_cwnd \in Nat /\ c.ssthresh \in Nat
    BY DEF Conn
  <2>2. Greater(1, c.snd_cwnd) \in Nat \ {0} /\ MSS * MSS \in Nat
    BY <2>1, ConnectionAssumption DEF Greater
  <2>3. (MSS * MSS) \div Greater(1, c.snd_cwnd) \in Nat
    BY <2>2
  <2>4. Greater(1, (MSS * MSS) \div Greater(1, c.snd_cwnd)) \in Nat
    BY <2>3 DEF Greater
  <2> QED
    BY <1>1, <2>1, <2>4, ConnectionAssumption DEF growCwnd
<1>4. Keeps(c, recalculateSlowStartThreshold(c))
  <2>1. c.snd_cwnd \in Nat /\ c.snd_wnd \in Nat
    BY DEF Conn
  <2>2. Greater(Lesser(c.snd_cwnd, c.snd_wnd) \div 2, 2 * MSS) \in Nat
    BY <2>1, ConnectionAssumption DEF Greater, Lesser
  <2> QED
    BY <2>2 DEF Keeps, Core, Conn, recalculateSlowStartThreshold
<1> QED
  BY <1>1, <1>2, <1>3, <1>4

\* The other timers are timers of their own.
LEMMA TimersKeep ==
  ASSUME NEW c \in Conn
  PROVE  /\ Keeps(c, schedule2MSL(c)) /\ Keeps(c, scheduleConnEstab(c))
         /\ Keeps(c, startSynRexmitTimer(c))
<1> DEFINE t == Assert(c, c.the2MSLTimer = "idle", "2MSL scheduled twice")
           e == Assert(c, c.connEstabTimer = "idle", "CONN-ESTAB scheduled twice")
           r == Assert(c, c.synRexmitTimer # "NULL", "SYN-REXMIT deleted")
<1>0. /\ "2MSL scheduled twice" \in Errors
      /\ "CONN-ESTAB scheduled twice" \in Errors
      /\ "SYN-REXMIT deleted" \in Errors
  BY DEF Errors
<1>b. "scheduled" \in TimerState
  BY DEF TimerState
<1>1. Keeps(c, t) /\ Keeps(c, e) /\ Keeps(c, r)
  BY Zenon, <1>0, AssertKeeps
<1> HIDE DEF t, e, r
<1>a. t \in Conn /\ e \in Conn /\ r \in Conn
  BY Zenon, <1>1, KeepsSteps
<1>2. Keeps(t, [t EXCEPT !.the2MSLTimer = "scheduled"])
  BY <1>a, <1>b DEF Keeps, Core, Conn
<1>3. Keeps(e, [e EXCEPT !.connEstabTimer = "scheduled"])
  BY <1>a, <1>b DEF Keeps, Core, Conn
<1>4. Keeps(r, [r EXCEPT !.syn_rexmit_count = 0, !.synRexmitTimer = "scheduled"])
  <2>1. [r EXCEPT !.syn_rexmit_count = 0, !.synRexmitTimer = "scheduled"] \in Conn
    BY Zenon, <1>a, <1>b, Updates
  <2> QED BY SMTT(30), <1>a, <2>1 DEF Keeps, Core, Conn
<1>5. /\ Keeps(c, [t EXCEPT !.the2MSLTimer = "scheduled"])
      /\ Keeps(c, [e EXCEPT !.connEstabTimer = "scheduled"])
      /\ Keeps(c, [r EXCEPT !.syn_rexmit_count = 0, !.synRexmitTimer = "scheduled"])
  BY <1>1, <1>2, <1>3, <1>4, KeepsSteps
<1> QED
  BY Zenon, <1>5 DEF schedule2MSL, scheduleConnEstab, startSynRexmitTimer, t, e, r

(***************************************************************************)
(* Methods that touch one thing: what the application knows, the REXMIT    *)
(* timer, or snd_nxt.                                                      *)
(***************************************************************************)
KeepsButSock(c, d) ==
  /\ d \in Conn /\ Core(d) = Core(c)
  /\ d.snd_nxt = c.snd_nxt /\ d.rexmitTimer = c.rexmitTimer /\ d.event = c.event

\* An indication only changes what the application sees; after CLOSED and
\* after a failure it knows that the connection is gone, and it does not forget.
LEMMA IndicationsKeep ==
  ASSUME NEW c \in Conn
  PROVE  /\ KeepsButSock(c, sendEstabIndicationToApp(c))
         /\ \A n \in Nat : Keeps(c, indicateData(c, n))
         /\ KeepsButSock(c, indicatePeerClosed(c))
         /\ Told(c) => Told(indicatePeerClosed(c))
         /\ KeepsButSock(c, indicateClosed(c)) /\ Told(indicateClosed(c))
         /\ KeepsButSock(c, indicateFailure(c)) /\ Told(indicateFailure(c))
<1>0. {"CONNECTED", "PEER_CLOSED", "CLOSED", "SOCKERROR"} \subseteq SockStates
  BY DEF SockStates
<1>a. /\ c.peerClosedInds + 1 \in Nat /\ c.closedInds + 1 \in Nat
      /\ \A n \in Nat : c.delivered + n \in Nat
  BY Fields
<1>1. KeepsButSock(c, sendEstabIndicationToApp(c))
  BY <1>0 DEF KeepsButSock, Core, Conn, sendEstabIndicationToApp
<1>2. ASSUME NEW n \in Nat PROVE Keeps(c, indicateData(c, n))
  <2>1. ASSUME NEW k \in Nat PROVE Keeps(c, [c EXCEPT !.delivered = k])
    BY DEF Keeps, Core, Conn
  <2> QED BY <1>a, <2>1 DEF indicateData
<1>3. ASSUME NEW v \in SockStates, NEW k \in Nat
      PROVE  /\ KeepsButSock(c, [c EXCEPT !.sock = v, !.peerClosedInds = k])
             /\ [c EXCEPT !.sock = v, !.peerClosedInds = k].sock = v
  <2> DEFINE x == [c EXCEPT !.sock = v]
             y == [x EXCEPT !.peerClosedInds = k]
  <2>1. x \in Conn /\ KeepsButSock(c, x) /\ x.sock = v
    BY DEF KeepsButSock, Core, Conn
  <2> HIDE DEF x
  <2>2. y \in Conn
    BY Zenon, <2>1, Updates
  <2>3. Keeps(x, y)
    BY <2>1, <2>2 DEF Keeps, Core, Conn
  <2> HIDE DEF y
  <2>4. KeepsButSock(c, y) /\ y.sock = v
    BY <2>1, <2>3 DEF KeepsButSock, Keeps
  <2> QED BY <2>4 DEF y, x
<1>4. ASSUME NEW v \in SockStates, NEW k \in Nat
      PROVE  /\ KeepsButSock(c, [c EXCEPT !.sock = v, !.closedInds = k])
             /\ [c EXCEPT !.sock = v, !.closedInds = k].sock = v
  <2> DEFINE x == [c EXCEPT !.sock = v]
             y == [x EXCEPT !.closedInds = k]
  <2>1. x \in Conn /\ KeepsButSock(c, x) /\ x.sock = v
    BY DEF KeepsButSock, Core, Conn
  <2> HIDE DEF x
  <2>2. y \in Conn
    BY Zenon, <2>1, Updates
  <2>3. Keeps(x, y)
    BY <2>1, <2>2 DEF Keeps, Core, Conn
  <2> HIDE DEF y
  <2>4. KeepsButSock(c, y) /\ y.sock = v
    BY <2>1, <2>3 DEF KeepsButSock, Keeps
  <2> QED BY <2>4 DEF y, x
<1>5. KeepsButSock(c, indicatePeerClosed(c)) /\ (Told(c) => Told(indicatePeerClosed(c)))
  <2> DEFINE v == IF c.sock = "CONNECTED" THEN "PEER_CLOSED" ELSE "CLOSED"
  <2>1. v \in SockStates /\ (Told(c) => v = "CLOSED")
    BY <1>0 DEF Told
  <2>2. indicatePeerClosed(c) = [c EXCEPT !.sock = v, !.peerClosedInds = c.peerClosedInds + 1]
    BY Zenon DEF indicatePeerClosed
  <2> HIDE DEF v
  <2>3. /\ KeepsButSock(c, indicatePeerClosed(c))
        /\ indicatePeerClosed(c).sock = v
    BY ZenonT(60), <1>a, <1>3, <2>1, <2>2
  <2> QED BY <2>1, <2>3 DEF Told
<1>6. /\ KeepsButSock(c, indicateClosed(c)) /\ Told(indicateClosed(c))
      /\ KeepsButSock(c, indicateFailure(c)) /\ Told(indicateFailure(c))
  BY Zenon, <1>0, <1>a, <1>4 DEF indicateClosed, indicateFailure, Told
<1> QED
  BY <1>1, <1>2, <1>5, <1>6

KeepsButTimer(c, d) ==
  /\ d \in Conn /\ Core(d) = Core(c)
  /\ d.snd_nxt = c.snd_nxt /\ d.sock = c.sock /\ d.event = c.event

\* The REXMIT timer is scheduled and cancelled alone.
LEMMA RexmitTimerKeeps ==
  ASSUME NEW c \in Conn
  PROVE  /\ KeepsButTimer(c, scheduleRexmit(c)) /\ scheduleRexmit(c).rexmitTimer = "scheduled"
         /\ KeepsButTimer(c, startRexmitTimer(c)) /\ startRexmitTimer(c).rexmitTimer = "scheduled"
         /\ KeepsButTimer(c, cancelRexmit(c)) /\ cancelRexmit(c).rexmitTimer = "idle"
<1> DEFINE a == Assert(c, c.rexmitTimer = "idle", "REXMIT scheduled twice")
           b == [a EXCEPT !.rexmitTimer = "scheduled"]
           d == [b EXCEPT !.rexmit_count = 0]
<1>0. "REXMIT scheduled twice" \in Errors /\ "scheduled" \in TimerState /\ "idle" \in TimerState
  BY DEF Errors, TimerState
<1>1. Keeps(c, a)
  BY Zenon, <1>0, AssertKeeps
<1> HIDE DEF a
<1>2. a \in Conn /\ KeepsButTimer(c, a)
  BY <1>1 DEF Keeps, KeepsButTimer
<1>3. KeepsButTimer(a, b) /\ b.rexmitTimer = "scheduled"
  BY ZenonT(60), <1>0, <1>2 DEF KeepsButTimer, Core, Conn
<1> HIDE DEF b
<1>4. KeepsButTimer(c, b) /\ b \in Conn
  BY <1>2, <1>3 DEF KeepsButTimer
<1>5. KeepsButTimer(b, d) /\ d.rexmitTimer = b.rexmitTimer
  BY <1>4 DEF KeepsButTimer, Core, Conn
<1> HIDE DEF d
<1>6. KeepsButTimer(c, d) /\ d.rexmitTimer = "scheduled"
  BY <1>3, <1>4, <1>5 DEF KeepsButTimer
<1>7. KeepsButTimer(c, cancelRexmit(c)) /\ cancelRexmit(c).rexmitTimer = "idle"
  BY ZenonT(60), <1>0 DEF KeepsButTimer, Core, Conn, cancelRexmit
<1>8. scheduleRexmit(c) = b /\ startRexmitTimer(c) = d
  BY Zenon DEF scheduleRexmit, startRexmitTimer, a, b, d
<1> QED
  BY <1>3, <1>4, <1>6, <1>7, <1>8

\* After dataSent() the timer is running, whatever the flavour.
LEMMA DataSentKeeps ==
  ASSUME NEW c \in Conn
  PROVE  KeepsButTimer(c, dataSent(c)) /\ dataSent(c).rexmitTimer = "scheduled"
<1>1. cancelRexmit(c) \in Conn
  BY RexmitTimerKeeps DEF KeepsButTimer
<1>2. /\ KeepsButTimer(c, scheduleRexmit(cancelRexmit(c)))
      /\ scheduleRexmit(cancelRexmit(c)).rexmitTimer = "scheduled"
  BY <1>1, RexmitTimerKeeps DEF KeepsButTimer
<1>3. KeepsButTimer(c, c)
  BY DEF KeepsButTimer
<1> QED
  BY <1>2, <1>3, RexmitTimerKeeps DEF dataSent

(***************************************************************************)
(* Counting from iss.                                                      *)
(***************************************************************************)
\* Half of the number space.
LEMMA Half == SeqMod \div 2 \in Nat /\ 2 * (SeqMod \div 2) = SeqMod
BY SeqModAssumption

\* Differences without the remainder.
LEMMA Difference ==
  ASSUME NEW x \in SeqNo, NEW i \in SeqNo
  PROVE  /\ SeqDiff(x, i) \in SeqNo /\ SeqDiff(x, i) \in Nat /\ SeqDiff(x, i) < SeqMod
         /\ SeqDiff(x, i) = IF i <= x THEN x - i ELSE x - i + SeqMod
<1>1. SeqMod \in Nat /\ x \in Nat /\ i \in Nat /\ x < SeqMod /\ i < SeqMod
  BY SeqModAssumption DEF SeqNo
<1>2. CASE i <= x
  <2>1. x - i \in Int /\ 0 <= x - i /\ x - i < SeqMod
    BY <1>1, <1>2
  <2>2. (x - i) % SeqMod = x - i
    BY <1>1, <2>1
  <2> QED BY <1>1, <1>2, <2>1, <2>2 DEF SeqDiff, SeqNo
<1>3. CASE x < i
  <2>1. x - i \in Int /\ -SeqMod <= x - i /\ x - i < 0
    BY <1>1, <1>3
  <2>2. (x - i) % SeqMod = x - i + SeqMod
    BY <1>1, <2>1
  <2> QED BY <1>1, <1>3, <2>1, <2>2 DEF SeqDiff, SeqNo
<1> QED BY <1>1, <1>2, <1>3

\* Two numbers with the same distance from iss are the same.
LEMMA SameDistance ==
  ASSUME NEW x \in SeqNo, NEW y \in SeqNo, NEW i \in SeqNo
  PROVE  SeqDiff(x, i) = SeqDiff(y, i) <=> x = y
<1>1. SeqMod \in Nat /\ {x, y, i} \subseteq Nat /\ x < SeqMod /\ y < SeqMod /\ i < SeqMod
  BY SeqModAssumption DEF SeqNo
<1> QED BY <1>1, Difference

\* n further from a number is n further from iss.
LEMMA Farther ==
  ASSUME NEW x \in SeqNo, NEW i \in SeqNo, NEW n \in Nat, SeqDiff(x, i) + n < SeqMod
  PROVE  SeqAdd(x, n) \in SeqNo /\ SeqDiff(SeqAdd(x, n), i) = SeqDiff(x, i) + n
<1>1. SeqMod \in Nat /\ x \in Nat /\ i \in Nat /\ x < SeqMod /\ i < SeqMod
  BY SeqModAssumption DEF SeqNo
<1> DEFINE y == SeqAdd(x, n)
<1>2. x + n < 2 * SeqMod
  BY <1>1, Difference
<1>3. y \in SeqNo /\ (y = x + n \/ y = x + n - SeqMod)
  <2>1. x + n < SeqMod => (x + n) % SeqMod = x + n
    BY <1>1
  <2>2. x + n >= SeqMod => (x + n) % SeqMod = x + n - SeqMod
    BY <1>1, <1>2
  <2> QED BY <1>1, <1>2, <2>1, <2>2 DEF SeqAdd, SeqNo
<1> HIDE DEF y
<1>4. y \in Nat /\ y < SeqMod
  BY <1>1, <1>3 DEF SeqNo
<1>5. SeqDiff(y, i) = SeqDiff(x, i) + n
  <2>1. /\ SeqDiff(y, i) = IF i <= y THEN y - i ELSE y - i + SeqMod
        /\ SeqDiff(x, i) = IF i <= x THEN x - i ELSE x - i + SeqMod
    BY <1>3, Difference
  <2> QED BY <1>1, <1>3, <1>4, <2>1
<1> QED BY <1>3, <1>5 DEF y

\* The distance of two numbers.
LEMMA Apart ==
  ASSUME NEW x \in SeqNo, NEW y \in SeqNo, NEW i \in SeqNo
  PROVE  SeqDiff(y, x) = IF SeqDiff(x, i) <= SeqDiff(y, i)
                         THEN SeqDiff(y, i) - SeqDiff(x, i)
                         ELSE SeqDiff(y, i) - SeqDiff(x, i) + SeqMod
<1>1. SeqMod \in Nat /\ {x, y, i} \subseteq Nat /\ x < SeqMod /\ y < SeqMod /\ i < SeqMod
  BY SeqModAssumption DEF SeqNo
<1> QED BY <1>1, Difference

\* Within half of the number space the comparisons are those of the distances.
LEMMA Compare ==
  ASSUME NEW x \in SeqNo, NEW y \in SeqNo, NEW i \in SeqNo,
         SeqDiff(x, i) < SeqMod \div 2, SeqDiff(y, i) < SeqMod \div 2
  PROVE  /\ seqLE(x, y) <=> SeqDiff(x, i) <= SeqDiff(y, i)
         /\ seqLess(x, y) <=> SeqDiff(x, i) < SeqDiff(y, i)
         /\ seqGE(x, y) <=> SeqDiff(x, i) >= SeqDiff(y, i)
         /\ seqGreater(x, y) <=> SeqDiff(x, i) > SeqDiff(y, i)
<1> DEFINE X == SeqDiff(x, i)
           Y == SeqDiff(y, i)
<1>1. /\ X \in Nat /\ Y \in Nat /\ SeqMod \in Nat
      /\ SeqDiff(y, x) = (IF X <= Y THEN Y - X ELSE Y - X + SeqMod)
      /\ SeqDiff(x, y) = (IF Y <= X THEN X - Y ELSE X - Y + SeqMod)
      /\ (X = Y <=> x = y)
  BY Difference, Apart, SameDistance, SeqModAssumption
<1> HIDE DEF X, Y
<1>2. X < SeqMod \div 2 /\ Y < SeqMod \div 2
  BY DEF X, Y
<1>3. /\ SeqDiff(y, x) < SeqMod \div 2 <=> X <= Y
      /\ SeqDiff(x, y) < SeqMod \div 2 <=> Y <= X
  BY <1>1, <1>2, Half
<1>4. /\ seqLE(x, y) <=> X <= Y
      /\ seqLess(x, y) <=> X < Y
      /\ seqGE(x, y) <=> X >= Y
      /\ seqGreater(x, y) <=> X > Y
  BY <1>1, <1>3 DEF seqLE, seqLess, seqGE, seqGreater
<1> QED BY <1>4 DEF X, Y

(***************************************************************************)
(* Sending.                                                                *)
(***************************************************************************)
\* The quotient and what it leaves.
LEMMA Division ==
  ASSUME NEW b \in Nat, NEW m \in Nat \ {0}
  PROVE  b \div m \in Nat /\ (b \div m) * m <= b /\ b < (b \div m) * m + m
OBVIOUS

\* A smaller factor makes a smaller product.
LEMMA Product ==
  ASSUME NEW j \in Nat, NEW k \in Nat, j <= k, NEW m \in Nat
  PROVE  j * m \in Nat /\ k * m \in Nat /\ j * m <= k * m
OBVIOUS

\* The segments of one call lie within its octets.
LEMMA SegmentsWithin ==
  ASSUME NEW bytes \in Nat, NEW i \in 1 .. SegmentCount(bytes)
  PROVE  SegmentCount(bytes) \in Nat /\ (i - 1) * MSS \in Nat /\ (i - 1) * MSS <= bytes
<1> DEFINE k == SegmentCount(bytes)
<1>0. MSS \in Nat \ {0} /\ MSS \in Nat
  BY ConnectionAssumption
<1>1. CASE bytes = 0
  <2>1. k = 1 /\ i = 1
    BY <1>1 DEF SegmentCount
  <2> QED BY <1>0, <1>1, <2>1
<1>2. CASE bytes # 0
  <2> DEFINE b == bytes + MSS - 1
  <2>1. b \in Nat
    BY <1>0
  <2>2. k = b \div MSS
    BY <1>2 DEF SegmentCount
  <2>3. k \in Nat /\ k * MSS <= b
    BY <1>0, <2>1, <2>2, Division
  <2> HIDE DEF k
  <2>4. i \in 1 .. k
    BY DEF k
  <2>5. i - 1 \in Nat /\ k - 1 \in Nat /\ i - 1 <= k - 1
    BY <2>3, <2>4
  <2>6. (k - 1) * MSS = k * MSS - MSS
    BY <1>0, <2>3
  <2>7. (k - 1) * MSS < bytes
    <3> DEFINE p == k * MSS
    <3>1. p \in Int
      BY <1>0, <2>3
    <3> HIDE DEF p
    <3>2. p <= bytes + MSS - 1
      BY <2>3 DEF p
    <3> QED BY <1>0, <2>6, <3>1, <3>2 DEF p
  <2>8. (i - 1) * MSS \in Nat /\ (k - 1) * MSS \in Nat /\ (i - 1) * MSS <= (k - 1) * MSS
    BY <1>0, <2>5, Product
  <2> QED BY <2>3, <2>7, <2>8 DEF k
<1> QED BY <1>1, <1>2

KeepsButNxt(c, d) ==
  /\ d \in Conn /\ Core(d) = Core(c)
  /\ d.rexmitTimer = c.rexmitTimer /\ d.sock = c.sock /\ d.event = c.event

\* sendSegment() moves snd_nxt over the octets, and over the FIN when it is due.
LEMMA SendSegmentsKeeps ==
  ASSUME NEW c \in Conn, NEW bytes \in Nat
  PROVE  /\ KeepsButNxt(c, sendSegments(c, bytes))
         /\ sendSegments(c, bytes).snd_nxt
              = IF c.send_fin /\ SeqAdd(c.snd_nxt, bytes) = c.snd_fin_seq
                THEN SeqAdd(SeqAdd(c.snd_nxt, bytes), 1) ELSE SeqAdd(c.snd_nxt, bytes)
<1> DEFINE nxt == SeqAdd(c.snd_nxt, bytes)
           fin == c.send_fin /\ nxt = c.snd_fin_seq
           count == SegmentCount(bytes)
           seg(i) == [seq   |-> SeqAdd(c.snd_nxt, (i - 1) * MSS),
                      ack   |-> c.rcv_nxt,
                      len   |-> Lesser(MSS, bytes - (i - 1) * MSS),
                      flags |-> IF fin /\ i = count THEN {"ACK", "FIN"} ELSE {"ACK"}]
           a == Assert(c, seqLE(c.begin, c.snd_nxt) /\ seqLE(nxt, c.end),
                       "createSegmentWithBytes")
           v == IF fin THEN SeqAdd(nxt, 1) ELSE nxt
           w == a.out \o [i \in 1 .. count |-> seg(i)]
           d == [a EXCEPT !.snd_nxt = v, !.out = w]
<1>0. "createSegmentWithBytes" \in Errors
  BY DEF Errors
<1>1. Keeps(c, a)
  BY Zenon, <1>0, AssertKeeps
<1>2. a \in Conn /\ KeepsButNxt(c, a) /\ a.out \in Seq(Segment)
  <2> HIDE DEF a
  <2>1. a \in Conn /\ KeepsButNxt(c, a)
    BY <1>1 DEF Keeps, KeepsButNxt
  <2> QED BY <2>1, Fields
<1>3. v \in SeqNo
  BY Zenon, Fields, Numbers
<1>4. count \in Nat
  <2>1. bytes # 0 => bytes + MSS - 1 \in Nat /\ MSS \in Nat \ {0}
    BY ConnectionAssumption
  <2> QED BY <2>1, Division DEF SegmentCount
<1>5. ASSUME NEW i \in 1 .. count PROVE seg(i) \in Segment
  <2>1. (i - 1) * MSS \in Nat /\ (i - 1) * MSS <= bytes
    BY SegmentsWithin
  <2>2. SeqAdd(c.snd_nxt, (i - 1) * MSS) \in SeqNo /\ c.rcv_nxt \in SeqNo
    BY Zenon, <2>1, Fields, Numbers
  <2>3. Lesser(MSS, bytes - (i - 1) * MSS) \in Nat
    <3> DEFINE p == (i - 1) * MSS
    <3> HIDE DEF p
    <3>1. Lesser(MSS, bytes - p) \in Nat
      BY <2>1, ConnectionAssumption DEF Lesser, p
    <3> QED BY <3>1 DEF p
  <2>4. (IF fin /\ i = count THEN {"ACK", "FIN"} ELSE {"ACK"}) \in SUBSET Flags
    BY DEF Flags
  <2> QED BY <2>2, <2>3, <2>4 DEF Segment
<1> HIDE DEF fin, seg, a, v
<1>6. w \in Segments
  <2> HIDE DEF count
  <2>1. [i \in 1 .. count |-> seg(i)] \in Seq(Segment)
    BY <1>4, <1>5
  <2> QED BY <1>2, <2>1 DEF Segments
<1> HIDE DEF w
<1>7. KeepsButNxt(a, d) /\ d.snd_nxt = v
  <2> DEFINE x == [a EXCEPT !.snd_nxt = v]
             y == [x EXCEPT !.out = w]
  <2>1. x \in Conn /\ KeepsButNxt(a, x) /\ x.snd_nxt = v
    BY ZenonT(60), <1>2, <1>3 DEF KeepsButNxt, Core, Conn
  <2> HIDE DEF x
  <2>2. y \in Conn
    BY Zenon, <1>6, <2>1, Updates
  <2>3. KeepsButNxt(x, y) /\ y.snd_nxt = x.snd_nxt
    BY <2>1, <2>2 DEF KeepsButNxt, Core, Conn
  <2> HIDE DEF y
  <2>4. KeepsButNxt(a, y) /\ y.snd_nxt = v
    BY <2>1, <2>3 DEF KeepsButNxt
  <2> QED BY <2>4 DEF y, x
<1> HIDE DEF d
<1>8. KeepsButNxt(c, d) /\ d.snd_nxt = v
  BY <1>2, <1>7 DEF KeepsButNxt
<1>9. sendSegments(c, bytes) = d
  BY Zenon DEF sendSegments, d, w, v, a, seg, fin
<1> QED BY <1>8, <1>9 DEF v, fin

(***************************************************************************)
(* The send methods, on any connection.                                    *)
(***************************************************************************)
\* What no send method and no ACK changes.
Base(c) == <<c.state, c.active, c.iss, c.end, c.send_fin, c.snd_fin_seq,
             c.closeCalled, c.written>>

Moves(c, d) == d \in Conn /\ Base(d) = Base(c) /\ d.sock = c.sock /\ d.event = c.event

\* Where snd_nxt comes to, n octets after a number.
Sent(c, from, n) ==
  IF c.send_fin /\ SeqAdd(from, n) = c.snd_fin_seq
  THEN SeqAdd(SeqAdd(from, n), 1) ELSE SeqAdd(from, n)

SentMore(c, d) ==
  \/ d.snd_max = c.snd_max /\ d.rexmitTimer = c.rexmitTimer
  \/ /\ \E n \in Nat : 0 < n /\ n <= bytesToSend(c) /\ d.snd_max = Sent(c, c.snd_max, n)
     /\ d.rexmitTimer = "scheduled"

\* sendData() goes on from snd_max, with no more octets than bytesToSend.
LEMMA SendDataMoves ==
  ASSUME NEW c \in Conn
  PROVE  LET d == sendData(c)
         IN /\ Moves(c, d) /\ SentMore(c, d)
            /\ d.snd_una = c.snd_una /\ d.snd_wnd = c.snd_wnd /\ d.snd_nxt = d.snd_max
<1> DEFINE k == bytesToSend(c)
           n == IF k <= MSS THEN k ELSE (k \div MSS) * MSS
           a == [c EXCEPT !.snd_nxt = c.snd_max]
           b == sendSegments(a, n)
           e == [b EXCEPT !.snd_max = b.snd_nxt]
<1>1. /\ a \in Conn /\ Core(a) = Core(c) /\ a.rexmitTimer = c.rexmitTimer
      /\ a.sock = c.sock /\ a.event = c.event /\ a.snd_nxt = c.snd_max
  BY DEF Conn, Core
<1>2. sendData(c) = IF canSendData(c) THEN dataSent(e) ELSE a
  BY Zenon DEF sendData
<1> HIDE DEF a
<1>3. CASE ~ canSendData(c)
  BY <1>1, <1>2, <1>3 DEF Core, Moves, Base, SentMore
<1>4. CASE canSendData(c)
  <2>1. k \in Int /\ k > 0
    <3>1. c.snd_wnd \in Nat /\ c.snd_cwnd \in Nat
      BY Fields
    <3>2. MaxWindow(c) \in Int
      BY <3>1 DEF MaxWindow, Lesser
    <3>3. SeqDiff(c.snd_max, c.snd_una) \in Int /\ SeqDiff(c.end, c.snd_max) \in Int
      BY Zenon, Fields, Numbers
    <3>4. getBytesAvailable(c, c.snd_max) \in Int
      BY <3>3 DEF getBytesAvailable
    <3>5. k \in Int
      BY <3>2, <3>3, <3>4 DEF bytesToSend, Lesser
    <3> QED BY <1>4, <3>5 DEF canSendData
  <2> HIDE DEF k
  <2>2. n \in Nat /\ 0 < n /\ n <= k
    <3>0. MSS \in Nat \ {0} /\ k \in Nat
      BY <2>1, ConnectionAssumption
    <3>1. CASE k <= MSS
      BY <2>1, <3>0, <3>1
    <3>2. CASE k > MSS
      <4>1. k \div MSS \in Nat /\ (k \div MSS) * MSS <= k /\ k < (k \div MSS) * MSS + MSS
        BY <3>0, Division
      <4>2. (k \div MSS) * MSS \in Nat
        BY <3>0, <4>1
      <4> DEFINE p == (k \div MSS) * MSS
      <4> HIDE DEF p
      <4>3. p \in Nat /\ p <= k /\ k < p + MSS
        BY <4>1, <4>2 DEF p
      <4>4. n = p
        BY <3>0, <3>2 DEF p
      <4> QED BY <3>0, <3>2, <4>3, <4>4
    <3> QED BY <3>0, <3>1, <3>2
  <2> HIDE DEF n
  <2>3. KeepsButNxt(a, b) /\ b.snd_nxt = Sent(a, a.snd_nxt, n)
    BY <1>1, <2>2, SendSegmentsKeeps DEF Sent
  <2> HIDE DEF b
  <2>4. b.snd_nxt = Sent(c, c.snd_max, n)
    BY <1>1, <2>3 DEF Core, Sent
  <2>5. b \in Conn /\ b.snd_nxt \in SeqNo
    BY <2>3, Fields DEF KeepsButNxt
  <2>6. /\ e \in Conn /\ Base(e) = Base(b) /\ e.sock = b.sock /\ e.event = b.event
        /\ e.snd_nxt = b.snd_nxt /\ e.snd_max = b.snd_nxt
        /\ e.snd_una = b.snd_una /\ e.snd_wnd = b.snd_wnd
    BY <2>5 DEF Conn, Base
  <2> HIDE DEF e
  <2>7. KeepsButTimer(e, dataSent(e)) /\ dataSent(e).rexmitTimer = "scheduled"
    BY <2>6, DataSentKeeps
  <2>8. Base(b) = Base(c) /\ b.snd_una = c.snd_una /\ b.snd_wnd = c.snd_wnd
        /\ b.sock = c.sock /\ b.event = c.event
    BY <1>1, <2>3 DEF KeepsButNxt, Core, Base
  <2>9. /\ Moves(c, dataSent(e)) /\ dataSent(e).snd_una = c.snd_una
        /\ dataSent(e).snd_wnd = c.snd_wnd /\ dataSent(e).snd_nxt = dataSent(e).snd_max
        /\ dataSent(e).snd_max = Sent(c, c.snd_max, n)
    BY <2>4, <2>6, <2>7, <2>8 DEF KeepsButTimer, Core, Base, Moves
  <2>10. SentMore(c, dataSent(e))
    BY <2>2, <2>7, <2>9 DEF SentMore, k
  <2> QED BY <1>2, <1>4, <2>9, <2>10
<1> QED BY <1>3, <1>4

\* Octets from snd_una on are sent again, up to snd_max at most.
Resends(c, d) ==
  /\ Moves(c, d)
  /\ d.snd_una = c.snd_una /\ d.snd_max = c.snd_max /\ d.snd_wnd = c.snd_wnd
  /\ d.rexmitTimer = c.rexmitTimer
  /\ \E n \in Nat : n <= SeqDiff(c.snd_max, c.snd_una) /\ d.snd_nxt = Sent(c, c.snd_una, n)

\* sendSegment() from snd_una on.
LEMMA SendAgain ==
  ASSUME NEW c \in Conn, NEW a, Keeps(c, a), NEW n \in Nat,
         n <= SeqDiff(c.snd_max, c.snd_una)
  PROVE  Resends(c, sendSegments([a EXCEPT !.snd_nxt = c.snd_una], n))
<1> DEFINE b == [a EXCEPT !.snd_nxt = c.snd_una]
           d == sendSegments(b, n)
<1>1. a \in Conn /\ c.snd_una \in SeqNo
  BY Fields DEF Keeps
<1>2. /\ b \in Conn /\ Core(b) = Core(a) /\ b.rexmitTimer = a.rexmitTimer
      /\ b.sock = a.sock /\ b.event = a.event /\ b.snd_nxt = c.snd_una
  BY <1>1 DEF Conn, Core
<1> HIDE DEF b
<1>3. KeepsButNxt(b, d) /\ d.snd_nxt = Sent(b, b.snd_nxt, n)
  BY <1>2, SendSegmentsKeeps DEF Sent
<1> HIDE DEF d
<1>4. d.snd_nxt = Sent(c, c.snd_una, n)
  BY <1>2, <1>3 DEF Keeps, Core, Sent
<1>5. Resends(c, d)
  BY <1>2, <1>3, <1>4 DEF Resends, Moves, Base, Keeps, KeepsButNxt, Core
<1> QED BY <1>5 DEF d, b

\* Both kinds of retransmission.
LEMMA RetransmitResends ==
  ASSUME NEW c \in Conn
  PROVE  Resends(c, retransmitOneSegment(c)) /\ Resends(c, retransmitData(c))
<1> DEFINE m == SeqDiff(c.snd_max, c.snd_una)
           n == Lesser(MSS, m)
           a == Assert(c, n # 0, "retransmitOneSegment")
           k == Lesser(m, getBytesAvailable(c, c.snd_una))
           b == Assert(c, m # 0, "retransmitData")
           d == sendSegments([b EXCEPT !.snd_nxt = c.snd_una], k)
           cond == d.snd_nxt = c.snd_max \/ (c.send_fin /\ d.snd_nxt = SeqAdd(c.snd_fin_seq, 1))
           e == Assert(d, cond, "retransmitData loops")
<1>0. /\ "retransmitOneSegment" \in Errors /\ "retransmitData" \in Errors
      /\ "retransmitData loops" \in Errors
  BY DEF Errors
<1>1. Keeps(c, a) /\ Keeps(c, b)
  BY Zenon, <1>0, AssertKeeps
<1> HIDE DEF a, b
<1>2. m \in Nat /\ SeqDiff(c.end, c.snd_una) \in Nat
  BY Zenon, Fields, Numbers
<1>3. n \in Nat /\ n <= m
  BY <1>2, ConnectionAssumption DEF Lesser
<1>4. k \in Nat /\ k <= m
  BY <1>2 DEF Lesser, getBytesAvailable
<1>5. Resends(c, sendSegments([a EXCEPT !.snd_nxt = c.snd_una], n))
  BY <1>1, <1>3, SendAgain
<1>6. Resends(c, d)
  BY <1>1, <1>4, SendAgain
<1> HIDE DEF d
<1>7. d \in Conn
  BY <1>6 DEF Resends, Moves
<1>8. Keeps(d, e)
  BY Zenon, <1>0, <1>7, AssertKeeps
<1> HIDE DEF e
<1>9. Resends(c, e)
  BY <1>6, <1>8 DEF Resends, Moves, Base, Keeps, Core
<1>10. retransmitOneSegment(c) = sendSegments([a EXCEPT !.snd_nxt = c.snd_una], n)
  BY Zenon DEF retransmitOneSegment, a
<1>11. retransmitData(c) = e
  BY Zenon DEF retransmitData, b, d, e
<1> QED BY <1>5, <1>9, <1>10, <1>11

(***************************************************************************)
(* The order of the sequence variables, the window and the timer through   *)
(* the send methods.                                                       *)
(***************************************************************************)
\* The offsets of a connection in order are within half of the number space.
LEMMA Offsets ==
  ASSUME NEW c \in Conn
  PROVE  /\ Una(c) \in Nat /\ Nxt(c) \in Nat /\ Maxi(c) \in Nat /\ End(c) \in Nat
         /\ c.written \in Nat /\ SeqMod \in Nat /\ SeqMod \div 2 \in Nat
         /\ SeqMod = 2 * (SeqMod \div 2)
         /\ Roomy(c.written) => c.written + 3 <= SeqMod \div 2
         /\ Roomy(c.written) /\ InOrder(c) =>
              /\ Una(c) < SeqMod \div 2 /\ Nxt(c) < SeqMod \div 2
              /\ Maxi(c) + 1 <= SeqMod \div 2 /\ End(c) + 1 < SeqMod \div 2
<1>1. /\ Una(c) \in Nat /\ Nxt(c) \in Nat /\ Maxi(c) \in Nat /\ End(c) \in Nat
  BY Fields, Difference DEF Una, Nxt, Maxi, End
<1>2. SeqMod \in Nat /\ SeqMod \div 2 \in Nat /\ 2 * (SeqMod \div 2) = SeqMod
  BY Half, SeqModAssumption
<1>3. c.written \in Nat
  BY Fields
<1>4. Roomy(c.written) => c.written + 3 <= SeqMod \div 2
  <2> DEFINE h == SeqMod \div 2
  <2> HIDE DEF h
  <2>1. h \in Nat /\ 2 * h = SeqMod
    BY <1>2 DEF h
  <2> QED BY <1>3, <2>1 DEF Roomy, h
<1> QED BY <1>1, <1>2, <1>3, <1>4 DEF InOrder

\* Keeping all keeps the order, too.
LEMMA KeepsFlow ==
  ASSUME NEW c \in Conn, NEW d, Keeps(c, d)
  PROVE  (Flow(c) => Flow(d)) /\ (InOrder(c) => InOrder(d))
         /\ (InWindow(c) => InWindow(d)) /\ (Armed(c) => Armed(d))
BY DEF Keeps, Core, Flow, InOrder, InWindow, Armed, Una, Nxt, Maxi, End

\* Sending again moves snd_nxt, up to snd_max: the FIN is below it.
LEMMA ResendsFlow ==
  ASSUME NEW c \in Conn, NEW d, Resends(c, d), Flow(c)
  PROVE  Flow(d)
<1> SUFFICES ASSUME Roomy(c.written) PROVE InOrder(d) /\ InWindow(d) /\ Armed(d)
  BY DEF Resends, Moves, Base, Flow
<1>1. InOrder(c) /\ InWindow(c) /\ Armed(c)
  BY DEF Flow
<1>2. /\ Una(d) = Una(c) /\ Maxi(d) = Maxi(c) /\ End(d) = End(c)
      /\ d.written = c.written /\ d.send_fin = c.send_fin /\ d.closeCalled = c.closeCalled
      /\ d.snd_fin_seq = c.snd_fin_seq /\ d.end = c.end /\ d.snd_max = c.snd_max
      /\ d.snd_wnd = c.snd_wnd /\ d.rexmitTimer = c.rexmitTimer /\ d.iss = c.iss
  BY DEF Resends, Moves, Base, Una, Maxi, End
<1>3. InWindow(d) /\ Armed(d)
  BY <1>1, <1>2 DEF InWindow, Armed
<1>4. Una(d) <= Nxt(d) /\ Nxt(d) <= Maxi(d)
  <2>0. /\ c.iss \in SeqNo /\ c.snd_una \in SeqNo /\ c.snd_max \in SeqNo /\ c.end \in SeqNo
    BY Fields
  <2>1. PICK n \in Nat : n <= SeqDiff(c.snd_max, c.snd_una) /\ d.snd_nxt = Sent(c, c.snd_una, n)
    BY DEF Resends
  <2>2. /\ Una(c) \in Nat /\ Maxi(c) \in Nat /\ End(c) \in Nat /\ SeqMod \in Nat
        /\ Maxi(c) + 1 < SeqMod /\ Una(c) <= Maxi(c)
    BY <1>1, Offsets DEF InOrder
  <2>3. SeqDiff(c.snd_max, c.snd_una) = Maxi(c) - Una(c)
    BY <2>0, <2>2, Apart DEF Una, Maxi
  <2> DEFINE x == SeqAdd(c.snd_una, n)
  <2>4. Una(c) + n <= Maxi(c) /\ Una(c) + n < SeqMod
    BY <2>1, <2>2, <2>3
  <2>5. x \in SeqNo /\ SeqDiff(x, c.iss) = Una(c) + n
    BY <2>0, <2>4, Farther DEF Una
  <2> HIDE DEF x
  <2>6. CASE c.send_fin /\ x = c.snd_fin_seq
    <3>1. x = c.end /\ c.snd_max # c.end
      BY <1>1, <2>6 DEF InOrder
    <3>2. Una(c) + n # Maxi(c)
      BY <2>0, <2>5, <3>1, SameDistance DEF Maxi
    <3>3. SeqDiff(x, c.iss) + 1 < SeqMod
      BY <2>2, <2>4, <2>5
    <3>4. SeqDiff(SeqAdd(x, 1), c.iss) = Una(c) + n + 1
      BY <2>0, <2>5, <3>3, Farther
    <3>5. Nxt(d) = Una(c) + n + 1
      BY <1>2, <2>1, <2>6, <3>4 DEF Nxt, Sent, x
    <3> QED BY <1>2, <2>2, <2>4, <3>2, <3>5
  <2>7. CASE ~ (c.send_fin /\ x = c.snd_fin_seq)
    <3>1. Nxt(d) = Una(c) + n
      BY <1>2, <2>1, <2>5, <2>7 DEF Nxt, Sent, x
    <3> QED BY <1>2, <2>2, <2>4, <3>1
  <2> QED BY <2>6, <2>7
<1> QED BY <1>1, <1>2, <1>3, <1>4 DEF InOrder

\* What bytesToSend() allows is in the queue and within the window.
LEMMA BytesToSend ==
  ASSUME NEW c \in Conn, Roomy(c.written), InOrder(c), NEW n \in Nat, 0 < n, n <= bytesToSend(c)
  PROVE  Maxi(c) + n <= End(c) /\ Maxi(c) - Una(c) + n <= c.snd_wnd
<1>0. /\ c.iss \in SeqNo /\ c.snd_una \in SeqNo /\ c.snd_max \in SeqNo /\ c.end \in SeqNo
  BY Fields
<1>1. /\ Una(c) \in Nat /\ Maxi(c) \in Nat /\ End(c) \in Nat /\ Una(c) <= Maxi(c)
      /\ Maxi(c) < SeqMod \div 2 /\ End(c) < SeqMod \div 2 /\ SeqMod \div 2 \in Nat
  BY SMTT(30), Offsets DEF InOrder
<1>2. SeqDiff(c.snd_max, c.snd_una) = Maxi(c) - Una(c)
  BY <1>0, <1>1, Apart DEF Una, Maxi
<1>3. MaxWindow(c) \in Nat /\ MaxWindow(c) <= c.snd_wnd /\ c.snd_wnd \in Nat
  BY Fields DEF MaxWindow, Lesser
<1>4. seqLess(c.snd_max, c.end) <=> Maxi(c) < End(c)
  BY <1>0, <1>1, Compare DEF Maxi, End
<1>5. Maxi(c) < End(c) => SeqDiff(c.end, c.snd_max) = End(c) - Maxi(c)
  BY <1>0, <1>1, Apart DEF Maxi, End
<1>6. getBytesAvailable(c, c.snd_max) = IF Maxi(c) < End(c) THEN End(c) - Maxi(c) ELSE 0
  BY <1>4, <1>5 DEF getBytesAvailable
<1>7. /\ n <= MaxWindow(c) - (Maxi(c) - Una(c))
      /\ n <= getBytesAvailable(c, c.snd_max)
  <2> DEFINE g == getBytesAvailable(c, c.snd_max)
             w == MaxWindow(c) - (Maxi(c) - Una(c))
  <2>1. g \in Int /\ w \in Int
    BY <1>1, <1>3, <1>6
  <2>2. bytesToSend(c) = IF w <= g THEN w ELSE g
    BY <1>2 DEF bytesToSend, Lesser
  <2> HIDE DEF g, w
  <2>3. n <= w /\ n <= g
    BY <2>1, <2>2
  <2> QED BY <2>3 DEF g, w
<1> QED BY <1>1, <1>3, <1>6, <1>7

\* sendData() keeps the order and the window, and has the timer running.
LEMMA SendDataFlow ==
  ASSUME NEW c \in Conn, Flow(c)
  PROVE  Flow(sendData(c))
<1> DEFINE d == sendData(c)
<1>0. /\ Moves(c, d) /\ SentMore(c, d)
      /\ d.snd_una = c.snd_una /\ d.snd_wnd = c.snd_wnd /\ d.snd_nxt = d.snd_max
  BY SendDataMoves
<1> HIDE DEF d
<1>a. /\ d.written = c.written /\ d.send_fin = c.send_fin /\ d.closeCalled = c.closeCalled
      /\ d.snd_fin_seq = c.snd_fin_seq /\ d.end = c.end /\ d.iss = c.iss
      /\ Una(d) = Una(c) /\ End(d) = End(c) /\ Nxt(d) = Maxi(d)
  BY <1>0 DEF Moves, Base, Una, Nxt, Maxi, End
<1> SUFFICES ASSUME Roomy(c.written) PROVE InOrder(d) /\ InWindow(d) /\ Armed(d)
  BY <1>a DEF Flow, d
<1>1. InOrder(c) /\ InWindow(c) /\ Armed(c)
  BY DEF Flow
<1>2. /\ Una(c) \in Nat /\ Maxi(c) \in Nat /\ End(c) \in Nat /\ SeqMod \in Nat
      /\ End(c) + 1 < SeqMod /\ c.written \in Nat /\ c.snd_wnd \in Nat /\ RcvWnd \in Nat
      /\ Una(c) <= Maxi(c)
  <2>1. c.snd_wnd \in Nat /\ RcvWnd \in Nat
    BY Fields, ConnectionAssumption
  <2> QED BY <1>1, <2>1, Offsets DEF InOrder
<1>3. CASE d.snd_max = c.snd_max /\ d.rexmitTimer = c.rexmitTimer
  <2>1. Maxi(d) = Maxi(c)
    BY <1>3, <1>a DEF Maxi
  <2> QED BY SMTT(30), <1>0, <1>1, <1>2, <1>3, <1>a, <2>1 DEF InOrder, InWindow, Armed
<1>4. ASSUME NEW n \in Nat, 0 < n, n <= bytesToSend(c), d.snd_max = Sent(c, c.snd_max, n),
             d.rexmitTimer = "scheduled"
      PROVE  InOrder(d) /\ InWindow(d) /\ Armed(d)
  <2>0. c.iss \in SeqNo /\ c.snd_max \in SeqNo /\ c.end \in SeqNo
    BY Fields
  <2>1. Maxi(c) + n <= End(c) /\ Maxi(c) - Una(c) + n <= c.snd_wnd /\ c.snd_wnd <= RcvWnd
    BY <1>1, <1>4, BytesToSend DEF InWindow
  <2> DEFINE x == SeqAdd(c.snd_max, n)
  <2>2. x \in SeqNo /\ SeqDiff(x, c.iss) = Maxi(c) + n
    <3>1. SeqDiff(c.snd_max, c.iss) + n < SeqMod
      BY <1>2, <2>1 DEF Maxi
    <3> QED BY <2>0, <3>1, Farther DEF Maxi
  <2> HIDE DEF x
  <2>3. CASE c.send_fin /\ x = c.snd_fin_seq
    <3>1. x = c.end
      BY <1>1, <2>3 DEF InOrder
    <3>2. Maxi(c) + n = End(c)
      BY <2>2, <3>1 DEF End
    <3>3. SeqDiff(x, c.iss) + 1 < SeqMod
      BY <1>2, <2>2, <3>2
    <3>4. SeqDiff(SeqAdd(x, 1), c.iss) = End(c) + 1
      BY <2>0, <2>2, <3>2, <3>3, Farther
    <3>5. Maxi(d) = End(c) + 1
      BY <1>4, <1>a, <2>3, <3>4 DEF Maxi, Sent, x
    <3>6. d.snd_max # d.end
      BY SMTT(30), <1>2, <1>a, <3>5 DEF Maxi, End
    <3>7. InOrder(d)
      BY SMTT(30), <1>1, <1>2, <1>a, <2>1, <2>3, <3>5, <3>6 DEF InOrder
    <3>8. InWindow(d)
      BY <1>0, <1>2, <1>a, <2>1, <3>2, <3>5 DEF InWindow
    <3> QED BY <1>4, <3>7, <3>8 DEF Armed
  <2>4. CASE ~ (c.send_fin /\ x = c.snd_fin_seq)
    <3>1. Maxi(d) = Maxi(c) + n /\ d.snd_max = x
      BY <1>4, <1>a, <2>2, <2>4 DEF Maxi, Sent, x
    <3>2. d.send_fin => d.snd_max # d.end
      BY <1>1, <1>a, <2>4, <3>1 DEF InOrder
    <3>3. InOrder(d)
      BY SMTT(30), <1>1, <1>2, <1>a, <2>1, <3>1, <3>2 DEF InOrder
    <3>4. InWindow(d)
      BY SMTT(30), <1>0, <1>2, <1>a, <2>1, <3>1 DEF InWindow
    <3> QED BY <1>4, <3>3, <3>4 DEF Armed
  <2> QED BY <2>3, <2>4
<1> QED BY <1>0, <1>3, <1>4 DEF SentMore

\* A method that keeps the order, the window and the timer.
Goes(c, d) == Moves(c, d) /\ (Flow(c) => Flow(d))

\* Such methods can follow each other, and those above are such.
LEMMA GoesSteps ==
  ASSUME NEW c \in Conn
  PROVE  /\ Goes(c, c)
         /\ \A d, f : Goes(c, d) /\ Goes(d, f) => Goes(c, f)
         /\ \A d : Goes(c, d) => d \in Conn
         /\ \A d : Keeps(c, d) => Goes(c, d)
         /\ \A d : Resends(c, d) => Goes(c, d)
         /\ \A d : KeepsButTimer(c, d) /\ d.rexmitTimer = "scheduled" => Goes(c, d)
         /\ Goes(c, sendData(c))
<1>1. /\ Goes(c, c)
      /\ \A d, f : Goes(c, d) /\ Goes(d, f) => Goes(c, f)
      /\ \A d : Goes(c, d) => d \in Conn
  BY Zenon DEF Goes, Moves
<1>2. ASSUME NEW d, Keeps(c, d) PROVE Goes(c, d)
  BY <1>2, KeepsFlow DEF Goes, Moves, Base, Keeps, Core
<1>3. ASSUME NEW d, Resends(c, d) PROVE Goes(c, d)
  BY <1>3, ResendsFlow DEF Goes, Resends
<1>4. ASSUME NEW d, KeepsButTimer(c, d), d.rexmitTimer = "scheduled" PROVE Goes(c, d)
  <2>1. Moves(c, d)
    BY <1>4 DEF KeepsButTimer, Core, Moves, Base
  <2>2. Flow(c) => Flow(d)
    BY <1>4 DEF KeepsButTimer, Core, Flow, InOrder, InWindow, Armed, Una, Nxt, Maxi, End
  <2> QED BY <2>1, <2>2 DEF Goes
<1>5. Goes(c, sendData(c))
  BY SendDataMoves, SendDataFlow DEF Goes
<1> QED BY <1>1, <1>2, <1>3, <1>4, <1>5

\* Restarting the timer.
LEMMA RestartGoes ==
  ASSUME NEW c \in Conn
  PROVE  /\ KeepsButTimer(c, startRexmitTimer(cancelRexmit(c)))
         /\ startRexmitTimer(cancelRexmit(c)).rexmitTimer = "scheduled"
         /\ Goes(c, startRexmitTimer(cancelRexmit(c)))
<1>1. cancelRexmit(c) \in Conn /\ KeepsButTimer(c, cancelRexmit(c))
  BY RexmitTimerKeeps DEF KeepsButTimer
<1>2. /\ KeepsButTimer(cancelRexmit(c), startRexmitTimer(cancelRexmit(c)))
      /\ startRexmitTimer(cancelRexmit(c)).rexmitTimer = "scheduled"
  BY <1>1, RexmitTimerKeeps
<1>3. KeepsButTimer(c, startRexmitTimer(cancelRexmit(c)))
  BY <1>1, <1>2 DEF KeepsButTimer
<1> QED BY <1>2, <1>3, GoesSteps

\* receivedDataAck() stops the timer when all is acknowledged and restarts it
\* otherwise; DumbTCP leaves it to sendData().
LEMMA ReceivedDataAckGoes ==
  ASSUME NEW c \in Conn
  PROVE  /\ Moves(c, receivedDataAck(c))
         /\ Roomy(c.written) =>
              (InOrder(c) /\ InWindow(c) /\ (Alg = "DumbTCP" => Armed(c))
                 => Flow(receivedDataAck(c)))
<1> DEFINE a == IF Alg = "DumbTCP" THEN c
                ELSE IF c.snd_una = c.snd_max THEN cancelRexmit(c)
                ELSE startRexmitTimer(cancelRexmit(c))
           b == IF ~ HasFastRetransmit THEN a
                ELSE IF Alg = "TCPReno" /\ c.dupacks >= 3 THEN setCwnd(a, a.ssthresh)
                ELSE growCwnd(a)
<1>1. KeepsButTimer(c, a)
  <2>1. KeepsButTimer(c, c) /\ KeepsButTimer(c, cancelRexmit(c))
    BY RexmitTimerKeeps DEF KeepsButTimer
  <2> QED BY <2>1, RestartGoes
<1>2. ASSUME Roomy(c.written), InOrder(c), InWindow(c), Alg = "DumbTCP" => Armed(c)
      PROVE  Flow(a)
  <2>1. InOrder(a) /\ InWindow(a)
    <3> HIDE DEF a
    <3> QED BY <1>1, <1>2 DEF KeepsButTimer, Core, InOrder, InWindow, Una, Nxt, Maxi, End
  <2>2. Alg = "DumbTCP" => Armed(a)
    BY <1>2
  <2>3. Alg # "DumbTCP" /\ c.snd_una = c.snd_max => Armed(a)
    <3>1. a.snd_una = c.snd_una /\ a.snd_max = c.snd_max
      <4> HIDE DEF a
      <4> QED BY <1>1 DEF KeepsButTimer, Core
    <3> HIDE DEF a
    <3> QED BY <3>1 DEF Armed, Una, Maxi
  <2>4. Alg # "DumbTCP" /\ c.snd_una # c.snd_max => Armed(a)
    BY RestartGoes DEF Armed
  <2> HIDE DEF a
  <2> QED BY <2>1, <2>2, <2>3, <2>4 DEF Flow
<1> HIDE DEF a
<1>3. a \in Conn /\ Moves(c, a)
  BY <1>1 DEF KeepsButTimer, Core, Moves, Base
<1>4. Keeps(a, b)
  <2>1. a.ssthresh \in Nat
    BY <1>3, Fields
  <2> QED BY Zenon, <1>3, <2>1, KeepsSteps, CwndKeeps
<1> HIDE DEF b
<1>5. b \in Conn /\ Goes(a, b)
  BY <1>3, <1>4, GoesSteps
<1>6. Goes(b, sendData(b))
  BY <1>5, GoesSteps
<1>7. Moves(c, sendData(b)) /\ (Flow(a) => Flow(sendData(b)))
  BY <1>3, <1>5, <1>6 DEF Goes, Moves
<1>8. receivedDataAck(c) = sendData(b)
  BY Zenon DEF receivedDataAck, a, b
<1> QED BY <1>2, <1>7, <1>8

\* Fast retransmit leaves the timer running.
LEMMA ReceivedDuplicateAckGoes ==
  ASSUME NEW c \in Conn
  PROVE  Goes(c, receivedDuplicateAck(c))
<1> DEFINE r == retransmitOneSegment(c)
           a == recalculateSlowStartThreshold(r)
           w == IF Alg = "TCPReno" THEN a.ssthresh + 3 * MSS ELSE MSS
           b == setCwnd(a, w)
           f == setCwnd(c, c.snd_cwnd + MSS)
<1>1. Goes(c, r)
  BY RetransmitResends, GoesSteps
<1>2. r \in Conn
  BY <1>1, GoesSteps
<1>3. Keeps(r, a)
  BY <1>2, CwndKeeps
<1>4. a \in Conn /\ Goes(r, a)
  BY <1>2, <1>3, GoesSteps
<1>5. w \in Nat
  <2>1. a.ssthresh \in Nat
    BY <1>4, Fields
  <2> QED BY <2>1, ConnectionAssumption
<1>6. Keeps(a, b)
  BY <1>4, <1>5, CwndKeeps
<1>7. b \in Conn /\ Goes(a, b)
  BY <1>4, <1>6, GoesSteps
<1>8. Goes(b, startRexmitTimer(cancelRexmit(b)))
  BY <1>7, RestartGoes
<1> HIDE DEF r, a, w, b
<1>9. Goes(c, startRexmitTimer(cancelRexmit(b)))
  BY <1>1, <1>2, <1>4, <1>7, <1>8, GoesSteps
<1>10. Goes(c, sendData(f))
  <2>1. c.snd_cwnd + MSS \in Nat
    BY Fields, ConnectionAssumption
  <2>2. Keeps(c, f)
    BY <2>1, CwndKeeps
  <2> HIDE DEF f
  <2> QED BY <2>2, GoesSteps
<1> HIDE DEF f
<1>11. receivedDuplicateAck(c) \in {startRexmitTimer(cancelRexmit(b)), sendData(f), c}
  BY Zenon DEF receivedDuplicateAck, r, a, w, b, f
<1> QED BY <1>9, <1>10, <1>11, GoesSteps

\* established() sends what is waiting.
LEMMA EstablishedGoes ==
  ASSUME NEW c \in Conn, NEW active \in BOOLEAN
  PROVE  Goes(c, established(c, active))
<1> DEFINE a == IF Alg = "DumbTCP" THEN c ELSE setCwnd(c, MSS)
<1>1. Keeps(c, a)
  BY CwndKeeps, KeepsSteps, ConnectionAssumption
<1> HIDE DEF a
<1>2. a \in Conn /\ Goes(c, a)
  BY <1>1, GoesSteps
<1>3. Goes(a, sendData(a)) /\ sendData(a) \in Conn
  BY <1>2, GoesSteps
<1>4. Goes(sendData(a), sendAck(sendData(a)))
  BY <1>3, SendKeeps, GoesSteps
<1>5. Goes(c, sendData(a)) /\ Goes(c, sendAck(sendData(a)))
  BY <1>2, <1>3, <1>4, GoesSteps
<1>6. established(c, active) \in {a, sendData(a), sendAck(sendData(a))}
  BY Zenon DEF established, a
<1> QED BY <1>2, <1>5, <1>6

\* When REXMIT expires the timer is started anew, or the connection aborted.
LEMMA RexmitTimerGoes ==
  ASSUME NEW c \in Conn
  PROVE  LET d == processRexmitTimer(c)
         IN \/ Goes(c, d)
            \/ d \in Conn /\ Base(d) = Base(c) /\ d.event = "ABORT" /\ Told(d)
<1> DEFINE z == [c EXCEPT !.rexmitTimer = "idle", !.rexmit_count = @ + 1]
           a == scheduleRexmit(z)
           q == recalculateSlowStartThreshold(a)
           b == IF HasFastRetransmit THEN setCwnd(q, MSS) ELSE a
           f == indicateFailure(c)
           g == [f EXCEPT !.rexmitTimer = "idle", !.event = "ABORT", !.rexmit_count = @ + 1]
           h == Assert(c, FALSE, "REXMIT without connection")
<1>0. "idle" \in TimerState /\ "REXMIT without connection" \in Errors /\ "ABORT" \in Events
  BY DEF TimerState, Errors, Events
<1>1. z \in Conn /\ KeepsButTimer(c, z)
  <2>1. c.rexmit_count + 1 \in Nat
    BY Fields
  <2>2. ASSUME NEW k \in Nat
        PROVE  LET y == [c EXCEPT !.rexmitTimer = "idle", !.rexmit_count = k]
               IN y \in Conn /\ KeepsButTimer(c, y)
    <3> DEFINE x == [c EXCEPT !.rexmitTimer = "idle"]
               y == [x EXCEPT !.rexmit_count = k]
    <3>1. x \in Conn /\ KeepsButTimer(c, x)
      BY ZenonT(60), <1>0 DEF KeepsButTimer, Core, Conn
    <3> HIDE DEF x
    <3>2. y \in Conn
      BY Zenon, <2>2, <3>1, Updates
    <3>3. KeepsButTimer(x, y)
      BY <3>1, <3>2 DEF KeepsButTimer, Core, Conn
    <3> HIDE DEF y
    <3>4. KeepsButTimer(c, y)
      BY <3>1, <3>3 DEF KeepsButTimer
    <3> QED BY <3>2, <3>4 DEF y, x
  <2> QED BY Zenon, <2>1, <2>2
<1> HIDE DEF z
<1>2. KeepsButTimer(z, a) /\ a.rexmitTimer = "scheduled"
  BY <1>1, RexmitTimerKeeps
<1> HIDE DEF a
<1>3. KeepsButTimer(c, a) /\ a \in Conn
  BY <1>1, <1>2 DEF KeepsButTimer
<1>4. Goes(c, a)
  BY <1>2, <1>3, GoesSteps
<1>5. Keeps(a, b)
  <2>1. Keeps(a, q)
    BY <1>3, CwndKeeps
  <2> HIDE DEF q
  <2>2. q \in Conn
    BY <2>1 DEF Keeps
  <2>3. Keeps(q, setCwnd(q, MSS))
    BY <2>2, CwndKeeps, ConnectionAssumption
  <2> QED BY <1>3, <2>1, <2>3, KeepsSteps
<1> HIDE DEF b
<1>6. b \in Conn /\ Goes(c, b)
  BY <1>3, <1>4, <1>5, GoesSteps
<1>7. Goes(c, retransmitData(b)) /\ Goes(c, retransmitOneSegment(b))
  BY <1>6, RetransmitResends, GoesSteps
<1>8. Goes(c, h)
  <2>1. Keeps(c, h)
    BY Zenon, <1>0, AssertKeeps
  <2> QED BY Zenon, <2>1, GoesSteps
<1> HIDE DEF h
<1>9. g \in Conn /\ Base(g) = Base(c) /\ g.event = "ABORT" /\ Told(g)
  <2>1. KeepsButSock(c, f) /\ Told(f)
    BY IndicationsKeep
  <2> HIDE DEF f
  <2>2. f \in Conn /\ Base(f) = Base(c)
    BY <2>1 DEF KeepsButSock, Core, Base
  <2>3. f.rexmit_count + 1 \in Nat
    BY <2>2, Fields
  <2>4. g \in Conn /\ Base(g) = Base(f) /\ g.event = "ABORT" /\ g.sock = f.sock
    <3>1. ASSUME NEW k \in Nat
          PROVE  LET y == [f EXCEPT !.rexmitTimer = "idle", !.event = "ABORT", !.rexmit_count = k]
                 IN y \in Conn /\ Base(y) = Base(f) /\ y.event = "ABORT" /\ y.sock = f.sock
      <4>1. f \in Conn
        BY <2>2
      <4> QED BY ZenonT(60), <1>0, <4>1 DEF Conn, Base
    <3> QED BY Zenon, <2>3, <3>1
  <2> HIDE DEF g
  <2> QED BY <2>1, <2>2, <2>4 DEF Told
<1> HIDE DEF g
<1>10. processRexmitTimer(c) \in {h, g, retransmitData(b), retransmitOneSegment(b)}
  BY Zenon DEF processRexmitTimer, z, a, q, b, f, g, h
<1> QED BY <1>7, <1>8, <1>9, <1>10

(***************************************************************************)
(* Acknowledgements.                                                       *)
(***************************************************************************)
\* An ACK that processAckInEstabEtc() accepts is for octets that are under way.
LEMMA AckOffset ==
  ASSUME NEW c \in Conn, Roomy(c.written), InOrder(c), NEW ack \in SeqNo,
         ~ seqGE(c.snd_una, ack), seqLE(ack, c.snd_max)
  PROVE  /\ SeqDiff(ack, c.iss) \in Nat
         /\ Una(c) < SeqDiff(ack, c.iss) /\ SeqDiff(ack, c.iss) <= Maxi(c)
<1> DEFINE A == SeqDiff(ack, c.iss)
           h == SeqMod \div 2
<1>0. c.iss \in SeqNo /\ c.snd_una \in SeqNo /\ c.snd_max \in SeqNo
  BY Fields
<1>1. /\ Una(c) \in Nat /\ Maxi(c) \in Nat /\ Una(c) <= Maxi(c) /\ Maxi(c) < h
      /\ h \in Nat /\ SeqMod = 2 * h
  BY SMTT(30), Offsets DEF InOrder
<1>2. A \in Nat /\ A < SeqMod
  BY <1>0, Difference
<1>3. /\ SeqDiff(c.snd_una, ack) = IF A <= Una(c) THEN Una(c) - A ELSE Una(c) - A + SeqMod
      /\ SeqDiff(c.snd_max, ack) = IF A <= Maxi(c) THEN Maxi(c) - A ELSE Maxi(c) - A + SeqMod
  BY <1>0, Apart DEF Una, Maxi
<1>4. ~ (SeqDiff(c.snd_una, ack) < h) /\ SeqDiff(c.snd_max, ack) < h
  BY DEF seqGE, seqLE
<1> HIDE DEF A, h
<1>5. Una(c) < A /\ A <= Maxi(c)
  BY SMTT(30), <1>1, <1>2, <1>3, <1>4
<1> QED BY <1>2, <1>5 DEF A

\* What acceptAck() makes of the connection before receivedDataAck().
Acked(c, d, ack) ==
  /\ Moves(c, d)
  /\ d.snd_una = ack /\ d.snd_nxt = advanceNxt(c.snd_nxt, ack) /\ d.snd_max = c.snd_max
  /\ d.snd_wnd \in {c.snd_wnd, RcvWnd} /\ d.rexmitTimer = c.rexmitTimer

\* snd_una moves to the number acknowledged, and snd_nxt at least as far.
LEMMA AckedInOrder ==
  ASSUME NEW c \in Conn, Roomy(c.written), InOrder(c), InWindow(c), NEW d, NEW ack \in SeqNo,
         Acked(c, d, ack), ~ seqGE(c.snd_una, ack), seqLE(ack, c.snd_max)
  PROVE  InOrder(d) /\ InWindow(d) /\ (Alg = "DumbTCP" /\ Armed(c) => Armed(d))
<1> DEFINE A == SeqDiff(ack, c.iss)
<1>0. c.iss \in SeqNo /\ c.snd_nxt \in SeqNo /\ c.snd_wnd \in Nat /\ RcvWnd \in Nat
  BY Fields, ConnectionAssumption
<1>1. A \in Nat /\ Una(c) < A /\ A <= Maxi(c)
  BY AckOffset
<1>2. /\ Una(c) \in Nat /\ Nxt(c) \in Nat /\ Maxi(c) \in Nat /\ End(c) \in Nat /\ c.written \in Nat
      /\ Nxt(c) <= Maxi(c) /\ Maxi(c) < SeqMod \div 2 /\ SeqMod \div 2 \in Nat
  BY SMTT(30), Offsets DEF InOrder
<1>3. seqLess(c.snd_nxt, ack) <=> Nxt(c) < A
  <2>1. SeqDiff(c.snd_nxt, c.iss) < SeqMod \div 2 /\ SeqDiff(ack, c.iss) < SeqMod \div 2
    BY <1>1, <1>2 DEF Nxt
  <2> QED BY <1>0, <2>1, Compare DEF Nxt
<1>4. /\ Una(d) = A /\ Maxi(d) = Maxi(c) /\ End(d) = End(c)
      /\ d.written = c.written /\ d.send_fin = c.send_fin /\ d.closeCalled = c.closeCalled
      /\ d.snd_fin_seq = c.snd_fin_seq /\ d.end = c.end /\ d.snd_max = c.snd_max
      /\ d.snd_wnd \in {c.snd_wnd, RcvWnd} /\ d.rexmitTimer = c.rexmitTimer
      /\ Nxt(d) = IF seqLess(c.snd_nxt, ack) THEN A ELSE Nxt(c)
  BY DEF Acked, Moves, Base, Una, Nxt, Maxi, End, advanceNxt
<1> HIDE DEF A
<1>5. Una(d) <= Nxt(d) /\ Nxt(d) <= Maxi(d)
  BY SMTT(30), <1>1, <1>2, <1>3, <1>4
<1>6. InOrder(d)
  BY <1>4, <1>5 DEF InOrder
<1>7. InWindow(d)
  BY SMTT(30), <1>0, <1>1, <1>2, <1>4 DEF InWindow
<1>8. Alg = "DumbTCP" /\ Armed(c) => Armed(d)
  BY <1>4 DEF Armed
<1> QED BY <1>6, <1>7, <1>8

\* An accepted ACK.
LEMMA AcceptAckGoes ==
  ASSUME NEW c \in Conn, NEW s \in Segment
  PROVE  /\ Moves(c, acceptAck(c, s))
         /\ ~ seqGE(c.snd_una, s.ack) /\ seqLE(s.ack, c.snd_max) => Goes(c, acceptAck(c, s))
<1> DEFINE a == [c EXCEPT !.snd_una = s.ack, !.snd_nxt = advanceNxt(@, s.ack)]
           acksFin == c.send_fin /\ s.ack = SeqAdd(c.snd_fin_seq, 1)
           y == [a EXCEPT !.fin_ack_rcvd = @ \/ acksFin]
           upTo == IF acksFin THEN SeqDiff(s.ack, 1) ELSE s.ack
           b == discardUpTo(y, upTo)
           d == [b EXCEPT !.snd_wnd = RcvWnd, !.snd_wl1 = s.seq, !.snd_wl2 = s.ack]
           updatesWindow == \/ seqLess(c.snd_wl1, s.seq)
                            \/ c.snd_wl1 = s.seq /\ seqLE(c.snd_wl2, s.ack)
           f == IF updatesWindow THEN d ELSE b
           g == receivedDataAck(f)
           h == [g EXCEPT !.dupacks = 0]
<1>0. s.ack \in SeqNo /\ s.seq \in SeqNo /\ RcvWnd \in Nat
  BY ConnectionAssumption DEF Segment
<1>1. advanceNxt(c.snd_nxt, s.ack) \in SeqNo
  BY <1>0, Fields DEF advanceNxt
<1>2. a \in Conn /\ Acked(c, a, s.ack)
  <2> DEFINE x == [c EXCEPT !.snd_una = s.ack]
  <2>1. x \in Conn /\ Base(x) = Base(c) /\ x.sock = c.sock /\ x.event = c.event
        /\ x.snd_una = s.ack /\ x.snd_nxt = c.snd_nxt /\ x.snd_max = c.snd_max
        /\ x.snd_wnd = c.snd_wnd /\ x.rexmitTimer = c.rexmitTimer
    BY <1>0 DEF Conn, Base
  <2> HIDE DEF x
  <2>2. [x EXCEPT !.snd_nxt = advanceNxt(c.snd_nxt, s.ack)] \in Conn
    BY Zenon, <1>1, <2>1, Updates
  <2>3. a = [x EXCEPT !.snd_nxt = advanceNxt(c.snd_nxt, s.ack)]
    BY DEF x, Conn
  <2> QED BY <2>1, <2>2, <2>3 DEF Conn, Acked, Moves, Base
<1>3. upTo \in SeqNo
  BY Zenon, <1>0, Numbers
<1> HIDE DEF a, upTo
<1>4. y \in Conn /\ Keeps(a, y)
  <2>1. (a.fin_ack_rcvd \/ acksFin) \in BOOLEAN
    BY Zenon
  <2>2. ASSUME NEW v \in BOOLEAN
        PROVE  [a EXCEPT !.fin_ack_rcvd = v] \in Conn /\ Keeps(a, [a EXCEPT !.fin_ack_rcvd = v])
    BY <1>2 DEF Conn, Keeps, Core
  <2> QED BY Zenon, <2>1, <2>2
<1> HIDE DEF y
<1>5. b \in Conn /\ Keeps(y, b)
  BY <1>3, <1>4, DiscardKeeps DEF Keeps
<1> HIDE DEF b
<1>6. Acked(c, b, s.ack)
  BY <1>2, <1>4, <1>5 DEF Acked, Moves, Base, Keeps, Core
<1>7. /\ d \in Conn /\ Base(d) = Base(b) /\ d.sock = b.sock /\ d.event = b.event
      /\ d.snd_una = b.snd_una /\ d.snd_nxt = b.snd_nxt /\ d.snd_max = b.snd_max
      /\ d.snd_wnd = RcvWnd /\ d.rexmitTimer = b.rexmitTimer
  <2> DEFINE x == [b EXCEPT !.snd_wnd = RcvWnd]
             w == [x EXCEPT !.snd_wl1 = s.seq]
             z == [w EXCEPT !.snd_wl2 = s.ack]
             Alike(u, t) == /\ t \in Conn /\ Base(t) = Base(u) /\ t.sock = u.sock
                            /\ t.event = u.event /\ t.snd_una = u.snd_una
                            /\ t.snd_nxt = u.snd_nxt /\ t.snd_max = u.snd_max
                            /\ t.rexmitTimer = u.rexmitTimer
  <2>1. Alike(b, x) /\ x.snd_wnd = RcvWnd
    BY <1>0, <1>5 DEF Conn, Base
  <2> HIDE DEF x
  <2>2. Alike(x, w) /\ w.snd_wnd = x.snd_wnd
    BY <1>0, <2>1 DEF Conn, Base
  <2> HIDE DEF w
  <2>3. Alike(w, z) /\ z.snd_wnd = w.snd_wnd
    BY <1>0, <2>2 DEF Conn, Base
  <2>4. d = z
    BY DEF x, w, z
  <2> HIDE DEF z, d
  <2> QED BY <2>1, <2>2, <2>3, <2>4
<1> HIDE DEF d
<1>8. f \in Conn /\ Acked(c, f, s.ack)
  <2>1. Acked(c, d, s.ack)
    BY <1>6, <1>7 DEF Acked, Moves
  <2> QED BY <1>5, <1>6, <1>7, <2>1
<1> HIDE DEF f
<1>9. Moves(c, f) /\ f.written = c.written
  BY <1>8 DEF Acked, Moves, Base
<1>10. /\ Moves(f, g)
       /\ Roomy(f.written) =>
            (InOrder(f) /\ InWindow(f) /\ (Alg = "DumbTCP" => Armed(f)) => Flow(g))
  BY <1>8, ReceivedDataAckGoes
<1> HIDE DEF g
<1>11. g \in Conn /\ Moves(c, g)
  BY <1>9, <1>10 DEF Moves
<1>12. ASSUME ~ seqGE(c.snd_una, s.ack), seqLE(s.ack, c.snd_max), Flow(c) PROVE Flow(g)
  <2>1. CASE Roomy(c.written)
    <3>1. InOrder(f) /\ InWindow(f) /\ (Alg = "DumbTCP" => Armed(f))
      BY <1>0, <1>8, <1>12, <2>1, AckedInOrder DEF Flow
    <3> QED BY <1>9, <1>10, <2>1, <3>1
  <2>2. CASE ~ Roomy(c.written)
    BY <1>11, <2>2 DEF Moves, Base, Flow
  <2> QED BY <2>1, <2>2
<1>13. Keeps(g, h)
  BY <1>11 DEF Conn, Keeps, Core
<1> HIDE DEF h
<1>14. Goes(g, h)
  BY <1>11, <1>13, GoesSteps
<1>15. /\ Moves(c, h)
       /\ ~ seqGE(c.snd_una, s.ack) /\ seqLE(s.ack, c.snd_max) => Goes(c, h)
  BY <1>11, <1>12, <1>14 DEF Goes, Moves
<1>16. acceptAck(c, s) = h
  BY Zenon DEF acceptAck, a, y, upTo, b, d, f, g, h
<1> QED BY <1>15, <1>16

\* An ACK keeps the order, the window and the timer, whatever it acknowledges.
LEMMA AckGoes ==
  ASSUME NEW c \in Conn, NEW s \in Segment
  PROVE  Goes(c, processAckInEstabEtc(c, s))
<1> DEFINE n == Lesser(c.dupacks + 1, 4)
           a == [c EXCEPT !.dupacks = n]
           z == [c EXCEPT !.dupacks = 0]
           t == Assert(c, seqGreater(s.ack, c.snd_max), "processAckInEstabEtc")
           u == [t EXCEPT !.dupacks = 0]
<1>0. n \in Nat /\ 0 \in Nat /\ "processAckInEstabEtc" \in Errors
  BY Fields DEF Lesser, Errors
<1>1. ASSUME NEW x \in Conn, NEW v \in Nat PROVE Keeps(x, [x EXCEPT !.dupacks = v])
  <2>1. [x EXCEPT !.dupacks = v] \in Conn
    BY Zenon, Updates
  <2> QED BY <2>1 DEF Keeps, Core, Conn
<1>2. Goes(c, a) /\ Goes(c, z)
  <2> HIDE DEF n
  <2>1. Keeps(c, a) /\ Keeps(c, z)
    BY <1>0, <1>1
  <2> HIDE DEF a, z
  <2> QED BY <2>1, GoesSteps
<1>3. Goes(c, u)
  <2>1. Keeps(c, t)
    BY Zenon, <1>0, AssertKeeps
  <2> HIDE DEF t
  <2>2. t \in Conn /\ Goes(c, t)
    BY <2>1, GoesSteps
  <2>3. Goes(t, u)
    BY Zenon, <1>0, <1>1, <2>2, GoesSteps
  <2> QED BY <2>2, <2>3, GoesSteps
<1> HIDE DEF a, z, u
<1>4. Goes(c, receivedDuplicateAck(a))
  <2>1. a \in Conn
    BY <1>2, GoesSteps
  <2> QED BY <1>2, <2>1, ReceivedDuplicateAckGoes, GoesSteps
<1>5. Goes(c, sendAck(u))
  <2>1. u \in Conn
    BY <1>3, GoesSteps
  <2>2. Goes(u, sendAck(u))
    BY <2>1, SendKeeps, GoesSteps
  <2> QED BY <1>3, <2>2, GoesSteps
<1>6. ~ seqGE(c.snd_una, s.ack) /\ ~ acksUnsent(c, s) => Goes(c, acceptAck(c, s))
  BY AcceptAckGoes DEF acksUnsent
<1>7. \/ processAckInEstabEtc(c, s) \in {receivedDuplicateAck(a), z, sendAck(u)}
      \/ /\ ~ seqGE(c.snd_una, s.ack) /\ ~ acksUnsent(c, s)
         /\ processAckInEstabEtc(c, s) = acceptAck(c, s)
  BY Zenon DEF processAckInEstabEtc, a, z, u
<1> QED BY <1>2, <1>4, <1>5, <1>6, <1>7

(***************************************************************************)
(* The commands of the application that move the end of the stream.        *)
(***************************************************************************)
\* What the application writes goes to the end of the queue; the timer need not run
\* for it before it is sent.
LEMMA EnqueueFlow ==
  ASSUME NEW c \in Conn, NEW n \in Nat, ~ c.closeCalled
  PROVE  LET d == enqueueAppData(c, n)
         IN /\ d \in Conn /\ (Flow(c) => Flow(d))
            /\ d.written = c.written + n
            /\ d.state = c.state /\ d.active = c.active /\ d.iss = c.iss
            /\ d.snd_una = c.snd_una /\ d.snd_nxt = c.snd_nxt /\ d.snd_max = c.snd_max
            /\ d.closeCalled = c.closeCalled /\ d.sock = c.sock /\ d.event = c.event
            /\ d.rexmitTimer = c.rexmitTimer
<1> DEFINE d == enqueueAppData(c, n)
           e == SeqAdd(c.end, n)
           w == c.written + n
<1>1. e \in SeqNo /\ w \in Nat /\ c.end \in SeqNo /\ c.iss \in SeqNo /\ c.written \in Nat
  <2>1. c.end \in SeqNo /\ c.iss \in SeqNo /\ c.written \in Nat
    BY Fields
  <2>2. SeqAdd(c.end, n) \in SeqNo
    BY Zenon, <2>1, Numbers
  <2> QED BY <2>1, <2>2
<1>2. d = [c EXCEPT !.end = e, !.written = w]
  BY DEF enqueueAppData
<1> HIDE DEF d, e
<1>3. d \in Conn
  BY Zenon, <1>1, <1>2, Updates
<1>4. /\ d.written = w /\ d.end = e
      /\ d.state = c.state /\ d.active = c.active /\ d.iss = c.iss
      /\ d.snd_una = c.snd_una /\ d.snd_nxt = c.snd_nxt /\ d.snd_max = c.snd_max
      /\ d.closeCalled = c.closeCalled /\ d.sock = c.sock /\ d.event = c.event
      /\ d.rexmitTimer = c.rexmitTimer /\ d.send_fin = c.send_fin /\ d.snd_wnd = c.snd_wnd
  BY <1>2 DEF Conn
<1>5. ASSUME Flow(c), Roomy(d.written) PROVE InOrder(d) /\ InWindow(d) /\ Armed(d)
  <2>1. Roomy(c.written)
    BY <1>1, <1>4, <1>5, SeqModAssumption DEF Roomy
  <2>2. InOrder(c) /\ InWindow(c) /\ Armed(c)
    BY <1>5, <2>1 DEF Flow
  <2>3. /\ Una(c) \in Nat /\ Nxt(c) \in Nat /\ Maxi(c) \in Nat /\ End(c) \in Nat
        /\ SeqMod \in Nat /\ End(c) <= 1 + c.written
    BY <2>2, Offsets DEF InOrder
  <2>4. 2 * (w + 3) <= SeqMod
    BY <1>4, <1>5 DEF Roomy
  <2>5. End(c) + n < SeqMod
    BY <1>1, <2>3, <2>4
  <2>6. End(d) = End(c) + n
    BY SMTT(30), <1>1, <1>4, <2>5, Farther DEF End, e
  <2>7. Una(d) = Una(c) /\ Nxt(d) = Nxt(c) /\ Maxi(d) = Maxi(c)
    BY <1>4 DEF Una, Nxt, Maxi
  <2>8. ~ c.send_fin /\ ~ d.send_fin
    BY <1>4, <2>2 DEF InOrder
  <2>9. Maxi(c) <= End(c) /\ Una(c) <= Maxi(c) /\ Una(c) <= Nxt(c) /\ Nxt(c) <= Maxi(c)
    BY SMTT(30), <2>2, <2>3, <2>8 DEF InOrder
  <2>10. InOrder(d)
    BY SMTT(30), <1>1, <1>4, <2>3, <2>6, <2>7, <2>8, <2>9 DEF InOrder
  <2>11. InWindow(d)
    <3>1. RcvWnd \in Nat
      BY ConnectionAssumption
    <3> QED BY SMTT(30), <1>4, <2>2, <2>3, <2>6, <2>7, <2>9, <3>1 DEF InWindow
  <2>12. Armed(d)
    BY <1>4, <2>2, <2>3, <2>6, <2>7, <2>9 DEF Armed
  <2> QED BY <2>10, <2>11, <2>12
<1> QED BY <1>3, <1>4, <1>5 DEF Flow, d

\* The FIN is sent at once when all octets have been, and remembered otherwise.
LEMMA CloseFlow ==
  ASSUME NEW c \in Conn, ~ c.closeCalled
  PROVE  LET d == process_CLOSE(c)
         IN /\ d \in Conn /\ (Flow(c) => Flow(d))
            /\ d.state = c.state /\ d.active = c.active /\ d.written = c.written
            /\ d.rexmitTimer = c.rexmitTimer
            /\ c.sock # "CONNECTED" => Told(d)
            /\ \/ d.event = "CLOSE"
               \/ /\ d.event = "IGNORE" /\ c.snd_max # c.end
                  /\ c.state \in {"SYN_RCVD", "ESTABLISHED", "CLOSE_WAIT"}
                  /\ d.iss = c.iss /\ d.snd_una = c.snd_una
                  /\ d.snd_nxt = c.snd_nxt /\ d.snd_max = c.snd_max
<1> DEFINE v == IF c.sock = "CONNECTED" THEN "LOCALLY_CLOSED" ELSE "CLOSED"
           a == [c EXCEPT !.closeCalled = TRUE, !.event = "CLOSE", !.sock = v]
           b == [a EXCEPT !.send_fin = TRUE, !.snd_fin_seq = c.end]
           i == [b EXCEPT !.event = "IGNORE"]
           x == [b EXCEPT !.snd_nxt = b.snd_max]
           y == sendFin(x)
           f == [y EXCEPT !.snd_nxt = SeqAdd(y.snd_nxt, 1), !.snd_max = SeqAdd(y.snd_nxt, 1)]
           o == Assert(a, FALSE, "duplicate CLOSE or connection not open")
           Alike(d) == /\ d.state = c.state /\ d.active = c.active /\ d.written = c.written
                       /\ d.rexmitTimer = c.rexmitTimer /\ d.iss = c.iss /\ d.end = c.end
                       /\ d.snd_una = c.snd_una /\ d.snd_wnd = c.snd_wnd
                       /\ d.closeCalled /\ d.sock = v
<1>0. /\ v \in SockStates /\ "CLOSE" \in Events /\ "IGNORE" \in Events /\ TRUE \in BOOLEAN
      /\ "duplicate CLOSE or connection not open" \in Errors
  BY DEF SockStates, Events, Errors
<1>a. c.end \in SeqNo /\ c.iss \in SeqNo /\ c.snd_max \in SeqNo
  BY Fields
<1>b. c.sock # "CONNECTED" => v = "CLOSED"
  OBVIOUS
<1> HIDE DEF v
<1>1. a \in Conn
  BY Zenon, <1>0, Updates
<1>2. /\ Alike(a) /\ a.event = "CLOSE" /\ a.send_fin = c.send_fin
      /\ a.snd_fin_seq = c.snd_fin_seq /\ a.snd_nxt = c.snd_nxt /\ a.snd_max = c.snd_max
  BY DEF Conn
<1> HIDE DEF a
<1>3. b \in Conn
  BY Zenon, <1>0, <1>1, <1>a, Updates
<1>4. /\ Alike(b) /\ b.event = "CLOSE" /\ b.send_fin /\ b.snd_fin_seq = c.end
      /\ b.snd_nxt = c.snd_nxt /\ b.snd_max = c.snd_max
  BY <1>1, <1>2 DEF Conn
<1> HIDE DEF b
<1>5. i \in Conn
  BY Zenon, <1>0, <1>3, Updates
<1>6. /\ Alike(i) /\ i.event = "IGNORE" /\ i.send_fin /\ i.snd_fin_seq = c.end
      /\ i.snd_nxt = c.snd_nxt /\ i.snd_max = c.snd_max
  BY <1>3, <1>4 DEF Conn
<1> HIDE DEF i
<1>7. x \in Conn
  BY Zenon, <1>3, <1>4, <1>a, Updates
<1>8. /\ Alike(x) /\ x.event = "CLOSE" /\ x.send_fin /\ x.snd_fin_seq = c.end
      /\ x.snd_nxt = c.snd_max /\ x.snd_max = c.snd_max
  BY <1>3, <1>4 DEF Conn
<1> HIDE DEF x
<1>9. Keeps(x, y)
  BY <1>7, SendKeeps
<1> HIDE DEF y
<1>10. /\ y \in Conn /\ Alike(y) /\ y.event = "CLOSE" /\ y.send_fin /\ y.snd_fin_seq = c.end
       /\ y.snd_nxt = c.snd_max
  BY <1>8, <1>9 DEF Keeps, Core
<1>11. f \in Conn
  <2>1. SeqAdd(y.snd_nxt, 1) \in SeqNo
    BY Zenon, <1>10, <1>a, Numbers
  <2> QED BY Zenon, <1>10, <2>1, Updates
<1>12. /\ Alike(f) /\ f.event = "CLOSE" /\ f.send_fin /\ f.snd_fin_seq = c.end
       /\ f.snd_nxt = SeqAdd(c.snd_max, 1) /\ f.snd_max = SeqAdd(c.snd_max, 1)
  BY <1>10 DEF Conn
<1> HIDE DEF f
<1>13. Keeps(a, o)
  BY Zenon, <1>0, <1>1, AssertKeeps
<1>14. o \in Conn /\ Alike(o) /\ o.event = "CLOSE"
  BY Zenon, <1>2, <1>13 DEF Keeps, Core
<1> HIDE DEF o
<1>15. ASSUME Flow(c) PROVE Flow(a) /\ Flow(o) /\ (c.snd_max # c.end => Flow(i))
                            /\ (c.snd_max = c.end => Flow(f))
  <2>1. CASE ~ Roomy(c.written)
    BY <1>2, <1>6, <1>12, <1>14, <2>1 DEF Flow
  <2>2. CASE Roomy(c.written)
    <3>1. InOrder(c) /\ InWindow(c) /\ Armed(c)
      BY <1>15, <2>2 DEF Flow
    <3>2. ~ c.send_fin
      BY <3>1 DEF InOrder
    <3>3. /\ Una(c) \in Nat /\ Nxt(c) \in Nat /\ Maxi(c) \in Nat /\ End(c) \in Nat
          /\ SeqMod \in Nat /\ Maxi(c) + 1 < SeqMod /\ Maxi(c) <= End(c)
          /\ Una(c) <= Nxt(c) /\ Nxt(c) <= Maxi(c) /\ End(c) <= 1 + c.written
      BY SMTT(30), <2>2, <3>1, <3>2, Offsets DEF InOrder
    <3>4. Flow(a)
      BY <1>2, <3>1, <3>2 DEF Flow, InOrder, InWindow, Armed, Una, Nxt, Maxi, End
    <3>5. Flow(o)
      BY <1>1, <1>13, <3>4, KeepsFlow
    <3>6. c.snd_max # c.end => Flow(i)
      <4>1. Una(i) = Una(c) /\ Nxt(i) = Nxt(c) /\ Maxi(i) = Maxi(c) /\ End(i) = End(c)
        BY <1>6 DEF Una, Nxt, Maxi, End
      <4>2. c.snd_max # c.end => InOrder(i)
        BY SMTT(30), <1>6, <3>3, <4>1 DEF InOrder
      <4>3. InWindow(i) /\ Armed(i)
        BY <1>6, <3>1, <4>1 DEF InWindow, Armed
      <4> QED BY <4>2, <4>3 DEF Flow
    <3>7. ASSUME c.snd_max = c.end PROVE Flow(f)
      <4>1. SeqDiff(SeqAdd(c.snd_max, 1), c.iss) = Maxi(c) + 1 /\ Maxi(c) = End(c)
        BY <1>a, <3>3, <3>7, Farther DEF Maxi, End
      <4>2. Una(f) = Una(c) /\ Nxt(f) = End(c) + 1 /\ Maxi(f) = End(c) + 1 /\ End(f) = End(c)
        BY <1>12, <4>1 DEF Una, Nxt, Maxi, End
      <4>3. f.snd_max # f.end
        BY <3>3, <4>2 DEF Maxi, End
      <4>4. InOrder(f)
        BY SMTT(30), <1>12, <3>3, <4>1, <4>2, <4>3 DEF InOrder
      <4>5. InWindow(f)
        <5>1. RcvWnd \in Nat
          BY ConnectionAssumption
        <5> QED BY SMTT(30), <1>12, <3>1, <3>3, <4>1, <4>2, <5>1 DEF InWindow
      <4>6. Armed(f)
        BY <1>12, <3>1, <3>3, <4>1, <4>2 DEF Armed
      <4> QED BY <4>4, <4>5, <4>6 DEF Flow
    <3> QED BY <3>4, <3>5, <3>6, <3>7
  <2> QED BY <2>1, <2>2
<1>16. \/ process_CLOSE(c) \in {a, o}
       \/ c.snd_max = c.end /\ process_CLOSE(c) = f
       \/ /\ c.state \in {"SYN_RCVD", "ESTABLISHED", "CLOSE_WAIT"} /\ c.snd_max # c.end
          /\ process_CLOSE(c) = i
  BY Zenon DEF process_CLOSE, sendFinNow, advanceOverOwnFin, getBufferEndSeq, v, a, b, i, x, y, f, o
<1>17. \A d : Alike(d) => (c.sock # "CONNECTED" => Told(d))
  BY <1>b DEF Told
<1>18. CASE process_CLOSE(c) = a
  BY <1>1, <1>2, <1>15, <1>17, <1>18
<1>19. CASE process_CLOSE(c) = o
  BY <1>14, <1>15, <1>17, <1>19
<1>20. CASE c.snd_max = c.end /\ process_CLOSE(c) = f
  BY <1>11, <1>12, <1>15, <1>17, <1>20
<1>21. CASE /\ c.state \in {"SYN_RCVD", "ESTABLISHED", "CLOSE_WAIT"} /\ c.snd_max # c.end
            /\ process_CLOSE(c) = i
  BY <1>5, <1>6, <1>15, <1>17, <1>21
<1> QED BY Zenon, <1>16, <1>18, <1>19, <1>20, <1>21
=============================================================================
