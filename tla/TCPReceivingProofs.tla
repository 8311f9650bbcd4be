------------------------- MODULE TCPReceivingProofs -------------------------
(***************************************************************************)
(* The receiving side of a connection of TCPPair, which leaves the sender  *)
(* alone, its state transitions, and the handlers of the segments and      *)
(* timers of a synchronised connection, each up to its transition.         *)
(***************************************************************************)
EXTENDS TCPSendingProofs, TLAPS

(***************************************************************************)
(* The receive queue.                                                      *)
(***************************************************************************)
\* merge() leaves regions, and at least one (shown at the end, as it takes an induction).
MergeTyped ==
  \A list \in Seq(Region), from \in SeqNo, to \in SeqNo :
    merge(list, from, to) \in Seq(Region) /\ merge(list, from, to)[1] \in Region

\* Octets go into the queue and out of it.
LEMMA QueueTyped ==
  ASSUME NEW q \in RcvQueue, NEW seq \in SeqNo, NEW len \in Nat
  PROVE  /\ MergeTyped => insertBytesFromSegment(q, seq, len) \in RcvQueue
         /\ extractTo(q, seq) \in RcvQueue /\ extractedOctets(q, seq) \in Nat
         /\ rcvInit(q, seq) \in RcvQueue
<1>0. q.rcv_nxt \in SeqNo /\ q.regionList \in Seq(Region)
  BY DEF RcvQueue
<1>1. ASSUME MergeTyped PROVE insertBytesFromSegment(q, seq, len) \in RcvQueue
  <2> DEFINE list == merge(q.regionList, seq, SeqAdd(seq, len))
  <2>1. list \in Seq(Region) /\ list[1] \in Region
    BY Zenon, <1>0, <1>1, Numbers DEF MergeTyped
  <2>2. insertBytesFromSegment(q, seq, len) =
          [rcv_nxt    |-> IF seqGE(q.rcv_nxt, list[1].begin) THEN list[1].end ELSE q.rcv_nxt,
           regionList |-> list]
    BY Zenon DEF insertBytesFromSegment
  <2> HIDE DEF list
  <2>3. list[1].end \in SeqNo
    BY <2>1 DEF Region
  <2> QED BY <1>0, <2>1, <2>2, <2>3 DEF RcvQueue
<1>2. rcvInit(q, seq) \in RcvQueue
  BY DEF rcvInit, RcvQueue
<1>3. ~ nothingToExtract(q, seq) =>
        /\ q.regionList[1] \in Region /\ Tail(q.regionList) \in Seq(Region)
        /\ q.regionList[1].begin \in SeqNo /\ q.regionList[1].end \in SeqNo
  <2> SUFFICES ASSUME q.regionList # <<>>
               PROVE  /\ q.regionList[1] \in Region /\ Tail(q.regionList) \in Seq(Region)
                      /\ q.regionList[1].begin \in SeqNo /\ q.regionList[1].end \in SeqNo
    BY DEF nothingToExtract
  <2>1. q.regionList[1] \in Region /\ Tail(q.regionList) \in Seq(Region)
    BY <1>0
  <2> QED BY <2>1 DEF Region
<1>4. extractedOctets(q, seq) \in Nat
  BY Zenon, <1>3, Numbers DEF extractedOctets, EarlierOf
<1>5. extractTo(q, seq) \in RcvQueue
  <2> DEFINE e == q.regionList[1].end
             h == [begin |-> seq, end |-> e]
             t == Tail(q.regionList)
  <2>1. ~ nothingToExtract(q, seq) => t \in Seq(Region) /\ <<h>> \o t \in Seq(Region)
    <3> SUFFICES ASSUME ~ nothingToExtract(q, seq)
                 PROVE  t \in Seq(Region) /\ <<h>> \o t \in Seq(Region)
      OBVIOUS
    <3>1. t \in Seq(Region) /\ h \in Region
      BY <1>3 DEF Region
    <3> HIDE DEF t, h
    <3> QED BY <3>1
  <2>2. \/ extractTo(q, seq) = q
        \/ /\ ~ nothingToExtract(q, seq)
           /\ extractTo(q, seq) \in {[q EXCEPT !.regionList = <<h>> \o t],
                                     [q EXCEPT !.regionList = t]}
    BY Zenon DEF extractTo
  <2> HIDE DEF h, t
  <2>3. \A l \in Seq(Region) : [q EXCEPT !.regionList = l] \in RcvQueue
    BY DEF RcvQueue
  <2> QED BY Zenon, <2>1, <2>2, <2>3
<1> QED BY <1>1, <1>2, <1>4, <1>5

(***************************************************************************)
(* Receiving: nothing of the sender changes, and an application that knows *)
(* that the connection is gone does not forget it.                         *)
(***************************************************************************)
Receives(c, d) ==
  /\ d \in Conn /\ Core(d) = Core(c)
  /\ d.snd_nxt = c.snd_nxt /\ d.rexmitTimer = c.rexmitTimer
  /\ Told(c) => Told(d)

\* Receiving in several steps.
LEMMA ReceivesSteps ==
  ASSUME NEW c \in Conn
  PROVE  /\ Receives(c, c)
         /\ \A d, f : Receives(c, d) /\ Receives(d, f) => Receives(c, f)
         /\ \A d : Receives(c, d) => d \in Conn /\ d.state = c.state
         /\ \A d : Keeps(c, d) => Receives(c, d) /\ d.event = c.event
         /\ \A d : KeepsButSock(c, d) /\ (Told(c) => Told(d)) =>
              Receives(c, d) /\ d.event = c.event
         /\ \A v \in Events : /\ Receives(c, [c EXCEPT !.event = v])
                              /\ [c EXCEPT !.event = v].event = v
                              /\ Told([c EXCEPT !.event = v]) <=> Told(c)
<1>1. /\ Receives(c, c)
      /\ \A d, f : Receives(c, d) /\ Receives(d, f) => Receives(c, f)
  BY Zenon DEF Receives
<1>2. \A d : Receives(c, d) => d \in Conn /\ d.state = c.state
  BY DEF Receives, Core
<1>3. \A d : Keeps(c, d) => Receives(c, d) /\ d.event = c.event
  BY DEF Receives, Keeps, Told
<1>4. \A d : KeepsButSock(c, d) /\ (Told(c) => Told(d)) => Receives(c, d) /\ d.event = c.event
  BY DEF Receives, KeepsButSock
<1>5. ASSUME NEW v \in Events
      PROVE  /\ Receives(c, [c EXCEPT !.event = v])
             /\ [c EXCEPT !.event = v].event = v
             /\ Told([c EXCEPT !.event = v]) <=> Told(c)
  <2>1. [c EXCEPT !.event = v] \in Conn
    BY Zenon, Updates
  <2>2. /\ Core([c EXCEPT !.event = v]) = Core(c)
        /\ [c EXCEPT !.event = v].snd_nxt = c.snd_nxt
        /\ [c EXCEPT !.event = v].rexmitTimer = c.rexmitTimer
        /\ [c EXCEPT !.event = v].sock = c.sock /\ [c EXCEPT !.event = v].event = v
    BY DEF Conn, Core
  <2> QED BY <2>1, <2>2 DEF Receives, Told
<1> QED BY <1>1, <1>2, <1>3, <1>4, <1>5

\* The fields of the receiver.
LEMMA ReceiverFields ==
  ASSUME NEW c \in Conn
  PROVE  /\ \A v \in RcvQueue : Keeps(c, [c EXCEPT !.rcvQueue = v])
         /\ \A v \in SeqNo : Keeps(c, [c EXCEPT !.rcv_nxt = v])
         /\ \A v \in SeqNo : Keeps(c, [c EXCEPT !.rcv_fin_seq = v])
         /\ \A v \in BOOLEAN : Keeps(c, [c EXCEPT !.fin_rcvd = v])
         /\ \A v \in TimerState : Keeps(c, [c EXCEPT !.the2MSLTimer = v])
<1>1. ASSUME NEW v \in RcvQueue PROVE Keeps(c, [c EXCEPT !.rcvQueue = v])
  <2>1. [c EXCEPT !.rcvQueue = v] \in Conn
    BY Zenon, Updates
  <2> QED BY <2>1 DEF Conn, Keeps, Core
<1>2. ASSUME NEW v \in SeqNo
      PROVE  Keeps(c, [c EXCEPT !.rcv_nxt = v]) /\ Keeps(c, [c EXCEPT !.rcv_fin_seq = v])
  <2>1. [c EXCEPT !.rcv_nxt = v] \in Conn /\ [c EXCEPT !.rcv_fin_seq = v] \in Conn
    BY Zenon, Updates
  <2> QED BY <2>1 DEF Conn, Keeps, Core
<1>3. ASSUME NEW v \in BOOLEAN PROVE Keeps(c, [c EXCEPT !.fin_rcvd = v])
  <2>1. [c EXCEPT !.fin_rcvd = v] \in Conn
    BY Zenon, Updates
  <2> QED BY <2>1 DEF Conn, Keeps, Core
<1>4. ASSUME NEW v \in TimerState PROVE Keeps(c, [c EXCEPT !.the2MSLTimer = v])
  <2>1. [c EXCEPT !.the2MSLTimer = v] \in Conn
    BY Zenon, Updates
  <2> QED BY <2>1 DEF Conn, Keeps, Core
<1> QED BY Zenon, <1>1, <1>2, <1>3, <1>4

\* rcv_nxt advances over the FIN, and the peer's close is reported.
LEMMA AdvanceOverFinReceives ==
  ASSUME NEW c \in Conn
  PROVE  Receives(c, advanceOverFin(c)) /\ advanceOverFin(c).event = c.event
<1> DEFINE a == [c EXCEPT !.rcv_nxt = SeqAdd(c.rcv_nxt, 1)]
           d == indicatePeerClosed(a)
<1>1. Keeps(c, a)
  BY Zenon, Fields, Numbers, ReceiverFields
<1> HIDE DEF a
<1>2. a \in Conn /\ Receives(c, a) /\ a.event = c.event
  BY <1>1, KeepsSteps, ReceivesSteps
<1>3. KeepsButSock(a, d) /\ (Told(a) => Told(d))
  BY <1>2, IndicationsKeep
<1> HIDE DEF d
<1>4. Receives(a, d) /\ d.event = a.event
  BY <1>2, <1>3, ReceivesSteps
<1>5. advanceOverFin(c) = d
  BY Zenon DEF advanceOverFin, d, a
<1> QED BY <1>2, <1>4, <1>5, ReceivesSteps

\* Text changes the receive queue and is passed up.
LEMMA TextReceives ==
  ASSUME MergeTyped, NEW c \in Conn, NEW s \in Segment
  PROVE  Receives(c, processText(c, s)) /\ processText(c, s).event = c.event
<1> DEFINE q == insertBytesFromSegment(c.rcvQueue, s.seq, s.len)
           y == [c EXCEPT !.rcvQueue = q]
           a == [y EXCEPT !.rcv_nxt = q.rcv_nxt]
           r == extractTo(a.rcvQueue, a.rcv_nxt)
           n == extractedOctets(a.rcvQueue, a.rcv_nxt)
           t == Assert(a, extractAssertions(a.rcvQueue, a.rcv_nxt)
                            /\ extractAssertions(r, a.rcv_nxt), "extractTo")
           z == [t EXCEPT !.rcvQueue = r]
           b == indicateData(z, n)
           P(d) == Receives(c, d) /\ d.event = c.event
<1>0. "extractTo" \in Errors /\ s.seq \in SeqNo /\ s.len \in Nat /\ c.rcvQueue \in RcvQueue
  BY Fields DEF Errors, Segment
<1>1. q \in RcvQueue
  BY <1>0, QueueTyped
<1>a. q.rcv_nxt \in SeqNo
  <2> HIDE DEF q
  <2> QED BY <1>1 DEF RcvQueue
<1> HIDE DEF q
<1>2. Keeps(c, a)
  <2>1. Keeps(c, y)
    BY <1>1, ReceiverFields
  <2> HIDE DEF y
  <2>2. Keeps(y, a)
    BY <1>a, <2>1, ReceiverFields, KeepsSteps
  <2> QED BY <2>1, <2>2, KeepsSteps
<1> HIDE DEF a
<1>3. a \in Conn /\ P(a)
  BY <1>2, KeepsSteps, ReceivesSteps
<1>4. r \in RcvQueue /\ n \in Nat
  <2>1. a.rcvQueue \in RcvQueue /\ a.rcv_nxt \in SeqNo
    BY <1>3, Fields
  <2> QED BY <2>1, QueueTyped
<1> HIDE DEF r, n
<1>5. Keeps(a, t)
  BY Zenon, <1>0, <1>3, AssertKeeps
<1> HIDE DEF t
<1>6. Keeps(t, z)
  BY <1>3, <1>4, <1>5, ReceiverFields, KeepsSteps
<1> HIDE DEF z
<1>7. Keeps(a, z) /\ z \in Conn
  BY <1>3, <1>5, <1>6, KeepsSteps
<1>8. Keeps(z, b)
  BY <1>4, <1>7, IndicationsKeep
<1> HIDE DEF b
<1>9. Keeps(c, b) /\ b \in Conn
  BY <1>2, <1>7, <1>8, KeepsSteps
<1>10. P(b) /\ P(advanceOverFin(b))
  <2>1. P(b)
    BY <1>9, ReceivesSteps
  <2> QED BY <1>9, <2>1, AdvanceOverFinReceives, ReceivesSteps
<1>11. P(c) /\ P(sendAck(a))
  <2>1. Keeps(c, sendAck(a))
    BY <1>2, <1>3, SendKeeps, KeepsSteps
  <2> QED BY <2>1, ReceivesSteps
<1>12. processText(c, s) \in {c, sendAck(a), b, advanceOverFin(b)}
  BY Zenon DEF processText, forwardData, q, a, r, n, t, z, b
<1> QED BY <1>10, <1>11, <1>12

\* A FIN in sequence is passed up, one above sequence is remembered.
LEMMA NoteFinReceives ==
  ASSUME NEW c \in Conn, NEW s \in Segment
  PROVE  Receives(c, noteFin(c, s)) /\ noteFin(c, s).event = c.event
<1> DEFINE v == SeqAdd(s.seq, s.len)
           x == [c EXCEPT !.fin_rcvd = TRUE]
           y == [x EXCEPT !.rcv_fin_seq = v]
<1>0. s.seq \in SeqNo /\ s.len \in Nat /\ TRUE \in BOOLEAN
  BY DEF Segment
<1>1. v \in SeqNo
  BY Zenon, <1>0, Numbers
<1> HIDE DEF v
<1>2. Keeps(c, x)
  BY Zenon, <1>0, ReceiverFields
<1> HIDE DEF x
<1>3. Keeps(x, y)
  BY <1>1, <1>2, ReceiverFields, KeepsSteps
<1> HIDE DEF y
<1>4. Receives(c, y) /\ y.event = c.event
  BY <1>2, <1>3, KeepsSteps, ReceivesSteps
<1>5. noteFin(c, s) \in {advanceOverFin(c), y}
  BY Zenon DEF noteFin, v, x, y
<1> QED BY <1>4, <1>5, AdvanceOverFinReceives

\* What a FIN makes of the connection: 2MSL is started with the indication that
\* the connection is gone.
FinEffect(c, d) ==
  \/ d.event = c.event
  \/ d.event = "RCV_FIN" /\ (c.state = "FIN_WAIT_2" => Told(d))
  \/ d.event = "RCV_FIN_ACK" /\ c.state = "FIN_WAIT_1" /\ Told(d)

\* processFin() only receives: it leaves what the sender tracks, except that it acknowledges.
LEMMA FinReceives ==
  ASSUME NEW c \in Conn, NEW s \in Segment
  PROVE  Receives(c, processFin(c, s)) /\ FinEffect(c, processFin(c, s))
<1> DEFINE m == noteFin(c, s)
           a == [m EXCEPT !.event = "RCV_FIN"]
           timeWait == \/ c.state = "FIN_WAIT_1" /\ c.fin_ack_rcvd
                       \/ c.state = "FIN_WAIT_2"
           t == schedule2MSL(a)
           b == indicateClosed(t)
           f == [b EXCEPT !.event = "RCV_FIN_ACK"]
           g == [b EXCEPT !.event = "RCV_FIN"]
           h == [a EXCEPT !.the2MSLTimer = "idle"]
           k == schedule2MSL(h)
<1>0. "RCV_FIN" \in Events /\ "RCV_FIN_ACK" \in Events /\ "idle" \in TimerState
  BY DEF Events, TimerState
<1>1. Receives(c, m) /\ m \in Conn
  BY NoteFinReceives, ReceivesSteps
<1> HIDE DEF m
<1>2. Receives(m, a) /\ a.event = "RCV_FIN"
  BY <1>0, <1>1, ReceivesSteps
<1> HIDE DEF a
<1>3. Receives(c, a) /\ a \in Conn /\ a.state = c.state
  BY <1>1, <1>2, ReceivesSteps
<1>4. Keeps(a, t)
  BY <1>3, TimersKeep
<1> HIDE DEF t
<1>5. Receives(a, t) /\ t \in Conn
  BY <1>3, <1>4, ReceivesSteps
<1>6. KeepsButSock(t, b) /\ Told(b)
  BY <1>5, IndicationsKeep
<1> HIDE DEF b
<1>7. Receives(t, b) /\ b \in Conn
  BY <1>5, <1>6, ReceivesSteps
<1>8. Receives(a, b) /\ Receives(c, b)
  BY <1>3, <1>5, <1>7, ReceivesSteps
<1>9. /\ Receives(b, f) /\ f.event = "RCV_FIN_ACK" /\ Told(f)
      /\ Receives(b, g) /\ g.event = "RCV_FIN" /\ Told(g)
  BY <1>0, <1>6, <1>7, ReceivesSteps
<1> HIDE DEF f, g
<1>10. Receives(c, f) /\ Receives(c, g)
  BY <1>7, <1>8, <1>9, ReceivesSteps
<1>11. Keeps(a, h)
  BY <1>0, <1>3, ReceiverFields
<1> HIDE DEF h
<1>12. Keeps(h, k)
  BY <1>3, <1>11, TimersKeep, KeepsSteps
<1> HIDE DEF k
<1>13. Receives(c, k) /\ k.event = "RCV_FIN"
  BY <1>2, <1>3, <1>11, <1>12, ReceivesSteps, KeepsSteps
<1>14. \/ processFin(c, s) = c
       \/ c.state = "FIN_WAIT_1" /\ processFin(c, s) = f
       \/ c.state = "FIN_WAIT_2" /\ processFin(c, s) = g
       \/ c.state = "TIME_WAIT" /\ processFin(c, s) = k
       \/ c.state # "FIN_WAIT_2" /\ processFin(c, s) = a
  <2>1. CASE "FIN" \notin s.flags
    BY <2>1 DEF processFin
  <2>2. CASE "FIN" \in s.flags /\ timeWait /\ c.state = "FIN_WAIT_1"
    BY <2>2 DEF processFin, m, a, t, b, f
  <2>3. CASE "FIN" \in s.flags /\ timeWait /\ c.state # "FIN_WAIT_1"
    BY <2>3 DEF processFin, m, a, t, b, g
  <2>4. CASE "FIN" \in s.flags /\ ~ timeWait /\ c.state = "TIME_WAIT"
    BY <2>4 DEF processFin, m, a, h, k
  <2>5. CASE "FIN" \in s.flags /\ ~ timeWait /\ c.state # "TIME_WAIT"
    BY <2>5 DEF processFin, m, a
  <2> QED BY <2>1, <2>2, <2>3, <2>4, <2>5
<1>15. CASE processFin(c, s) = c
  BY <1>15, ReceivesSteps DEF FinEffect
<1>16. CASE processFin(c, s) = f /\ c.state = "FIN_WAIT_1"
  BY <1>9, <1>10, <1>16 DEF FinEffect
<1>17. CASE processFin(c, s) = g
  BY <1>9, <1>10, <1>17 DEF FinEffect
<1>18. CASE processFin(c, s) = k /\ c.state = "TIME_WAIT"
  BY <1>13, <1>18 DEF FinEffect
<1>19. CASE processFin(c, s) = a /\ c.state # "FIN_WAIT_2"
  BY <1>2, <1>3, <1>19 DEF FinEffect
<1> QED BY <1>14, <1>15, <1>16, <1>17, <1>18, <1>19

\* The ACK of the own FIN, in the closing states.
LEMMA ClosingReceives ==
  ASSUME NEW c \in Conn
  PROVE  LET d == processAckWhileClosing(c)
         IN /\ Receives(c, d)
            /\ \/ d.event = c.event
               \/ d.event = "RCV_ACK" /\ c.state \in {"FIN_WAIT_1", "CLOSING"}
                  /\ (c.state = "CLOSING" => Told(d))
<1> DEFINE a == [c EXCEPT !.event = "RCV_ACK"]
           t == schedule2MSL(c)
           b == indicateClosed(t)
           f == [b EXCEPT !.event = "RCV_ACK"]
           u == sendAck(c)
           h == [u EXCEPT !.the2MSLTimer = "idle"]
           k == schedule2MSL(h)
<1>0. "RCV_ACK" \in Events /\ "idle" \in TimerState
  BY DEF Events, TimerState
<1>1. Receives(c, a) /\ a.event = "RCV_ACK"
  BY <1>0, ReceivesSteps
<1> HIDE DEF a
<1>2. Keeps(c, t)
  BY TimersKeep
<1> HIDE DEF t
<1>3. Receives(c, t) /\ t \in Conn
  BY <1>2, ReceivesSteps
<1>4. KeepsButSock(t, b) /\ Told(b)
  BY <1>3, IndicationsKeep
<1> HIDE DEF b
<1>5. Receives(t, b) /\ b \in Conn
  BY <1>3, <1>4, ReceivesSteps
<1>6. Receives(b, f) /\ f.event = "RCV_ACK" /\ Told(f)
  BY <1>0, <1>4, <1>5, ReceivesSteps
<1> HIDE DEF f
<1>7. Receives(c, f)
  BY <1>3, <1>5, <1>6, ReceivesSteps
<1>8. Keeps(c, u)
  BY SendKeeps
<1> HIDE DEF u
<1>9. Keeps(u, h)
  BY <1>0, <1>8, ReceiverFields, KeepsSteps
<1> HIDE DEF h
<1>10. Keeps(c, h) /\ h \in Conn
  BY <1>8, <1>9, KeepsSteps
<1>11. Keeps(h, k)
  BY <1>10, TimersKeep
<1> HIDE DEF k
<1>12. Receives(c, k) /\ k.event = c.event
  BY <1>10, <1>11, KeepsSteps, ReceivesSteps
<1>13. CASE c.state = "FIN_WAIT_1" /\ c.fin_ack_rcvd
  <2>1. processAckWhileClosing(c) = a
    BY <1>13 DEF processAckWhileClosing, a
  <2> QED BY <1>1, <1>13, <2>1
<1>14. CASE c.state = "CLOSING" /\ c.fin_ack_rcvd
  <2>1. processAckWhileClosing(c) = f
    BY <1>14 DEF processAckWhileClosing, t, b, f
  <2> QED BY <1>6, <1>7, <1>14, <2>1
<1>15. CASE c.state = "TIME_WAIT"
  <2>1. processAckWhileClosing(c) = k
    BY <1>15 DEF processAckWhileClosing, u, h, k
  <2> QED BY <1>12, <2>1
<1>16. CASE /\ ~ (c.state = "FIN_WAIT_1" /\ c.fin_ack_rcvd)
            /\ ~ (c.state = "CLOSING" /\ c.fin_ack_rcvd) /\ c.state # "TIME_WAIT"
  <2>1. processAckWhileClosing(c) = c
    BY <1>16 DEF processAckWhileClosing
  <2> QED BY <2>1, ReceivesSteps
<1> QED BY <1>13, <1>14, <1>15, <1>16

\* A handler that leaves the fixed fields alone, and keeps the order, the window
\* and the timer.
Handles(c, d) == d \in Conn /\ Base(d) = Base(c) /\ (Flow(c) => Flow(d))

\* Sending and receiving are handled alike.
LEMMA HandlesSteps ==
  ASSUME NEW c \in Conn
  PROVE  /\ Handles(c, c)
         /\ \A d, f : Handles(c, d) /\ Handles(d, f) => Handles(c, f)
         /\ \A d : Handles(c, d) => d \in Conn /\ d.state = c.state /\ d.written = c.written
         /\ \A d : Goes(c, d) => Handles(c, d) /\ d.event = c.event /\ d.sock = c.sock
         /\ \A d : Receives(c, d) => Handles(c, d)
         /\ \A d : KeepsButSock(c, d) => Handles(c, d) /\ d.event = c.event
         /\ \A d : Keeps(c, d) => Handles(c, d) /\ d.event = c.event /\ d.sock = c.sock
<1>1. /\ Handles(c, c)
      /\ \A d, f : Handles(c, d) /\ Handles(d, f) => Handles(c, f)
  BY Zenon DEF Handles
<1>2. \A d : Handles(c, d) => d \in Conn /\ d.state = c.state /\ d.written = c.written
  BY DEF Handles, Base
<1>3. \A d : Goes(c, d) => Handles(c, d) /\ d.event = c.event /\ d.sock = c.sock
  BY DEF Goes, Moves, Handles
<1>4. ASSUME NEW d, d \in Conn, Core(d) = Core(c), d.snd_nxt = c.snd_nxt,
             d.rexmitTimer = c.rexmitTimer
      PROVE  Handles(c, d)
  <2>1. Base(d) = Base(c)
    BY <1>4 DEF Core, Base
  <2>2. /\ d.iss = c.iss /\ d.snd_una = c.snd_una /\ d.snd_nxt = c.snd_nxt
        /\ d.snd_max = c.snd_max /\ d.end = c.end /\ d.snd_wnd = c.snd_wnd
        /\ d.send_fin = c.send_fin /\ d.snd_fin_seq = c.snd_fin_seq
        /\ d.closeCalled = c.closeCalled /\ d.written = c.written
        /\ d.rexmitTimer = c.rexmitTimer
    BY <1>4 DEF Core
  <2>3. Flow(d) <=> Flow(c)
    BY Zenon, <2>2 DEF Flow, InOrder, InWindow, Armed, Una, Nxt, Maxi, End
  <2> QED BY <1>4, <2>1, <2>3 DEF Handles
<1>5. \A d : Receives(c, d) => Handles(c, d)
  BY <1>4 DEF Receives
<1>6. \A d : KeepsButSock(c, d) => Handles(c, d) /\ d.event = c.event
  BY <1>4 DEF KeepsButSock
<1>7. \A d : Keeps(c, d) => Handles(c, d) /\ d.event = c.event /\ d.sock = c.sock
  BY <1>4 DEF Keeps
<1> QED BY <1>1, <1>2, <1>3, <1>5, <1>6, <1>7

\* Steps six to eight of processSegment1stThru8th().
LEMMA TextAndFinReceives ==
  ASSUME MergeTyped, NEW c \in Conn, NEW s \in Segment, NEW old
  PROVE  LET d == processTextAndFin(c, s, old)
         IN Receives(c, d) /\ (FinEffect(c, d) \/ d.event = "CLOSE")
<1> DEFINE t == processText(c, s)
           a == processFin(t, s)
           b == IF a.rcv_nxt # c.rcv_nxt THEN sendAck(a) ELSE a
           e == [b EXCEPT !.event = "CLOSE"]
<1>0. "CLOSE" \in Events
  BY DEF Events
<1>1. Receives(c, t) /\ t.event = c.event /\ t \in Conn /\ t.state = c.state
  BY TextReceives, ReceivesSteps
<1> HIDE DEF t
<1>2. Receives(t, a) /\ FinEffect(t, a)
  BY <1>1, FinReceives
<1> HIDE DEF a
<1>3. Receives(c, a) /\ FinEffect(c, a) /\ a \in Conn
  <2>1. Receives(c, a)
    BY <1>1, <1>2, ReceivesSteps
  <2> QED BY <1>1, <1>2, <2>1, ReceivesSteps DEF FinEffect
<1>4. Keeps(a, b)
  BY <1>3, SendKeeps, KeepsSteps
<1> HIDE DEF b
<1>5. Receives(c, b) /\ FinEffect(c, b) /\ b \in Conn
  <2>1. Receives(a, b) /\ b.event = a.event /\ (Told(a) => Told(b))
    BY <1>3, <1>4, ReceivesSteps DEF Receives
  <2>2. Receives(c, b)
    BY <1>3, <2>1, ReceivesSteps
  <2> QED BY <1>3, <2>1, <2>2, ReceivesSteps DEF FinEffect
<1>6. Receives(c, e) /\ e.event = "CLOSE"
  BY <1>0, <1>5, ReceivesSteps
<1> HIDE DEF e
<1>7. processTextAndFin(c, s, old) \in {b, e}
  BY Zenon DEF processTextAndFin, deferredClose, t, a, b, e
<1> QED BY <1>5, <1>6, <1>7

\* What an ACK segment makes of the connection: in SYN_RCVD it establishes it or
\* leaves it; the application is told before 2MSL is started and before LAST_ACK ends.
AckEffect(c, d) ==
  /\ d.event \in {"IGNORE", "RCV_ACK", "RCV_FIN", "RCV_FIN_ACK", "CLOSE"}
  /\ d.event = "RCV_ACK" => c.state \in {"SYN_RCVD", "FIN_WAIT_1"} \/ Told(d)
  /\ d.event = "RCV_FIN" => (c.state = "FIN_WAIT_2" => Told(d))
  /\ d.event = "RCV_FIN_ACK" => c.state = "FIN_WAIT_1" /\ Told(d)
  /\ c.state # "SYN_RCVD" => (Told(c) => Told(d))
  /\ c.state = "SYN_RCVD" => d.event # "IGNORE" \/ Keeps(c, d)

\* So does the whole of the ACK path of processSegment1stThru8th(), which also takes the
\* acknowledgement and may send what it frees.
LEMMA AckSegmentHandles ==
  ASSUME MergeTyped, NEW c \in Conn, NEW s \in Segment, c.event = "IGNORE",
         c.state = "SYN_RCVD" => c.snd_nxt = c.snd_max
  PROVE  Handles(c, processAckSegment(c, s)) /\ AckEffect(c, processAckSegment(c, s))
<1> DEFINE m == established(c, FALSE)
           p == sendEstabIndicationToApp(m)
           q == [p EXCEPT !.event = "RCV_ACK"]
           a == IF c.state = "SYN_RCVD" THEN q ELSE c
           b == IF c.state \in AckStates THEN processAckInEstabEtc(a, s) ELSE a
           r == sendRst(c, s.ack)
           i == [b EXCEPT !.event = "IGNORE"]
           k == indicateClosed(c)
           l == [k EXCEPT !.event = "RCV_ACK"]
           w == processAckWhileClosing(b)
           x == processTextAndFin(w, s, c.snd_nxt)
           refused == c.state = "SYN_RCVD" /\ ~ (seqLE(c.snd_una, s.ack) /\ seqLE(s.ack, c.snd_nxt))
           unsent == c.state \in AckStates /\ acksUnsent(a, s)
           last == c.state = "LAST_ACK" /\ c.send_fin /\ s.ack = SeqAdd(c.snd_fin_seq, 1)
<1>0. "RCV_ACK" \in Events /\ "IGNORE" \in Events /\ s.ack \in SeqNo
  BY DEF Events, Segment
<1>1. Keeps(c, m)
  <2>1. m = IF Alg = "DumbTCP" THEN c ELSE setCwnd(c, MSS)
    BY DEF established
  <2> QED BY Zenon, <2>1, CwndKeeps, KeepsSteps, ConnectionAssumption
<1> HIDE DEF m
<1>2. KeepsButSock(m, p) /\ m \in Conn
  BY <1>1, IndicationsKeep, KeepsSteps
<1> HIDE DEF p
<1>3. Handles(c, p) /\ p \in Conn /\ p.snd_max = c.snd_max
  <2>1. Handles(c, m) /\ Handles(m, p)
    BY <1>1, <1>2, HandlesSteps
  <2>2. p.snd_max = c.snd_max
    BY <1>1, <1>2 DEF Keeps, KeepsButSock, Core
  <2> QED BY <2>1, <2>2, HandlesSteps
<1>4. Handles(c, q) /\ q.event = "RCV_ACK" /\ q.snd_max = c.snd_max
  <2>1. Receives(p, q) /\ q.event = "RCV_ACK"
    BY <1>0, <1>3, ReceivesSteps
  <2> HIDE DEF q
  <2>2. Handles(p, q) /\ q.snd_max = p.snd_max
    BY Zenon, <1>3, <2>1, HandlesSteps DEF Receives, Core
  <2> QED BY <1>3, <2>1, <2>2, HandlesSteps
<1> HIDE DEF q
<1>5. /\ Handles(c, a) /\ a \in Conn /\ a.snd_max = c.snd_max
      /\ a.event = IF c.state = "SYN_RCVD" THEN "RCV_ACK" ELSE "IGNORE"
      /\ c.state # "SYN_RCVD" => (Told(c) => Told(a))
  BY <1>4, HandlesSteps
<1> HIDE DEF a
<1>6. Goes(a, b)
  BY Zenon, <1>5, AckGoes, GoesSteps
<1> HIDE DEF b
<1>7. /\ Handles(c, b) /\ b \in Conn /\ b.event = a.event /\ b.state = c.state
      /\ Told(a) => Told(b)
  <2>1. Handles(a, b) /\ b.event = a.event /\ b.sock = a.sock
    BY <1>5, <1>6, HandlesSteps
  <2>2. Handles(c, b)
    BY Zenon, <1>5, <2>1, HandlesSteps
  <2> QED BY <2>1, <2>2, HandlesSteps DEF Told
<1>8. Handles(c, r) /\ Keeps(c, r) /\ r.event = "IGNORE" /\ (Told(c) => Told(r))
  BY <1>0, SendKeeps, HandlesSteps DEF Told
<1> HIDE DEF r
<1>9. Handles(c, i) /\ i.event = "IGNORE" /\ (Told(b) => Told(i))
  <2>1. Receives(b, i) /\ i.event = "IGNORE" /\ (Told(b) => Told(i))
    BY <1>0, <1>7, ReceivesSteps
  <2> HIDE DEF i
  <2> QED BY Zenon, <1>7, <2>1, HandlesSteps
<1> HIDE DEF i
<1>10. Handles(c, l) /\ l.event = "RCV_ACK" /\ Told(l)
  <2>1. KeepsButSock(c, k) /\ Told(k)
    BY IndicationsKeep
  <2> HIDE DEF k
  <2>2. Handles(c, k) /\ k \in Conn
    BY Zenon, <2>1, HandlesSteps
  <2>3. Receives(k, l) /\ l.event = "RCV_ACK" /\ Told(l)
    BY <1>0, <2>1, <2>2, ReceivesSteps
  <2> HIDE DEF l
  <2> QED BY <2>2, <2>3, HandlesSteps
<1> HIDE DEF l
<1>11. /\ Receives(b, w)
       /\ \/ w.event = b.event
          \/ w.event = "RCV_ACK" /\ b.state \in {"FIN_WAIT_1", "CLOSING"}
             /\ (b.state = "CLOSING" => Told(w))
  BY <1>7, ClosingReceives
<1> HIDE DEF w
<1>12. w \in Conn /\ w.state = c.state
  BY <1>7, <1>11, ReceivesSteps
<1>13. Receives(w, x) /\ (FinEffect(w, x) \/ x.event = "CLOSE")
  BY <1>12, TextAndFinReceives
<1> HIDE DEF x
<1>14. Handles(c, x)
  <2>1. Handles(b, w) /\ Handles(w, x)
    BY <1>7, <1>11, <1>12, <1>13, HandlesSteps
  <2> QED BY <1>7, <2>1, HandlesSteps
<1>15. (Told(b) => Told(w)) /\ (Told(w) => Told(x))
  BY <1>11, <1>13 DEF Receives
<1>16. c.state = "SYN_RCVD" => refused \/ ~ unsent
  BY <1>5 DEF acksUnsent
<1>17. processAckSegment(c, s) = IF refused THEN r ELSE IF unsent THEN i
                                 ELSE IF last THEN l ELSE x
  BY Zenon DEF processAckSegment, m, p, q, a, b, r, i, k, l, w, x
<1> HIDE DEF refused, unsent
<1>18. CASE refused
  BY <1>8, <1>17, <1>18 DEF AckEffect
<1>19. CASE ~ refused /\ unsent
  BY <1>5, <1>7, <1>9, <1>16, <1>17, <1>19 DEF AckEffect
<1>20. CASE ~ refused /\ ~ unsent /\ last
  BY Zenon, <1>10, <1>17, <1>20 DEF AckEffect
<1>21. CASE ~ refused /\ ~ unsent /\ ~ last
  <2>1. AckEffect(c, x)
    BY Zenon, <1>5, <1>7, <1>11, <1>12, <1>13, <1>15 DEF AckEffect, FinEffect
  <2> QED BY <1>14, <1>17, <1>21, <2>1
<1> QED BY <1>18, <1>19, <1>20, <1>21

(***************************************************************************)
(* The state transition.                                                   *)
(***************************************************************************)
\* The nested switch of performStateTransition(), column by column: which state
\* and event lead to another state.
Switch(st, ev, active, next) ==
  \/ /\ next = "LISTEN"
     /\ \/ st = "INIT" /\ ev = "OPEN_PASSIVE"
        \/ st = "SYN_RCVD" /\ ev \in {"TIMEOUT_CONN_ESTAB", "RCV_RST"} /\ ~ active
  \/ /\ next = "SYN_SENT"
     /\ \/ st = "INIT" /\ ev = "OPEN_ACTIVE"
        \/ st = "LISTEN" /\ ev \in {"OPEN_ACTIVE", "SEND"}
  \/ /\ next = "SYN_RCVD"
     /\ \/ st = "LISTEN" /\ ev = "RCV_SYN"
        \/ st = "SYN_SENT" /\ ev = "RCV_SYN"
  \/ /\ next = "ESTABLISHED"
     /\ \/ st = "SYN_RCVD" /\ ev = "RCV_ACK"
        \/ st = "SYN_SENT" /\ ev = "RCV_SYN_ACK"
  \/ /\ next = "CLOSE_WAIT"
     /\ \/ st = "SYN_RCVD" /\ ev = "RCV_FIN"
        \/ st = "ESTABLISHED" /\ ev = "RCV_FIN"
  \/ next = "LAST_ACK" /\ st = "CLOSE_WAIT" /\ ev = "CLOSE"
  \/ /\ next = "FIN_WAIT_1"
     /\ \/ st = "SYN_RCVD" /\ ev = "CLOSE"
        \/ st = "ESTABLISHED" /\ ev = "CLOSE"
  \/ next = "FIN_WAIT_2" /\ st = "FIN_WAIT_1" /\ ev = "RCV_ACK"
  \/ next = "CLOSING" /\ st = "FIN_WAIT_1" /\ ev = "RCV_FIN"
  \/ /\ next = "TIME_WAIT"
     /\ \/ st = "FIN_WAIT_1" /\ ev = "RCV_FIN_ACK"
        \/ st = "FIN_WAIT_2" /\ ev = "RCV_FIN"
        \/ st = "CLOSING" /\ ev = "RCV_ACK"
  \/ /\ next = "CLOSED"
     /\ \/ st = "LISTEN" /\ ev \in {"CLOSE", "ABORT"}
        \/ st = "SYN_RCVD" /\ ev \in {"ABORT", "RCV_UNEXP_SYN"}
        \/ st = "SYN_SENT" /\ ev \in {"CLOSE", "ABORT", "TIMEOUT_CONN_ESTAB", "RCV_RST"}
        \/ st = "LAST_ACK" /\ ev = "RCV_ACK"
        \/ st = "FIN_WAIT_2" /\ ev = "TIMEOUT_FIN_WAIT_2"
        \/ st = "TIME_WAIT" /\ ev = "TIMEOUT_2MSL"
        \/ st = "SYN_RCVD" /\ ev \in {"TIMEOUT_CONN_ESTAB", "RCV_RST"} /\ active
        \/ st \in SynchronizedStates /\ ev \in {"ABORT", "RCV_RST", "RCV_UNEXP_SYN"}

\* The transition table of performStateTransition() does just that.
LEMMA Table ==
  ASSUME NEW st \in States, NEW ev \in Events, NEW active \in BOOLEAN
  PROVE  LET next == nextState(st, ev, active)
         IN /\ next \in States
            /\ next # st => Switch(st, ev, active, next)
            /\ next = st => \A n \in States : ~ Switch(st, ev, active, n)
<1> DEFINE next == nextState(st, ev, active)
           row == Fsm[st]
           goal == /\ next \in States
                   /\ next # st => Switch(st, ev, active, next)
                   /\ next = st => \A n \in States : ~ Switch(st, ev, active, n)
<1>0. DOMAIN Fsm = States \ {"CLOSED"}
  BY Zenon DEF Fsm, States
<1>1. CASE st = "CLOSED"
  <2>1. next = st
    BY <1>0, <1>1 DEF nextState, SynchronizedStates
  <2> QED BY <1>1, <2>1 DEF Switch, SynchronizedStates
<1>2. CASE st = "INIT"
  <2>1. row = [OPEN_PASSIVE |-> "LISTEN", OPEN_ACTIVE |-> "SYN_SENT"]
    BY <1>2, Zenon DEF Fsm
  <2> HIDE DEF row
  <2>2. DOMAIN row = {"OPEN_PASSIVE", "OPEN_ACTIVE"}
    BY <2>1
  <2>3. next = IF st \in SynchronizedStates /\ ev \in {"ABORT", "RCV_RST", "RCV_UNEXP_SYN"}
               THEN "CLOSED"
               ELSE IF ev \notin DOMAIN row THEN st
               ELSE IF st = "SYN_RCVD" /\ ev \in {"RCV_RST", "TIMEOUT_CONN_ESTAB"} /\ active
                    THEN "CLOSED" ELSE row[ev]
    <3>1. st \in DOMAIN Fsm
      BY <1>0, <1>2 DEF States
    <3> QED BY Zenon, <3>1 DEF nextState, row
  <2> HIDE DEF next
  <2>4. goal
    BY <1>2, <2>1, <2>2, <2>3 DEF States, Switch, SynchronizedStates
  <2> QED BY <2>4 DEF next
<1>3. CASE st = "LISTEN"
  <2>1. row = [OPEN_ACTIVE |-> "SYN_SENT", SEND |-> "SYN_SENT", CLOSE |-> "CLOSED",
               ABORT |-> "CLOSED", RCV_SYN |-> "SYN_RCVD"]
    BY <1>3, Zenon DEF Fsm
  <2> HIDE DEF row
  <2>2. DOMAIN row = {"OPEN_ACTIVE", "SEND", "CLOSE", "ABORT", "RCV_SYN"}
    BY Zenon, <2>1
  <2>3. next = IF st \in SynchronizedStates /\ ev \in {"ABORT", "RCV_RST", "RCV_UNEXP_SYN"}
               THEN "CLOSED"
               ELSE IF ev \notin DOMAIN row THEN st
               ELSE IF st = "SYN_RCVD" /\ ev \in {"RCV_RST", "TIMEOUT_CONN_ESTAB"} /\ active
                    THEN "CLOSED" ELSE row[ev]
    <3>1. st \in DOMAIN Fsm
      BY <1>0, <1>3 DEF States
    <3> QED BY Zenon, <3>1 DEF nextState, row
  <2> HIDE DEF next
  <2>4. goal
    BY <1>3, <2>1, <2>2, <2>3 DEF States, Switch, SynchronizedStates
  <2> QED BY <2>4 DEF next
<1>4. CASE st = "SYN_RCVD"
  <2>1. row = [CLOSE |-> "FIN_WAIT_1", ABORT |-> "CLOSED", RCV_ACK |-> "ESTABLISHED",
               RCV_FIN |-> "CLOSE_WAIT", RCV_UNEXP_SYN |-> "CLOSED",
               TIMEOUT_CONN_ESTAB |-> "LISTEN", RCV_RST |-> "LISTEN"]
    BY <1>4, Zenon DEF Fsm
  <2> HIDE DEF row
  <2>2. DOMAIN row = {"CLOSE", "ABORT", "RCV_ACK", "RCV_FIN", "RCV_UNEXP_SYN",
                     "TIMEOUT_CONN_ESTAB", "RCV_RST"}
    BY <2>1
  <2>3. next = IF st \in SynchronizedStates /\ ev \in {"ABORT", "RCV_RST", "RCV_UNEXP_SYN"}
               THEN "CLOSED"
               ELSE IF ev \notin DOMAIN row THEN st
               ELSE IF st = "SYN_RCVD" /\ ev \in {"RCV_RST", "TIMEOUT_CONN_ESTAB"} /\ active
                    THEN "CLOSED" ELSE row[ev]
    <3>1. st \in DOMAIN Fsm
      BY <1>0, <1>4 DEF States
    <3> QED BY Zenon, <3>1 DEF nextState, row
  <2> HIDE DEF next
  <2>4. goal
    BY SMTT(30), <1>4, <2>1, <2>2, <2>3 DEF States, Switch, SynchronizedStates
  <2> QED BY <2>4 DEF next
<1>5. CASE st = "SYN_SENT"
  <2>1. row = [CLOSE |-> "CLOSED", ABORT |-> "CLOSED", TIMEOUT_CONN_ESTAB |->
               "CLOSED", RCV_RST |-> "CLOSED", RCV_SYN_ACK |-> "ESTABLISHED", RCV_SYN
               |-> "SYN_RCVD"]
    BY <1>5, Zenon DEF Fsm
  <2> HIDE DEF row
  <2>2. DOMAIN row = {"CLOSE", "ABORT", "TIMEOUT_CONN_ESTAB", "RCV_RST", "RCV_SYN_ACK",
                     "RCV_SYN"}
    BY Zenon, <2>1
  <2>3. next = IF st \in SynchronizedStates /\ ev \in {"ABORT", "RCV_RST", "RCV_UNEXP_SYN"}
               THEN "CLOSED"
               ELSE IF ev \notin DOMAIN row THEN st
               ELSE IF st = "SYN_RCVD" /\ ev \in {"RCV_RST", "TIMEOUT_CONN_ESTAB"} /\ active
                    THEN "CLOSED" ELSE row[ev]
    <3>1. st \in DOMAIN Fsm
      BY <1>0, <1>5 DEF States
    <3> QED BY Zenon, <3>1 DEF nextState, row
  <2> HIDE DEF next
  <2>4. goal
    BY SMTT(30), <1>5, <2>1, <2>2, <2>3 DEF States, Switch, SynchronizedStates
  <2> QED BY <2>4 DEF next
<1>6. CASE st = "ESTABLISHED"
  <2>1. row = [CLOSE |-> "FIN_WAIT_1", RCV_FIN |-> "CLOSE_WAIT"]
    BY <1>6, Zenon DEF Fsm
  <2> HIDE DEF row
  <2>2. DOMAIN row = {"CLOSE", "RCV_FIN"}
    BY <2>1
  <2>3. next = IF st \in SynchronizedStates /\ ev \in {"ABORT", "RCV_RST", "RCV_UNEXP_SYN"}
               THEN "CLOSED"
               ELSE IF ev \notin DOMAIN row THEN st
               ELSE IF st = "SYN_RCVD" /\ ev \in {"RCV_RST", "TIMEOUT_CONN_ESTAB"} /\ active
                    THEN "CLOSED" ELSE row[ev]
    <3>1. st \in DOMAIN Fsm
      BY <1>0, <1>6 DEF States
    <3> QED BY Zenon, <3>1 DEF nextState, row
  <2> HIDE DEF next
  <2>4. goal
    BY <1>6, <2>1, <2>2, <2>3 DEF States, Switch, SynchronizedStates
  <2> QED BY <2>4 DEF next
<1>7. CASE st = "CLOSE_WAIT"
  <2>1. row = [CLOSE |-> "LAST_ACK"]
    BY <1>7, Zenon DEF Fsm
  <2> HIDE DEF row
  <2>2. DOMAIN row = {"CLOSE"}
    BY <2>1
  <2>3. next = IF st \in SynchronizedStates /\ ev \in {"ABORT", "RCV_RST", "RCV_UNEXP_SYN"}
               THEN "CLOSED"
               ELSE IF ev \notin DOMAIN row THEN st
               ELSE IF st = "SYN_RCVD" /\ ev \in {"RCV_RST", "TIMEOUT_CONN_ESTAB"} /\ active
                    THEN "CLOSED" ELSE row[ev]
    <3>1. st \in DOMAIN Fsm
      BY <1>0, <1>7 DEF States
    <3> QED BY Zenon, <3>1 DEF nextState, row
  <2> HIDE DEF next
  <2>4. goal
    BY <1>7, <2>1, <2>2, <2>3 DEF States, Switch, SynchronizedStates
  <2> QED BY <2>4 DEF next
<1>8. CASE st = "LAST_ACK"
  <2>1. row = [RCV_ACK |-> "CLOSED"]
    BY <1>8, Zenon DEF Fsm
  <2> HIDE DEF row
  <2>2. DOMAIN row = {"RCV_ACK"}
    BY <2>1
  <2>3. next = IF st \in SynchronizedStates /\ ev \in {"ABORT", "RCV_RST", "RCV_UNEXP_SYN"}
               THEN "CLOSED"
               ELSE IF ev \notin DOMAIN row THEN st
               ELSE IF st = "SYN_RCVD" /\ ev \in {"RCV_RST", "TIMEOUT_CONN_ESTAB"} /\ active
                    THEN "CLOSED" ELSE row[ev]
    <3>1. st \in DOMAIN Fsm
      BY <1>0, <1>8 DEF States
    <3> QED BY Zenon, <3>1 DEF nextState, row
  <2> HIDE DEF next
  <2>4. goal
    BY <1>8, <2>1, <2>2, <2>3 DEF States, Switch, SynchronizedStates
  <2> QED BY <2>4 DEF next
<1>9. CASE st = "FIN_WAIT_1"
  <2>1. row = [RCV_FIN |-> "CLOSING", RCV_ACK |-> "FIN_WAIT_2", RCV_FIN_ACK |->
               "TIME_WAIT"]
    BY <1>9, Zenon DEF Fsm
  <2> HIDE DEF row
  <2>2. DOMAIN row = {"RCV_FIN", "RCV_ACK", "RCV_FIN_ACK"}
    BY <2>1
  <2>3. next = IF st \in SynchronizedStates /\ ev \in {"ABORT", "RCV_RST", "RCV_UNEXP_SYN"}
               THEN "CLOSED"
               ELSE IF ev \notin DOMAIN row THEN st
               ELSE IF st = "SYN_RCVD" /\ ev \in {"RCV_RST", "TIMEOUT_CONN_ESTAB"} /\ active
                    THEN "CLOSED" ELSE row[ev]
    <3>1. st \in DOMAIN Fsm
      BY <1>0, <1>9 DEF States
    <3> QED BY Zenon, <3>1 DEF nextState, row
  <2> HIDE DEF next
  <2>4. goal
    BY SMTT(30), <1>9, <2>1, <2>2, <2>3 DEF States, Switch, SynchronizedStates
  <2> QED BY <2>4 DEF next
<1>10. CASE st = "FIN_WAIT_2"
  <2>1. row = [RCV_FIN |-> "TIME_WAIT", TIMEOUT_FIN_WAIT_2 |-> "CLOSED"]
    BY <1>10, Zenon DEF Fsm
  <2> HIDE DEF row
  <2>2. DOMAIN row = {"RCV_FIN", "TIMEOUT_FIN_WAIT_2"}
    BY <2>1
  <2>3. next = IF st \in SynchronizedStates /\ ev \in {"ABORT", "RCV_RST", "RCV_UNEXP_SYN"}
               THEN "CLOSED"
               ELSE IF ev \notin DOMAIN row THEN st
               ELSE IF st = "SYN_RCVD" /\ ev \in {"RCV_RST", "TIMEOUT_CONN_ESTAB"} /\ active
                    THEN "CLOSED" ELSE row[ev]
    <3>1. st \in DOMAIN Fsm
      BY <1>0, <1>10 DEF States
    <3> QED BY Zenon, <3>1 DEF nextState, row
  <2> HIDE DEF next
  <2>4. goal
    BY <1>10, <2>1, <2>2, <2>3 DEF States, Switch, SynchronizedStates
  <2> QED BY <2>4 DEF next
<1>11. CASE st = "CLOSING"
  <2>1. row = [RCV_ACK |-> "TIME_WAIT"]
    BY <1>11, Zenon DEF Fsm
  <2> HIDE DEF row
  <2>2. DOMAIN row = {"RCV_ACK"}
    BY <2>1
  <2>3. next = IF st \in SynchronizedStates /\ ev \in {"ABORT", "RCV_RST", "RCV_UNEXP_SYN"}
               THEN "CLOSED"
               ELSE IF ev \notin DOMAIN row THEN st
               ELSE IF st = "SYN_RCVD" /\ ev \in {"RCV_RST", "TIMEOUT_CONN_ESTAB"} /\ active
                    THEN "CLOSED" ELSE row[ev]
    <3>1. st \in DOMAIN Fsm
      BY <1>0, <1>11 DEF States
    <3> QED BY Zenon, <3>1 DEF nextState, row
  <2> HIDE DEF next
  <2>4. goal
    BY <1>11, <2>1, <2>2, <2>3 DEF States, Switch, SynchronizedStates
  <2> QED BY <2>4 DEF next
<1>12. CASE st = "TIME_WAIT"
  <2>1. row = [TIMEOUT_2MSL |-> "CLOSED"]
    BY <1>12, Zenon DEF Fsm
  <2> HIDE DEF row
  <2>2. DOMAIN row = {"TIMEOUT_2MSL"}
    BY <2>1
  <2>3. next = IF st \in SynchronizedStates /\ ev \in {"ABORT", "RCV_RST", "RCV_UNEXP_SYN"}
               THEN "CLOSED"
               ELSE IF ev \notin DOMAIN row THEN st
               ELSE IF st = "SYN_RCVD" /\ ev \in {"RCV_RST", "TIMEOUT_CONN_ESTAB"} /\ active
                    THEN "CLOSED" ELSE row[ev]
    <3>1. st \in DOMAIN Fsm
      BY <1>0, <1>12 DEF States
    <3> QED BY Zenon, <3>1 DEF nextState, row
  <2> HIDE DEF next
  <2>4. goal
    BY <1>12, <2>1, <2>2, <2>3 DEF States, Switch, SynchronizedStates
  <2> QED BY <2>4 DEF next
<1> QED BY Zenon, <1>1, <1>2, <1>3, <1>4, <1>5, <1>6, <1>7, <1>8, <1>9, <1>10, <1>11, <1>12 DEF States

\* A connection before performStateTransition().  If it is deleted, nothing is asked
\* of its sequence variables.
Ready(d) ==
  LET next == nextState(d.state, d.event, d.active)
  IN /\ d \in Conn /\ Suits(d, next)
     /\ next # "CLOSED" \/ d.state = "CLOSED" => Flow(d)
     /\ d.state = "CLOSED" => d.rexmitTimer = "idle"

\* All is kept but the state, the event and what is not looked at.
KeepsButState(c, d) ==
  /\ d \in Conn
  /\ d.iss = c.iss /\ d.snd_una = c.snd_una /\ d.snd_nxt = c.snd_nxt
  /\ d.snd_max = c.snd_max /\ d.end = c.end /\ d.snd_wnd = c.snd_wnd
  /\ d.send_fin = c.send_fin /\ d.snd_fin_seq = c.snd_fin_seq
  /\ d.closeCalled = c.closeCalled /\ d.written = c.written
  /\ d.rexmitTimer = c.rexmitTimer /\ d.active = c.active /\ d.sock = c.sock

\* What Flow and Suits look at.
LEMMA SameFlow ==
  ASSUME NEW c \in Conn, NEW d, KeepsButState(c, d)
  PROVE  (Flow(d) <=> Flow(c)) /\ \A st \in States : Suits(d, st) <=> Suits(c, st)
<1>2. Flow(d) <=> Flow(c)
  BY Zenon DEF KeepsButState, Flow, InOrder, InWindow, Armed, Una, Nxt, Maxi, End
<1>3. \A st \in States : Suits(d, st) <=> Suits(c, st)
  BY ZenonT(60) DEF KeepsButState, Suits, Told
<1> QED BY <1>2, <1>3

\* A new connection is one.
LEMMA NewConnTyped == NewConn \in Conn
<1>1. /\ 0 \in SeqNo /\ RcvWnd \in Nat /\ <<>> \in Segments
      /\ [rcv_nxt |-> 0, regionList |-> <<>>] \in RcvQueue
  BY Numbers, ConnectionAssumption DEF Segments, RcvQueue
<1>2. /\ "INIT" \in States /\ "idle" \in TimerState /\ "NOT_BOUND" \in SockStates
      /\ "IGNORE" \in Events /\ "none" \in Errors
  BY DEF States, TimerState, SockStates, Events, Errors
<1> QED BY Zenon, <1>1, <1>2 DEF NewConn, Conn

\* A connection whose variables are all zero is in order.
LEMMA ZeroFlow ==
  ASSUME NEW c \in Conn, c.iss = 0, c.snd_una = 0, c.snd_nxt = 0, c.snd_max = 0, c.end = 0,
         c.snd_wnd = 0, ~ c.send_fin
  PROVE  Flow(c)
<1>1. SeqDiff(0, 0) = 0
  BY Difference, Numbers
<1>2. Una(c) = 0 /\ Nxt(c) = 0 /\ Maxi(c) = 0 /\ End(c) = 0 /\ c.written \in Nat
  BY <1>1, Fields DEF Una, Nxt, Maxi, End
<1>3. InOrder(c)
  BY <1>2 DEF InOrder
<1>4. InWindow(c)
  BY <1>2, ConnectionAssumption DEF InWindow
<1>5. Armed(c)
  BY <1>2 DEF Armed
<1> QED BY <1>3, <1>4, <1>5 DEF Flow

\* TCP::removeConnection() leaves a connection without timers; the application
\* keeps what it has seen.
LEMMA RemoveTyped ==
  ASSUME NEW c \in Conn
  PROVE  LET d == removeConnection(c)
         IN /\ d \in Conn /\ Flow(d) /\ d.state = "CLOSED" /\ d.event = "IGNORE"
            /\ d.rexmitTimer = "idle" /\ d.sock = c.sock /\ d.written = c.written
            /\ d.out \in Seq(Segment)
<1> DEFINE d == removeConnection(c)
<1>1. d \in Conn
  <2> DEFINE n1 == [NewConn EXCEPT !.state = "CLOSED"]
             n2 == [n1 EXCEPT !.sock = c.sock]
             n3 == [n2 EXCEPT !.closeCalled = c.closeCalled]
             n4 == [n3 EXCEPT !.written = c.written]
             n5 == [n4 EXCEPT !.delivered = c.delivered]
             n6 == [n5 EXCEPT !.peerClosedInds = c.peerClosedInds]
             n7 == [n6 EXCEPT !.closedInds = c.closedInds]
             n8 == [n7 EXCEPT !.out = c.out]
             n9 == [n8 EXCEPT !.err = c.err]
  <2>1. /\ "CLOSED" \in States /\ c.sock \in SockStates /\ c.closeCalled \in BOOLEAN
        /\ c.written \in Nat /\ c.delivered \in Nat /\ c.peerClosedInds \in Nat
        /\ c.closedInds \in Nat /\ c.out \in Segments /\ c.err \in Errors
    BY DEF Conn, States
  <2>2. n1 \in Conn
    BY Zenon, <2>1, NewConnTyped, Updates
  <2> HIDE DEF n1
  <2>3. n2 \in Conn
    BY Zenon, <2>1, <2>2, Updates
  <2> HIDE DEF n2
  <2>4. n3 \in Conn
    BY Zenon, <2>1, <2>3, Updates
  <2> HIDE DEF n3
  <2>5. n4 \in Conn
    BY Zenon, <2>1, <2>4, Updates
  <2> HIDE DEF n4
  <2>6. n5 \in Conn
    BY <2>1, <2>5 DEF Conn
  <2> HIDE DEF n5
  <2>7. n6 \in Conn
    BY <2>1, <2>6 DEF Conn
  <2> HIDE DEF n6
  <2>8. n7 \in Conn
    BY <2>1, <2>7 DEF Conn
  <2> HIDE DEF n7
  <2>9. n8 \in Conn
    BY Zenon, <2>1, <2>8, Updates
  <2> HIDE DEF n8
  <2>10. n9 \in Conn
    BY <2>1, <2>9 DEF Conn
  <2> HIDE DEF n9
  <2> QED BY Zenon, <2>10 DEF removeConnection, n1, n2, n3, n4, n5, n6, n7, n8, n9
<1>2. /\ d.state = "CLOSED" /\ d.event = "IGNORE" /\ d.rexmitTimer = "idle"
      /\ d.sock = c.sock /\ d.written = c.written
      /\ d.iss = 0 /\ d.snd_una = 0 /\ d.snd_nxt = 0 /\ d.snd_max = 0 /\ d.end = 0
      /\ d.snd_wnd = 0 /\ ~ d.send_fin
  BY DEF removeConnection, NewConn
<1> HIDE DEF d
<1>3. Flow(d) /\ d.out \in Seq(Segment)
  BY <1>1, <1>2, ZeroFlow, Fields
<1> QED BY <1>1, <1>2, <1>3 DEF d

\* Entering any other state only stops or deletes the handshake timers.
LEMMA StateEnteredKeeps ==
  ASSUME NEW c \in Conn, c.state # "CLOSED"
  PROVE  Keeps(c, stateEntered(c))
<1> DEFINE a == Assert(c, c.connEstabTimer # "NULL" /\ c.synRexmitTimer # "NULL", "stateEntered")
           x(t) == [a EXCEPT !.connEstabTimer = t]
           y(t) == [x(t) EXCEPT !.synRexmitTimer = t]
           p == [c EXCEPT !.connEstabTimer = cancelIfExists(@)]
           q == [p EXCEPT !.synRexmitTimer = cancelIfExists(@)]
<1>1. ASSUME NEW b \in Conn, NEW t \in TimerState
      PROVE  Keeps(b, [b EXCEPT !.connEstabTimer = t]) /\ Keeps(b, [b EXCEPT !.synRexmitTimer = t])
  <2>1. [b EXCEPT !.connEstabTimer = t] \in Conn /\ [b EXCEPT !.synRexmitTimer = t] \in Conn
    BY Zenon, Updates
  <2> QED BY <2>1 DEF Conn, Keeps, Core
<1>2. "idle" \in TimerState /\ "NULL" \in TimerState /\ "stateEntered" \in Errors
  BY DEF TimerState, Errors
<1>3. Keeps(c, a)
  BY Zenon, <1>2, AssertKeeps
<1> HIDE DEF a
<1>4. ASSUME NEW t \in TimerState PROVE Keeps(c, y(t))
  <2>1. Keeps(a, x(t)) /\ a \in Conn
    BY Zenon, <1>1, <1>3, KeepsSteps
  <2> HIDE DEF x
  <2>2. x(t) \in Conn
    BY <2>1, KeepsSteps
  <2>3. Keeps(x(t), y(t))
    BY Zenon, <1>1, <2>2
  <2> HIDE DEF y
  <2> QED BY <1>3, <2>1, <2>3, KeepsSteps
<1>5. Keeps(c, q)
  <2>1. c.connEstabTimer \in TimerState /\ cancelIfExists(c.connEstabTimer) \in TimerState
    BY DEF Conn, TimerState, cancelIfExists
  <2>2. Keeps(c, p)
    BY Zenon, <1>1, <2>1
  <2> HIDE DEF p
  <2>3. p \in Conn
    BY <2>2, KeepsSteps
  <2>4. p.synRexmitTimer \in TimerState /\ cancelIfExists(p.synRexmitTimer) \in TimerState
    BY <2>3 DEF Conn, TimerState, cancelIfExists
  <2>5. Keeps(p, q)
    BY Zenon, <1>1, <2>3, <2>4
  <2> HIDE DEF q
  <2> QED BY <2>2, <2>5, KeepsSteps
<1>6. stateEntered(c) \in {y("idle"), y("NULL"), c, q}
  <2>1. CASE c.state = "LISTEN"
    BY <2>1 DEF stateEntered, a, x, y
  <2>2. CASE c.state = "ESTABLISHED"
    BY <2>2 DEF stateEntered, a, x, y
  <2>3. CASE c.state \in {"INIT", "SYN_SENT", "SYN_RCVD"}
    BY <2>3 DEF stateEntered
  <2>4. CASE c.state \notin {"LISTEN", "ESTABLISHED", "INIT", "SYN_SENT", "SYN_RCVD"}
    BY <2>4 DEF stateEntered, p, q
  <2> QED BY <2>1, <2>2, <2>3, <2>4
<1> HIDE DEF y, q
<1>7. Keeps(c, y("idle")) /\ Keeps(c, y("NULL")) /\ Keeps(c, c)
  BY <1>2, <1>4, KeepsSteps
<1> QED BY <1>5, <1>6, <1>7

\* The transition and the hand-over of the segments end a handler.
LEMMA TransitionSound ==
  ASSUME NEW d, Ready(d)
  PROVE  LET f == performStateTransition(d)
         IN /\ Sound([f EXCEPT !.out = <<>>]) /\ [f EXCEPT !.out = <<>>].written = d.written
            /\ f.out \in Seq(Segment)
<1> DEFINE next == nextState(d.state, d.event, d.active)
           a == [d EXCEPT !.event = "IGNORE"]
           g == [a EXCEPT !.state = next]
           h == stateEntered(g)
           f == performStateTransition(d)
           r == [f EXCEPT !.out = <<>>]
           goal == Sound(r) /\ r.written = d.written /\ f.out \in Seq(Segment)
<1>0. d \in Conn /\ next \in States
  <2>1. d \in Conn
    BY DEF Ready
  <2>2. d.state \in States /\ d.event \in Events /\ d.active \in BOOLEAN
    BY <2>1 DEF Conn
  <2> QED BY <2>1, <2>2, Table
<1>1. "IGNORE" \in Events /\ <<>> \in Segments
  BY DEF Events, Segments
<1>2. ASSUME NEW b \in Conn
      PROVE  /\ KeepsButState(b, [b EXCEPT !.out = <<>>])
             /\ [b EXCEPT !.out = <<>>].out = <<>>
             /\ [b EXCEPT !.out = <<>>].state = b.state
             /\ [b EXCEPT !.out = <<>>].event = b.event
             /\ b.out \in Seq(Segment)
  <2>1. [b EXCEPT !.out = <<>>] \in Conn
    BY Zenon, <1>1, Updates
  <2>2. b.out \in Seq(Segment)
    BY Fields
  <2> QED BY <2>1, <2>2 DEF Conn, KeepsButState
<1>3. KeepsButState(d, a) /\ a \in Conn /\ a.event = "IGNORE" /\ a.state = d.state
  <2>1. a \in Conn
    BY Zenon, <1>0, <1>1, Updates
  <2> QED BY <1>0, <2>1 DEF Conn, KeepsButState
<1>4. next = d.state \/ next # "CLOSED" => (Flow(d) /\ Suits(d, next))
  BY DEF Ready
<1>5. CASE next = d.state
  <2>1. f = a
    BY <1>5 DEF performStateTransition
  <2> HIDE DEF next, a, f
  <2>2. KeepsButState(a, r) /\ r.out = <<>> /\ r.state = a.state /\ r.event = a.event
        /\ f.out \in Seq(Segment)
    BY <1>2, <1>3, <2>1
  <2> HIDE DEF r
  <2>3. r \in Conn /\ r.written = d.written /\ r.rexmitTimer = d.rexmitTimer
    BY <1>3, <2>2 DEF KeepsButState
  <2>4. /\ (Flow(a) <=> Flow(d)) /\ (Suits(a, next) <=> Suits(d, next))
        /\ (Flow(r) <=> Flow(a)) /\ (Suits(r, next) <=> Suits(a, next))
    BY <1>0, <1>3, <2>2, SameFlow
  <2>5. d.state = "CLOSED" => d.rexmitTimer = "idle"
    BY DEF Ready
  <2>6. Sound(r)
    BY <1>3, <1>4, <1>5, <2>2, <2>3, <2>4, <2>5 DEF Sound
  <2> QED BY <2>2, <2>3, <2>6 DEF f, r
<1>6. CASE next # d.state
  <2>1. f = h
    BY <1>6 DEF performStateTransition
  <2> HIDE DEF next, a
  <2>2. KeepsButState(a, g) /\ g \in Conn /\ g.event = "IGNORE" /\ g.state = next
    <3>1. g \in Conn
      BY Zenon, <1>0, <1>3, Updates
    <3> QED BY <1>3, <3>1 DEF Conn, KeepsButState
  <2>3. g.sock = d.sock /\ g.written = d.written
    BY <1>3, <2>2 DEF KeepsButState
  <2> HIDE DEF g, f
  <2>4. CASE next = "CLOSED"
    <3>1. h = removeConnection(g)
      BY <2>2, <2>4 DEF stateEntered
    <3> HIDE DEF h
    <3>2. /\ h \in Conn /\ Flow(h) /\ h.state = "CLOSED" /\ h.event = "IGNORE"
          /\ h.rexmitTimer = "idle" /\ h.sock = d.sock /\ h.written = d.written
      BY <2>2, <2>3, <3>1, RemoveTyped
    <3>3. KeepsButState(h, r) /\ r.out = <<>> /\ r.state = h.state /\ r.event = h.event
          /\ f.out \in Seq(Segment)
      BY <1>2, <2>1, <3>2
    <3> HIDE DEF r
    <3>4. /\ r \in Conn /\ r.written = d.written /\ r.rexmitTimer = "idle" /\ r.sock = d.sock
          /\ Flow(r)
      <4>1. Flow(r) <=> Flow(h)
        BY <3>2, <3>3, SameFlow
      <4> QED BY <3>2, <3>3, <4>1 DEF KeepsButState
    <3>5. Suits(r, "CLOSED")
      <4>1. Suits(d, "CLOSED")
        BY <2>4 DEF Ready, next
      <4> QED BY <3>4, <4>1 DEF Suits, Told, Handshaking
    <3>6. Sound(r)
      BY <3>2, <3>3, <3>4, <3>5 DEF Sound
    <3> QED BY <3>3, <3>4, <3>6 DEF f, r
  <2>5. CASE next # "CLOSED"
    <3>1. Keeps(g, h)
      BY <2>2, <2>5, StateEnteredKeeps
    <3> HIDE DEF h
    <3>2. KeepsButState(g, h) /\ h \in Conn /\ h.event = "IGNORE" /\ h.state = next
      BY <2>2, <3>1 DEF Keeps, KeepsButState, Core
    <3>3. KeepsButState(h, r) /\ r.out = <<>> /\ r.state = h.state /\ r.event = h.event
          /\ f.out \in Seq(Segment)
      BY <1>2, <2>1, <3>2
    <3> HIDE DEF r
    <3>4. r \in Conn /\ r.written = d.written
      BY <2>3, <3>2, <3>3 DEF KeepsButState
    <3>5. Flow(r) /\ Suits(r, next)
      <4>1. /\ (Flow(a) <=> Flow(d)) /\ (Suits(a, next) <=> Suits(d, next))
            /\ (Flow(g) <=> Flow(a)) /\ (Suits(g, next) <=> Suits(a, next))
        BY <1>0, <1>3, <2>2, SameFlow
      <4>2. /\ (Flow(h) <=> Flow(g)) /\ (Suits(h, next) <=> Suits(g, next))
            /\ (Flow(r) <=> Flow(h)) /\ (Suits(r, next) <=> Suits(h, next))
        BY <1>0, <2>2, <3>2, <3>3, SameFlow
      <4> QED BY <1>4, <2>5, <4>1, <4>2
    <3>6. Sound(r)
      BY <2>5, <3>2, <3>3, <3>4, <3>5 DEF Sound
    <3> QED BY <3>3, <3>4, <3>6 DEF f, r
  <2> QED BY <2>4, <2>5
<1> QED BY <1>5, <1>6

(***************************************************************************)
(* The handlers, each up to its state transition.                          *)
(***************************************************************************)
\* The transitions that the proofs below need.
LEMMA Moved ==
  ASSUME NEW d \in Conn
  PROVE  LET next == nextState(d.state, d.event, d.active)
         IN /\ next \in States
            /\ next # d.state => Switch(d.state, d.event, d.active, next)
            /\ next = d.state => \A n \in States : ~ Switch(d.state, d.event, d.active, n)
<1>1. d.state \in States /\ d.event \in Events /\ d.active \in BOOLEAN
  BY DEF Conn
<1> QED BY <1>1, Table

\* A handler that leaves all alone is sound: a RST that answers a segment, an ACK
\* that answers an unacceptable one.
LEMMA KeepsReady ==
  ASSUME NEW c, Sound(c), NEW d, Keeps(c, d)
  PROVE  Ready(d) /\ d.written = c.written
<1>1. c \in Conn /\ d \in Conn /\ d.state = c.state /\ d.event = "IGNORE"
      /\ d.written = c.written /\ d.rexmitTimer = c.rexmitTimer
  BY DEF Sound, Keeps, Core
<1>2. KeepsButState(c, d)
  BY <1>1 DEF Keeps, KeepsButState, Core
<1>3. nextState(d.state, d.event, d.active) = d.state
  BY Zenon, <1>1, Moved DEF Switch
<1>4. d.state \in States
  BY <1>1, Fields
<1>5. (Flow(d) <=> Flow(c)) /\ (Suits(d, d.state) <=> Suits(c, d.state))
  BY <1>1, <1>2, <1>4, SameFlow
<1>6. Flow(c) /\ Suits(c, d.state) /\ (d.state = "CLOSED" => d.rexmitTimer = "idle")
  BY <1>1 DEF Sound
<1> QED BY <1>1, <1>3, <1>5, <1>6 DEF Ready

\* A segment for a connection that does not exist, and one outside the window.
LEMMA AnswersReady ==
  ASSUME NEW c, Sound(c), NEW s \in Segment
  PROVE  /\ Ready(segmentArrivalWhileClosed(c, s))
         /\ segmentArrivalWhileClosed(c, s).written = c.written
         /\ Ready(processUnacceptable(c, s)) /\ processUnacceptable(c, s).written = c.written
<1> DEFINE v == SeqAdd(s.seq, s.len)
<1>1. c \in Conn /\ 0 \in SeqNo
  BY Numbers DEF Sound
<1>2. s.seq \in SeqNo /\ s.len \in Nat /\ s.ack \in SeqNo
  BY DEF Segment
<1>3. v \in SeqNo
  BY Zenon, <1>2, Numbers
<1> HIDE DEF v
<1>4. Keeps(c, c) /\ Keeps(c, sendAck(c))
  BY <1>1, SendKeeps, KeepsSteps
<1>a. Keeps(c, sendRst(c, s.ack)) /\ Keeps(c, sendRstAck(c, 0, v))
  BY <1>1, <1>2, <1>3, SendKeeps
<1>5. Keeps(c, segmentArrivalWhileClosed(c, s)) /\ Keeps(c, processUnacceptable(c, s))
  BY Zenon, <1>4, <1>a DEF segmentArrivalWhileClosed, processUnacceptable, v
<1> QED BY <1>5, KeepsReady

\* An acceptable ACK segment.
LEMMA AckSegmentReady ==
  ASSUME MergeTyped, NEW c, Sound(c), NEW s \in Segment, c.state \in OtherStates
  PROVE  Ready(processAckSegment(c, s)) /\ processAckSegment(c, s).written = c.written
<1> DEFINE d == processAckSegment(c, s)
           next == nextState(d.state, d.event, d.active)
<1>1. c \in Conn /\ c.event = "IGNORE" /\ (c.state = "SYN_RCVD" => c.snd_nxt = c.snd_max)
  BY DEF Sound, Suits, Handshaking
<1>2. Handles(c, d) /\ AckEffect(c, d)
  BY <1>1, AckSegmentHandles
<1> HIDE DEF d
<1>3. /\ d \in Conn /\ d.state = c.state /\ d.written = c.written /\ Flow(d)
      /\ d.state \in OtherStates
  BY Zenon, <1>1, <1>2, HandlesSteps DEF Handles, Sound
<1>4. CASE Keeps(c, d)
  BY Zenon, <1>4, KeepsReady DEF d
<1>5. CASE ~ Keeps(c, d)
  <2>1. /\ next \in States
        /\ next # d.state => Switch(d.state, d.event, d.active, next)
        /\ next = d.state => \A n \in States : ~ Switch(d.state, d.event, d.active, n)
    BY <1>3, Moved
  <2> HIDE DEF next
  <2>2. d.state = "SYN_RCVD" => next \in {"ESTABLISHED", "CLOSE_WAIT", "FIN_WAIT_1"}
    <3>1. "ESTABLISHED" \in States /\ "CLOSE_WAIT" \in States /\ "FIN_WAIT_1" \in States
      BY DEF States
    <3> QED BY <1>2, <1>3, <1>5, <2>1, <3>1 DEF AckEffect, Switch, SynchronizedStates
  <2>3. next \notin Handshaking \cup {"INIT", "LISTEN"}
    BY Zenon, <1>2, <1>3, <2>1, <2>2 DEF AckEffect, Switch, OtherStates, Handshaking
  <2>4. next \in {"CLOSED", "TIME_WAIT"} /\ next # d.state => Told(d)
    BY Zenon, <1>2, <1>3, <2>1, <2>2 DEF AckEffect, Switch, OtherStates, SynchronizedStates
  <2>5. next = d.state /\ next = "TIME_WAIT" /\ ConnEstabFirst => Told(d)
    <3>1. c.state = "TIME_WAIT" /\ ConnEstabFirst => Told(c)
      BY DEF Sound, Suits
    <3> QED BY <1>2, <1>3, <3>1 DEF AckEffect
  <2>6. d.state # "CLOSED"
    BY <1>3 DEF OtherStates
  <2>7. Suits(d, next)
    BY <2>3, <2>4, <2>5, <2>6 DEF Suits, Handshaking
  <2> QED BY Zenon, <1>3, <2>6, <2>7 DEF Ready, next, d
<1> QED BY <1>4, <1>5

\* REXMIT is not pending in the handshake, and not after the connection.
LEMMA RexmitReady ==
  ASSUME NEW c, Sound(c), c.rexmitTimer = "scheduled"
  PROVE  Ready(processRexmitTimer(c)) /\ processRexmitTimer(c).written = c.written
<1> DEFINE d == processRexmitTimer(c)
           next == nextState(d.state, d.event, d.active)
<1>1. c \in Conn /\ c.event = "IGNORE" /\ c.state \in States
  BY Fields DEF Sound
<1>2. c.state \in SynchronizedStates
  BY <1>1 DEF Sound, Suits, Handshaking, States, SynchronizedStates
<1>3. Goes(c, d) \/ (d \in Conn /\ Base(d) = Base(c) /\ d.event = "ABORT" /\ Told(d))
  BY <1>1, RexmitTimerGoes
<1> HIDE DEF d
<1>4. d \in Conn /\ d.state = c.state /\ d.written = c.written
  BY <1>3 DEF Goes, Moves, Base
<1>5. /\ next \in States
      /\ next # d.state => Switch(d.state, d.event, d.active, next)
      /\ next = d.state => \A n \in States : ~ Switch(d.state, d.event, d.active, n)
  BY <1>4, Moved
<1> HIDE DEF next
<1>6. CASE Goes(c, d)
  <2>1. Flow(d) /\ d.event = "IGNORE" /\ d.sock = c.sock
    BY <1>1, <1>6 DEF Goes, Moves, Sound
  <2>2. next = c.state
    BY Zenon, <1>4, <1>5, <2>1 DEF Switch
  <2>3. ConnEstabFirst /\ next = "TIME_WAIT" => Told(d)
    BY <2>1, <2>2 DEF Sound, Suits, Told
  <2>4. Suits(d, next)
    BY <1>2, <2>2, <2>3 DEF Suits, Handshaking, SynchronizedStates
  <2>5. d.state # "CLOSED"
    BY <1>2, <1>4 DEF SynchronizedStates
  <2> QED BY <1>4, <2>1, <2>4, <2>5 DEF Ready, next, d
<1>7. CASE d.event = "ABORT" /\ Told(d)
  <2>1. d.state # "CLOSED" /\ "CLOSED" \in States
    BY <1>2, <1>4 DEF SynchronizedStates, States
  <2>2. next = "CLOSED"
    BY Zenon, <1>2, <1>4, <1>5, <1>7, <2>1 DEF Switch, SynchronizedStates
  <2>3. Suits(d, next)
    BY Zenon, <1>7, <2>2 DEF Suits, Handshaking
  <2> QED BY <1>4, <2>1, <2>2, <2>3 DEF Ready, next, d
<1> QED BY <1>3, <1>6, <1>7

\* CLOSE: the application is told at once where the connection ends at once.
LEMMA CloseReady ==
  ASSUME NEW c, Sound(c), ~ c.closeCalled,
         c.sock \in {"CONNECTED", "PEER_CLOSED", "CONNECTING", "LISTENING"}
  PROVE  Ready(process_CLOSE(c)) /\ process_CLOSE(c).written = c.written
<1> DEFINE d == process_CLOSE(c)
           next == nextState(d.state, d.event, d.active)
<1>1. c \in Conn /\ ~ Told(c) /\ c.state \in States
  BY Fields DEF Sound, Told
<1>2. /\ d \in Conn /\ (Flow(c) => Flow(d))
      /\ d.state = c.state /\ d.active = c.active /\ d.written = c.written
      /\ d.rexmitTimer = c.rexmitTimer
      /\ c.sock # "CONNECTED" => Told(d)
      /\ \/ d.event = "CLOSE"
         \/ /\ d.event = "IGNORE" /\ c.snd_max # c.end
            /\ c.state \in {"SYN_RCVD", "ESTABLISHED", "CLOSE_WAIT"}
            /\ d.iss = c.iss /\ d.snd_una = c.snd_una
            /\ d.snd_nxt = c.snd_nxt /\ d.snd_max = c.snd_max
  BY <1>1, CloseFlow
<1> HIDE DEF d
<1>3. /\ next \in States
      /\ next # d.state => Switch(d.state, d.event, d.active, next)
      /\ next = d.state => \A n \in States : ~ Switch(d.state, d.event, d.active, n)
  BY Zenon, <1>2, Moved
<1> HIDE DEF next
<1>4. Flow(d) /\ (d.state = "CLOSED" => d.rexmitTimer = "idle")
  BY <1>2 DEF Sound
<1>5. c.state # "INIT" /\ (c.state = "LISTEN" => c.sock = "LISTENING")
      /\ (c.state = "SYN_SENT" => c.sock # "CONNECTED")
      /\ (c.state \in Handshaking => c.rexmitTimer = "idle")
      /\ (ConnEstabFirst => c.state \notin {"CLOSED", "TIME_WAIT"})
  BY <1>1 DEF Sound, Suits
<1>6. CASE d.event = "CLOSE"
  <2>0. "CLOSED" \in States /\ "FIN_WAIT_1" \in States
    BY DEF States
  <2>1. c.state \in {"LISTEN", "SYN_SENT"} => next = "CLOSED" /\ Told(d)
    BY Zenon, <1>2, <1>3, <1>5, <1>6, <2>0 DEF Switch
  <2>2. c.state = "SYN_RCVD" => next = "FIN_WAIT_1"
    BY Zenon, <1>2, <1>3, <1>6, <2>0 DEF Switch
  <2>3. next \notin Handshaking \cup {"INIT", "LISTEN"}
    BY Zenon, <1>2, <1>3, <1>5, <1>6, <2>1, <2>2 DEF Switch, Handshaking
  <2>4. ConnEstabFirst /\ next \in {"CLOSED", "TIME_WAIT"} => Told(d)
    BY Zenon, <1>2, <1>3, <1>5, <1>6, <2>1 DEF Switch
  <2>5. Suits(d, next)
    BY <2>3, <2>4 DEF Suits, Handshaking
  <2> QED BY Zenon, <1>2, <1>4, <2>5 DEF Ready, next, d
<1>7. CASE d.event # "CLOSE"
  <2>1. /\ d.event = "IGNORE" /\ c.snd_max # c.end
        /\ c.state \in {"SYN_RCVD", "ESTABLISHED", "CLOSE_WAIT"}
        /\ d.iss = c.iss /\ d.snd_una = c.snd_una
        /\ d.snd_nxt = c.snd_nxt /\ d.snd_max = c.snd_max
    BY Zenon, <1>2, <1>7
  <2>2. next = c.state
    BY Zenon, <1>2, <1>3, <2>1 DEF Switch
  <2>3. c.state = "SYN_RCVD" =>
          /\ c.active /\ d.snd_una = d.iss /\ d.snd_nxt = SeqAdd(d.iss, 1)
          /\ d.snd_max = SeqAdd(d.iss, 1)
    BY Zenon, <2>1 DEF Sound, Suits, Handshaking
  <2>4. Suits(d, next)
    BY Zenon, <1>2, <1>5, <2>1, <2>2, <2>3 DEF Suits, Handshaking
  <2> QED BY Zenon, <1>2, <1>4, <2>4 DEF Ready, next, d
<1> QED BY <1>6, <1>7

\* A changed event, or another field that nothing depends on, is no change.
LEMMA EventKeeps ==
  ASSUME NEW c \in Conn, NEW v \in Events
  PROVE  /\ KeepsButState(c, [c EXCEPT !.event = v]) /\ [c EXCEPT !.event = v].event = v
         /\ [c EXCEPT !.event = v].state = c.state
<1>1. [c EXCEPT !.event = v] \in Conn
  BY Zenon, Updates
<1> QED BY <1>1 DEF Conn, KeepsButState

\* ABORT: the application knows, and the connection ends.
LEMMA AbortReady ==
  ASSUME NEW c, Sound(c), c.sock \notin {"NOT_BOUND", "CLOSED", "SOCKERROR"}
  PROVE  Ready(process_ABORT(c)) /\ process_ABORT(c).written = c.written
<1> DEFINE w == Assert(c, c.state \notin {"INIT", "CLOSED"}, "ABORT: connection not open")
           x == [w EXCEPT !.closeCalled = TRUE]
           y == [x EXCEPT !.event = "ABORT"]
           a == [y EXCEPT !.sock = "CLOSED"]
           b == sendRst(a, c.snd_nxt)
           d == process_ABORT(c)
           next == nextState(d.state, d.event, d.active)
<1>0. /\ "ABORT: connection not open" \in Errors /\ "ABORT" \in Events /\ TRUE \in BOOLEAN
      /\ "CLOSED" \in SockStates
  BY DEF Errors, Events, SockStates
<1>1. c \in Conn /\ c.state \in States /\ c.snd_nxt \in SeqNo
  BY Fields DEF Sound
<1>2. Keeps(c, w)
  BY Zenon, <1>0, <1>1, AssertKeeps
<1> HIDE DEF w
<1>3. w \in Conn
  BY <1>1, <1>2, KeepsSteps
<1>4. a \in Conn
  <2>1. x \in Conn
    BY Zenon, <1>0, <1>3, Updates
  <2> HIDE DEF x
  <2>2. y \in Conn
    BY Zenon, <1>0, <2>1, Updates
  <2> HIDE DEF y
  <2> QED BY Zenon, <1>0, <2>2, Updates
<1>5. /\ a.iss = w.iss /\ a.snd_una = w.snd_una /\ a.snd_nxt = w.snd_nxt
      /\ a.snd_max = w.snd_max /\ a.end = w.end /\ a.snd_wnd = w.snd_wnd
      /\ a.send_fin = w.send_fin /\ a.snd_fin_seq = w.snd_fin_seq
      /\ a.closeCalled /\ a.written = w.written /\ a.rexmitTimer = w.rexmitTimer
      /\ a.state = w.state /\ a.event = "ABORT" /\ a.sock = "CLOSED"
  BY <1>3 DEF Conn
<1> HIDE DEF a
<1>6. Flow(w) => Flow(a)
  BY Zenon, <1>5 DEF Flow, InOrder, InWindow, Armed, Una, Nxt, Maxi, End
<1>7. Flow(w) /\ w.state = c.state /\ w.written = c.written /\ w.rexmitTimer = c.rexmitTimer
  BY Zenon, <1>1, <1>2, KeepsFlow DEF Sound, Keeps, Core
<1>8. d \in {a, b}
  BY Zenon DEF process_ABORT, w, x, y, a, b
<1>9. Keeps(a, d)
  BY <1>1, <1>4, <1>8, SendKeeps, KeepsSteps
<1> HIDE DEF d
<1>10. /\ d \in Conn /\ Flow(d) /\ d.state = c.state /\ d.written = c.written
       /\ d.rexmitTimer = c.rexmitTimer /\ d.event = "ABORT" /\ Told(d)
  BY Zenon, <1>4, <1>5, <1>6, <1>7, <1>9, KeepsFlow DEF Keeps, Core, Told
<1>11. /\ next \in States
       /\ next # d.state => Switch(d.state, d.event, d.active, next)
       /\ next = d.state => \A n \in States : ~ Switch(d.state, d.event, d.active, n)
  BY Zenon, <1>10, Moved
<1> HIDE DEF next
<1>12. c.state # "INIT"
  BY DEF Sound, Suits
<1>13. next = "CLOSED"
  <2>1. "CLOSED" \in States
    BY DEF States
  <2>2. c.state \in {"CLOSED", "LISTEN", "SYN_SENT", "SYN_RCVD"} \cup SynchronizedStates
    BY <1>1, <1>12 DEF States, SynchronizedStates
  <2> QED BY Zenon, <1>10, <1>11, <2>1, <2>2 DEF Switch, SynchronizedStates
<1>14. Suits(d, next)
  BY <1>10, <1>13 DEF Suits, Handshaking
<1>15. d.state = "CLOSED" => d.rexmitTimer = "idle"
  BY <1>10 DEF Sound
<1> QED BY Zenon, <1>10, <1>14, <1>15 DEF Ready, next, d

\* What a passive open asks of SYN_RCVD is what LISTEN asks, too.
LEMMA BackToListen ==
  ASSUME NEW c, Sound(c), c.state = "SYN_RCVD", ~ c.active,
         NEW d, Receives(c, d), d.sock = c.sock
  PROVE  Suits(d, "LISTEN")
<1>1. c.rexmitTimer = "idle" /\ c.sock = "LISTENING" /\ ~ c.closeCalled
  BY DEF Sound, Suits, Handshaking
<1>2. d.rexmitTimer = c.rexmitTimer /\ d.closeCalled = c.closeCalled /\ d.active = c.active
  BY DEF Receives, Core
<1> QED BY <1>1, <1>2 DEF Suits, Handshaking

\* A handler that only receives, and changes neither the state nor what the
\* application knows, leaves the connection as it is.
LEMMA StaysReady ==
  ASSUME NEW c, Sound(c), NEW d, Receives(c, d), d.sock = c.sock,
         nextState(d.state, d.event, d.active) = d.state
  PROVE  Ready(d)
<1>1. c \in Conn /\ d \in Conn /\ d.state = c.state /\ d.rexmitTimer = c.rexmitTimer
  BY DEF Sound, Receives, Core
<1>2. KeepsButState(c, d) /\ d.state \in States
  BY Zenon, <1>1, Fields DEF Receives, KeepsButState, Core
<1>3. (Flow(d) <=> Flow(c)) /\ (Suits(d, d.state) <=> Suits(c, d.state))
  BY <1>1, <1>2, SameFlow
<1>4. Flow(c) /\ Suits(c, d.state) /\ (d.state = "CLOSED" => d.rexmitTimer = "idle")
  BY <1>1 DEF Sound
<1> QED BY <1>1, <1>3, <1>4 DEF Ready

\* RST: a passive open goes back to LISTEN, any other connection ends and the
\* application is told.
LEMMA RstReady ==
  ASSUME NEW c, Sound(c), c.state \in OtherStates
  PROVE  Ready(processRst(c)) /\ processRst(c).written = c.written
<1> DEFINE a == [c EXCEPT !.event = "RCV_RST"]
           b == discardUpTo(a, c.end)
           d == processRst(c)
           next == nextState(d.state, d.event, d.active)
           passive == c.state = "SYN_RCVD" /\ ~ c.active
<1>1. c \in Conn /\ c.state \in States /\ c.end \in SeqNo /\ "RCV_RST" \in Events
  BY Fields DEF Sound, Events
<1>2. Receives(c, a) /\ a.event = "RCV_RST" /\ a \in Conn /\ a.sock = c.sock
  <2>1. a.sock = c.sock
    BY <1>1 DEF Conn
  <2> QED BY <1>1, <2>1, ReceivesSteps DEF Receives
<1> HIDE DEF a
<1>3. Keeps(a, b)
  BY <1>1, <1>2, DiscardKeeps
<1> HIDE DEF b
<1>4. Receives(c, b) /\ b.event = "RCV_RST" /\ b \in Conn /\ b.sock = c.sock
  <2>1. Receives(a, b) /\ b.event = a.event /\ b.sock = a.sock
    BY <1>2, <1>3, ReceivesSteps DEF Keeps
  <2>2. Receives(c, b)
    BY <1>1, <1>2, <2>1, ReceivesSteps
  <2> QED BY <1>1, <1>2, <2>1, <2>2, ReceivesSteps
<1>5. ASSUME NEW z \in {indicateFailure(a), indicateFailure(b), indicateClosed(a)}
      PROVE  Receives(c, z) /\ z.event = "RCV_RST" /\ Told(z)
  <2>1. PICK u \in {a, b} : KeepsButSock(u, z) /\ Told(z)
    BY Zenon, <1>2, <1>4, <1>5, IndicationsKeep
  <2>2. Receives(u, z) /\ z.event = u.event
    BY <1>2, <1>4, <2>1, ReceivesSteps
  <2>3. Receives(c, z)
    BY <1>1, <1>2, <1>4, <2>2, ReceivesSteps
  <2> QED BY <1>2, <1>4, <2>1, <2>2, <2>3
<1>6. /\ Receives(c, d) /\ d.event = "RCV_RST"
      /\ passive \/ c.state = "TIME_WAIT" => d.sock = c.sock
      /\ ~ passive /\ c.state # "TIME_WAIT" => Told(d)
  <2>1. CASE passive
    <3>1. d = b
      BY <2>1 DEF processRst, a, b
    <3> QED BY Zenon, <1>4, <2>1, <3>1
  <2>2. CASE c.state = "SYN_RCVD" /\ c.active
    <3>1. d = indicateFailure(b)
      BY <2>2 DEF processRst, a, b
    <3> QED BY Zenon, <1>5, <2>2, <3>1
  <2>3. CASE c.state \in {"ESTABLISHED", "FIN_WAIT_1", "FIN_WAIT_2", "CLOSE_WAIT"}
    <3>1. d = indicateFailure(a)
      BY <2>3 DEF processRst, a, b
    <3> QED BY <1>5, <2>3, <3>1
  <2>4. CASE c.state \in {"CLOSING", "LAST_ACK"}
    <3>1. d = indicateClosed(a)
      BY <2>4 DEF processRst, a, b
    <3> QED BY <1>5, <2>4, <3>1
  <2>5. CASE c.state = "TIME_WAIT"
    <3>1. d = a
      BY <2>5 DEF processRst, a, b
    <3> QED BY <1>2, <2>5, <3>1
  <2> QED BY Zenon, <1>1, <2>1, <2>2, <2>3, <2>4, <2>5 DEF OtherStates, States
<1> HIDE DEF d
<1>7. /\ d \in Conn /\ d.state = c.state /\ d.written = c.written /\ Flow(d)
      /\ d.active = c.active
  <2>1. Handles(c, d)
    BY <1>1, <1>6, HandlesSteps
  <2> QED BY <1>6, <2>1 DEF Receives, Core, Handles, Sound
<1>8. /\ next \in States
      /\ next # d.state => Switch(d.state, d.event, d.active, next)
      /\ next = d.state => \A n \in States : ~ Switch(d.state, d.event, d.active, n)
  BY <1>7, Moved
<1> HIDE DEF next
<1>9. "LISTEN" \in States /\ "CLOSED" \in States /\ c.active \in BOOLEAN
  BY <1>1, Fields DEF States
<1>10. next = IF passive THEN "LISTEN" ELSE "CLOSED"
  <2>1. c.state \in {"SYN_RCVD"} \cup SynchronizedStates
    BY <1>1 DEF States, OtherStates, SynchronizedStates
  <2> QED BY Zenon, <1>6, <1>7, <1>8, <1>9, <2>1 DEF Switch, SynchronizedStates
<1>11. Suits(d, next)
  <2>1. CASE passive
    BY <1>6, <1>10, <2>1, BackToListen
  <2>2. CASE ~ passive
    <3>1. ConnEstabFirst => Told(d)
      BY Zenon, <1>6, <2>2 DEF Sound, Suits, Told
    <3> QED BY <1>10, <2>2, <3>1 DEF Suits, Handshaking
  <2> QED BY <2>1, <2>2
<1>12. d.state # "CLOSED"
  BY <1>7 DEF OtherStates
<1> QED BY Zenon, <1>7, <1>11, <1>12 DEF Ready, next, d

\* A SYN in the window ends the connection.
LEMMA UnexpectedSynReady ==
  ASSUME NEW c, Sound(c), c.state \in OtherStates
  PROVE  Ready(processUnexpectedSyn(c)) /\ processUnexpectedSyn(c).written = c.written
<1> DEFINE a == indicateFailure(c)
           d == [a EXCEPT !.event = "RCV_UNEXP_SYN"]
           next == nextState(d.state, d.event, d.active)
<1>1. c \in Conn /\ c.state \in States /\ "RCV_UNEXP_SYN" \in Events
  BY Fields DEF Sound, Events
<1>2. KeepsButSock(c, a) /\ Told(a)
  BY <1>1, IndicationsKeep
<1> HIDE DEF a
<1>3. Receives(c, a) /\ a \in Conn
  BY <1>1, <1>2, ReceivesSteps
<1>4. Receives(a, d) /\ d.event = "RCV_UNEXP_SYN" /\ Told(d)
  BY <1>1, <1>2, <1>3, ReceivesSteps
<1> HIDE DEF d
<1>5. d \in Conn /\ d.state = c.state /\ d.written = c.written
  BY <1>3, <1>4 DEF Receives, Core
<1>6. /\ next \in States
      /\ next # d.state => Switch(d.state, d.event, d.active, next)
      /\ next = d.state => \A n \in States : ~ Switch(d.state, d.event, d.active, n)
  BY <1>5, Moved
<1> HIDE DEF next
<1>7. next = "CLOSED" /\ d.state # "CLOSED"
  <2>1. c.state \in {"SYN_RCVD"} \cup SynchronizedStates /\ "CLOSED" \in States
    BY <1>1 DEF States, OtherStates, SynchronizedStates
  <2> QED BY Zenon, <1>4, <1>5, <1>6, <2>1 DEF Switch, SynchronizedStates
<1>8. Suits(d, next)
  BY Zenon, <1>4, <1>7 DEF Suits, Handshaking
<1>9. Ready(d)
  BY Zenon, <1>5, <1>7, <1>8 DEF Ready, next
<1>10. processUnexpectedSyn(c) = d
  BY Zenon DEF processUnexpectedSyn, a, d
<1> QED BY <1>5, <1>9, <1>10

\* The handshake timers, set alone.
LEMMA HandshakeFields ==
  ASSUME NEW c \in Conn
  PROVE  /\ \A v \in TimerState : Keeps(c, [c EXCEPT !.connEstabTimer = v])
         /\ \A v \in TimerState : Keeps(c, [c EXCEPT !.synRexmitTimer = v])
         /\ \A v \in Nat : Keeps(c, [c EXCEPT !.syn_rexmit_count = v])
<1>1. ASSUME NEW v \in TimerState
      PROVE  Keeps(c, [c EXCEPT !.connEstabTimer = v]) /\ Keeps(c, [c EXCEPT !.synRexmitTimer = v])
  <2>1. [c EXCEPT !.connEstabTimer = v] \in Conn /\ [c EXCEPT !.synRexmitTimer = v] \in Conn
    BY Zenon, Updates
  <2> QED BY <2>1 DEF Conn, Keeps, Core
<1>2. ASSUME NEW v \in Nat PROVE Keeps(c, [c EXCEPT !.syn_rexmit_count = v])
  <2>1. [c EXCEPT !.syn_rexmit_count = v] \in Conn
    BY Zenon, Updates
  <2> QED BY <2>1 DEF Conn, Keeps, Core
<1> QED BY Zenon, <1>1, <1>2

\* A field that does not count, and the event.
LEMMA KeepsThenEvent ==
  ASSUME NEW c \in Conn, NEW a, Keeps(c, a), NEW v \in Events
  PROVE  LET d == [a EXCEPT !.event = v]
         IN d \in Conn /\ Receives(c, d) /\ d.sock = c.sock /\ d.event = v
<1> DEFINE d == [a EXCEPT !.event = v]
<1>1. a \in Conn /\ Receives(c, a) /\ a.sock = c.sock
  BY ReceivesSteps DEF Keeps
<1>2. Receives(a, d) /\ d.event = v /\ d.sock = a.sock
  <2>1. d.sock = a.sock
    BY <1>1 DEF Conn
  <2> QED BY <1>1, <2>1, ReceivesSteps
<1> HIDE DEF d
<1>3. Receives(c, d) /\ d \in Conn
  BY <1>1, <1>2, ReceivesSteps
<1> QED BY <1>1, <1>2, <1>3 DEF d

\* CONN-ESTAB expires: an active open fails and the application is told, a passive
\* one goes back to LISTEN.
LEMMA ConnEstabReady ==
  ASSUME NEW c, Sound(c)
  PROVE  /\ Ready(process_TIMEOUT_CONN_ESTAB(c))
         /\ process_TIMEOUT_CONN_ESTAB(c).written = c.written
<1> DEFINE t == [c EXCEPT !.connEstabTimer = "idle"]
           a == [t EXCEPT !.event = "TIMEOUT_CONN_ESTAB"]
           b == Assert(a, c.state \in {"SYN_RCVD", "SYN_SENT"}, "CONN_ESTAB timeout")
           f == indicateFailure(b)
           d == process_TIMEOUT_CONN_ESTAB(c)
           next == nextState(d.state, d.event, d.active)
<1>0. "idle" \in TimerState /\ "TIMEOUT_CONN_ESTAB" \in Events /\ "CONN_ESTAB timeout" \in Errors
  BY DEF TimerState, Events, Errors
<1>1. c \in Conn /\ c.state \in States /\ c.active \in BOOLEAN
  BY Fields DEF Sound
<1>2. Keeps(c, t)
  BY Zenon, <1>0, <1>1, HandshakeFields
<1> HIDE DEF t
<1>3. a \in Conn /\ Receives(c, a) /\ a.sock = c.sock /\ a.event = "TIMEOUT_CONN_ESTAB"
  BY Zenon, <1>0, <1>1, <1>2, KeepsThenEvent
<1> HIDE DEF a
<1>4. Keeps(a, b)
  BY Zenon, <1>0, <1>3, AssertKeeps
<1> HIDE DEF b
<1>5. b \in Conn /\ Receives(c, b) /\ b.sock = c.sock /\ b.event = "TIMEOUT_CONN_ESTAB"
  <2>1. Receives(a, b) /\ b.event = a.event /\ b.sock = a.sock
    BY <1>3, <1>4, ReceivesSteps DEF Keeps
  <2>2. Receives(c, b)
    BY <1>1, <1>3, <2>1, ReceivesSteps
  <2> QED BY <1>1, <1>3, <2>1, <2>2, ReceivesSteps
<1>6. Receives(c, f) /\ Told(f) /\ f.event = "TIMEOUT_CONN_ESTAB"
  <2>1. KeepsButSock(b, f) /\ Told(f)
    BY <1>5, IndicationsKeep
  <2> HIDE DEF f
  <2>2. Receives(b, f) /\ f.event = b.event
    BY <1>5, <2>1, ReceivesSteps
  <2>3. Receives(c, f)
    BY <1>1, <1>5, <2>2, ReceivesSteps
  <2> QED BY <1>5, <2>1, <2>2, <2>3
<1> HIDE DEF f
<1>7. d = IF c.active THEN f ELSE b
  BY Zenon DEF process_TIMEOUT_CONN_ESTAB, t, a, b, f
<1> HIDE DEF d
<1>8. /\ Receives(c, d) /\ d.event = "TIMEOUT_CONN_ESTAB"
      /\ (c.active => Told(d)) /\ (~ c.active => d.sock = c.sock)
  BY <1>1, <1>5, <1>6, <1>7
<1>9. /\ d \in Conn /\ d.state = c.state /\ d.written = c.written /\ Flow(d)
      /\ d.active = c.active /\ d.rexmitTimer = c.rexmitTimer
  <2>1. Handles(c, d)
    BY <1>1, <1>8, HandlesSteps
  <2> QED BY Zenon, <1>8, <2>1 DEF Receives, Core, Handles, Sound
<1>10. /\ next \in States
       /\ next # d.state => Switch(d.state, d.event, d.active, next)
       /\ next = d.state => \A n \in States : ~ Switch(d.state, d.event, d.active, n)
  BY <1>9, Moved
<1>a. "LISTEN" \in States /\ "CLOSED" \in States
  BY DEF States
<1>11. CASE c.state = "SYN_RCVD" /\ ~ c.active
  <2>1. next = "LISTEN"
    <3> HIDE DEF next
    <3> QED BY Zenon, <1>8, <1>9, <1>10, <1>11, <1>a DEF Switch, SynchronizedStates
  <2>2. Suits(d, next)
    BY Zenon, <1>8, <1>11, <2>1, BackToListen
  <2>3. d.state # "CLOSED"
    BY <1>9, <1>11
  <2> QED BY Zenon, <1>9, <2>2, <2>3 DEF Ready, d
<1>12. CASE c.state \in {"SYN_RCVD", "SYN_SENT"} /\ c.active
  <2>1. next = "CLOSED"
    <3> HIDE DEF next
    <3> QED BY Zenon, <1>8, <1>9, <1>10, <1>12, <1>a DEF Switch, SynchronizedStates
  <2>2. Suits(d, next)
    <3> HIDE DEF next
    <3> QED BY Zenon, <1>8, <1>12, <2>1 DEF Suits, Handshaking
  <2>3. d.state # "CLOSED"
    BY <1>9, <1>12
  <2> QED BY Zenon, <1>9, <2>2, <2>3 DEF Ready, d
<1>13. CASE c.state \notin {"SYN_RCVD", "SYN_SENT"}
  <2>1. next = d.state
    <3> HIDE DEF next
    <3> QED BY Zenon, <1>8, <1>9, <1>10, <1>13 DEF Switch, SynchronizedStates
  <2>2. CASE ~ c.active
    BY Zenon, <1>8, <1>9, <2>1, <2>2, StaysReady DEF d
  <2>3. CASE c.active
    <3>1. c.state \notin {"INIT", "LISTEN"}
      BY <2>3 DEF Sound, Suits
    <3>2. Suits(d, next)
      <4> HIDE DEF next
      <4> QED BY Zenon, <1>8, <1>9, <1>13, <2>1, <2>3, <3>1 DEF Suits, Handshaking
    <3>3. d.state = "CLOSED" => d.rexmitTimer = "idle"
      BY <1>9 DEF Sound
    <3> QED BY <1>9, <3>2, <3>3 DEF Ready, d
  <2> QED BY <2>2, <2>3
<1>14. c.state = "SYN_SENT" => c.active
  BY DEF Sound, Suits
<1> QED BY <1>1, <1>11, <1>12, <1>13, <1>14

\* 2MSL expires.
LEMMA TwoMSLReady ==
  ASSUME NEW c, Sound(c)
  PROVE  Ready(process_TIMEOUT_2MSL(c)) /\ process_TIMEOUT_2MSL(c).written = c.written
<1> DEFINE t == [c EXCEPT !.the2MSLTimer = "idle"]
           a == [t EXCEPT !.event = "TIMEOUT_2MSL"]
           d == Assert(a, c.state = "TIME_WAIT", "2MSL timeout")
           next == nextState(d.state, d.event, d.active)
<1>0. "idle" \in TimerState /\ "TIMEOUT_2MSL" \in Events /\ "2MSL timeout" \in Errors
  BY DEF TimerState, Events, Errors
<1>1. c \in Conn
  BY DEF Sound
<1>2. Keeps(c, t)
  BY <1>0, <1>1, ReceiverFields
<1> HIDE DEF t
<1>3. a \in Conn /\ Receives(c, a) /\ a.sock = c.sock /\ a.event = "TIMEOUT_2MSL"
  BY <1>0, <1>1, <1>2, KeepsThenEvent
<1> HIDE DEF a
<1>4. Keeps(a, d)
  BY Zenon, <1>0, <1>3, AssertKeeps
<1> HIDE DEF d
<1>5. d \in Conn /\ Receives(c, d) /\ d.sock = c.sock /\ d.event = "TIMEOUT_2MSL"
  <2>1. Receives(a, d) /\ d.event = a.event /\ d.sock = a.sock
    BY <1>3, <1>4, ReceivesSteps DEF Keeps
  <2>2. Receives(c, d)
    BY <1>1, <1>3, <2>1, ReceivesSteps
  <2> QED BY <1>1, <1>3, <2>1, <2>2, ReceivesSteps
<1>6. d.state = c.state /\ d.written = c.written
  BY <1>5 DEF Receives, Core
<1>7. /\ next \in States
      /\ next # d.state => Switch(d.state, d.event, d.active, next)
      /\ next = d.state => \A n \in States : ~ Switch(d.state, d.event, d.active, n)
  BY <1>5, Moved
<1>a. process_TIMEOUT_2MSL(c) = d
  BY Zenon DEF process_TIMEOUT_2MSL, t, a, d
<1>8. CASE c.state = "TIME_WAIT"
  <2>1. next = "CLOSED" /\ d.state # "CLOSED"
    <3> HIDE DEF next
    <3>1. "CLOSED" \in States
      BY DEF States
    <3> QED BY <1>5, <1>6, <1>7, <1>8, <3>1 DEF Switch
  <2>2. ConnEstabFirst => Told(d)
    BY <1>5, <1>8 DEF Sound, Suits, Told
  <2>3. Suits(d, next)
    <3> HIDE DEF next
    <3> QED BY <2>1, <2>2 DEF Suits, Handshaking
  <2> QED BY <1>5, <1>6, <1>a, <2>1, <2>3 DEF Ready
<1>9. CASE c.state # "TIME_WAIT"
  <2>1. next = d.state
    <3> HIDE DEF next
    <3> QED BY <1>5, <1>6, <1>7, <1>9 DEF Switch
  <2> QED BY <1>5, <1>6, <1>a, <2>1, StaysReady
<1> QED BY <1>8, <1>9
=============================================================================
