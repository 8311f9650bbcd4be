--------------------------- MODULE TCPSenderProofs --------------------------
(***************************************************************************)
(* The handshake, that every step of TCPPair keeps the invariant of the    *)
(* sender, and the properties of TCPPair that follow from it.              *)
(***************************************************************************)
EXTENDS TCPReceivingProofs, TLAPS

(***************************************************************************)
(* The handshake.                                                          *)
(***************************************************************************)
\* The SYN takes the first number.
SynSent(c, d) ==
  /\ d \in Conn
  /\ d.snd_nxt = SeqAdd(c.iss, 1) /\ d.snd_max = SeqAdd(c.iss, 1)
  /\ Base(d) = Base(c) /\ d.snd_una = c.snd_una /\ d.snd_wnd = c.snd_wnd
  /\ d.rexmitTimer = c.rexmitTimer /\ d.sock = c.sock /\ d.event = c.event

\* sendSyn() and sendSynAck() set snd_nxt and snd_max alike.
LEMMA SendSynSends ==
  ASSUME NEW c \in Conn
  PROVE  SynSent(c, sendSyn(c)) /\ SynSent(c, sendSynAck(c))
<1> DEFINE a == Assert(c, c.remote, "foreign socket unspecified")
           v == SeqAdd(c.iss, 1)
           f(b) == [b EXCEPT !.snd_max = v]
           g(b) == [f(b) EXCEPT !.snd_nxt = v]
           s1 == Seg(c.iss, 0, {"SYN"})
           s2 == Seg(c.iss, c.rcv_nxt, {"SYN", "ACK"})
<1>0. /\ "foreign socket unspecified" \in Errors
      /\ {"SYN"} \in SUBSET Flags /\ {"SYN", "ACK"} \in SUBSET Flags
  BY DEF Errors, Flags
<1>1. c.iss \in SeqNo /\ c.rcv_nxt \in SeqNo /\ 0 \in SeqNo
  BY Fields, Numbers
<1>2. v \in SeqNo
  BY Zenon, <1>1, Numbers
<1>3. s1 \in Segment /\ s2 \in Segment
  BY Zenon, <1>0, <1>1, SegIsSegment
<1>4. Keeps(c, a)
  BY Zenon, <1>0, AssertKeeps
<1> HIDE DEF a, s1, s2
<1>5. ASSUME NEW b, Keeps(c, b) PROVE SynSent(c, g(b)) /\ g(b) \in Conn
  <2> HIDE DEF v
  <2>1. b \in Conn
    BY <1>5, KeepsSteps
  <2>2. f(b) \in Conn
    BY Zenon, <1>2, <2>1, Updates
  <2>3. g(b) \in Conn
    <3> HIDE DEF f
    <3> QED BY Zenon, <1>2, <2>2, Updates
  <2>4. /\ g(b).snd_nxt = v /\ g(b).snd_max = v
        /\ Base(g(b)) = Base(b) /\ g(b).snd_una = b.snd_una /\ g(b).snd_wnd = b.snd_wnd
        /\ g(b).rexmitTimer = b.rexmitTimer /\ g(b).sock = b.sock /\ g(b).event = b.event
    BY <2>1 DEF Conn, Base
  <2> HIDE DEF g
  <2>5. /\ Base(b) = Base(c) /\ b.snd_una = c.snd_una /\ b.snd_wnd = c.snd_wnd
        /\ b.rexmitTimer = c.rexmitTimer /\ b.sock = c.sock /\ b.event = c.event
    BY <1>5 DEF Keeps, Core, Base
  <2> QED BY <2>3, <2>4, <2>5 DEF SynSent, v
<1> HIDE DEF g
<1>6. ASSUME NEW b, SynSent(c, b), NEW seg \in Segment PROVE SynSent(c, sendToIP(b, seg))
  <2>1. b \in Conn
    BY <1>6 DEF SynSent
  <2>2. Keeps(b, sendToIP(b, seg))
    BY <2>1, SendToIPKeeps
  <2> QED BY <1>6, <2>2 DEF SynSent, Keeps, Core, Base
<1>7. SynSent(c, sendToIP(g(a), s1)) /\ SynSent(c, sendToIP(g(c), s2))
  BY <1>3, <1>4, <1>5, <1>6, KeepsSteps
<1>8. sendSyn(c) = sendToIP(g(a), s1) /\ sendSynAck(c) = sendToIP(g(c), s2)
  BY Zenon DEF sendSyn, sendSynAck, a, v, f, g, s1, s2
<1> QED BY <1>7, <1>8

\* A SYN that is sent again changes nothing.
LEMMA SynAgain ==
  ASSUME NEW c \in Conn, NEW d, SynSent(c, d),
         c.snd_nxt = SeqAdd(c.iss, 1), c.snd_max = SeqAdd(c.iss, 1)
  PROVE  Keeps(c, d)
BY DEF SynSent, Keeps, Core, Base

\* SYN-REXMIT expires: the SYN is sent again, or the connection aborted.
LEMMA SynRexmitReady ==
  ASSUME NEW c, Sound(c), c.syn_rexmit_count < ConnEstabRexmits
  PROVE  /\ Ready(process_TIMEOUT_SYN_REXMIT(c))
         /\ process_TIMEOUT_SYN_REXMIT(c).written = c.written
<1> DEFINE t == [c EXCEPT !.synRexmitTimer = "scheduled"]
           a == [t EXCEPT !.syn_rexmit_count = @ + 1]
           b == [a EXCEPT !.synRexmitTimer = "idle"]
           f == [b EXCEPT !.event = "ABORT"]
           g == Assert(a, FALSE, "SYN-REXMIT timeout")
           d == process_TIMEOUT_SYN_REXMIT(c)
           next == nextState(f.state, f.event, f.active)
<1>0. /\ "idle" \in TimerState /\ "scheduled" \in TimerState /\ "ABORT" \in Events
      /\ "SYN-REXMIT timeout" \in Errors
  BY DEF TimerState, Events, Errors
<1>1. c \in Conn /\ c.state \in States /\ c.syn_rexmit_count \in Nat
  BY Fields DEF Sound
<1>2. Keeps(c, a) /\ a \in Conn
  <2>1. Keeps(c, t)
    BY Zenon, <1>0, <1>1, HandshakeFields
  <2> HIDE DEF t
  <2>2. t \in Conn
    BY <2>1 DEF Keeps
  <2>3. t.syn_rexmit_count + 1 \in Nat
    BY <2>2, Fields
  <2>4. Keeps(t, a)
    BY <2>2, <2>3, HandshakeFields
  <2> HIDE DEF a
  <2> QED BY <1>1, <2>1, <2>4, KeepsSteps
<1> HIDE DEF a
<1>3. CASE c.syn_rexmit_count >= MaxSynRexmitCount
  <2>0. ~ c.syn_rexmit_count < MaxSynRexmitCount
    BY <1>1, <1>3, ConnectionAssumption
  <2>1. d = f
    BY Zenon, <1>3, <2>0 DEF process_TIMEOUT_SYN_REXMIT, t, a, b, f
  <2>2. ~ ConnEstabFirst
    BY <1>1, <1>3, ConnectionAssumption, PairAssumption DEF ConnEstabFirst
  <2>3. Keeps(a, b)
    BY Zenon, <1>0, <1>2, HandshakeFields
  <2> HIDE DEF b
  <2>4. Keeps(c, b)
    BY <1>1, <1>2, <2>3, KeepsSteps
  <2>5. f \in Conn /\ Receives(c, f) /\ f.sock = c.sock /\ f.event = "ABORT"
    BY Zenon, <1>0, <1>1, <2>4, KeepsThenEvent
  <2> HIDE DEF f, d
  <2>6. f.state = c.state /\ f.written = c.written /\ f.rexmitTimer = c.rexmitTimer
    BY <2>5 DEF Receives, Core
  <2>7. /\ next \in States
        /\ next # f.state => Switch(f.state, f.event, f.active, next)
        /\ next = f.state => \A n \in States : ~ Switch(f.state, f.event, f.active, n)
    BY <2>5, Moved
  <2>8. CASE c.state \in {"INIT", "CLOSED"}
    <3>1. next = f.state
      <4> HIDE DEF next
      <4> QED BY <2>5, <2>6, <2>7, <2>8 DEF Switch, SynchronizedStates
    <3>2. Ready(f)
      BY <2>5, <3>1, StaysReady
    <3> QED BY <2>1, <2>6, <3>2 DEF d
  <2>9. CASE c.state \notin {"INIT", "CLOSED"}
    <3>1. next = "CLOSED"
      <4> HIDE DEF next
      <4>1. c.state \in {"LISTEN", "SYN_SENT", "SYN_RCVD"} \cup SynchronizedStates
            /\ "CLOSED" \in States
        BY <1>1, <2>9 DEF States, SynchronizedStates
      <4> QED BY <2>5, <2>6, <2>7, <2>9, <4>1 DEF Switch
    <3>2. Suits(f, next)
      <4> HIDE DEF next
      <4> QED BY <2>2, <3>1 DEF Suits, Handshaking
    <3>3. Ready(f)
      BY <2>5, <2>6, <2>9, <3>1, <3>2 DEF Ready
    <3> QED BY <2>1, <2>6, <3>3 DEF d
  <2> QED BY <2>8, <2>9
<1>4. CASE ~ c.syn_rexmit_count >= MaxSynRexmitCount
  <2>0. c.syn_rexmit_count < MaxSynRexmitCount
    BY <1>1, <1>4, ConnectionAssumption
  <2>1. SynSent(a, sendSyn(a)) /\ SynSent(a, sendSynAck(a)) /\ Keeps(a, g)
    <3>1. Keeps(a, g)
      BY Zenon, <1>0, <1>2, AssertKeeps
    <3> QED BY Zenon, <1>2, <3>1, SendSynSends
  <2>2. c.state \in Handshaking => a.snd_nxt = SeqAdd(a.iss, 1) /\ a.snd_max = SeqAdd(a.iss, 1)
    BY <1>2 DEF Sound, Suits, Keeps, Core
  <2>3. CASE c.state \in Handshaking
    <3>1. d \in {sendSyn(a), sendSynAck(a)}
      BY Zenon, <1>4, <2>0, <2>3 DEF process_TIMEOUT_SYN_REXMIT, t, a, Handshaking
    <3> HIDE DEF d
    <3>2. Keeps(a, d)
      BY Zenon, <1>2, <2>1, <2>2, <2>3, <3>1, SynAgain
    <3>3. Keeps(c, d)
      BY <1>1, <1>2, <3>2, KeepsSteps
    <3> QED BY <3>3, KeepsReady DEF d
  <2>4. CASE c.state \notin Handshaking
    <3>1. d = g
      BY Zenon, <1>4, <2>0, <2>4 DEF process_TIMEOUT_SYN_REXMIT, t, a, g, Handshaking
    <3> HIDE DEF d
    <3>2. Keeps(c, d)
      BY Zenon, <1>1, <1>2, <2>1, <3>1, KeepsSteps
    <3> QED BY <3>2, KeepsReady DEF d
  <2> QED BY <2>3, <2>4
<1> QED BY <1>3, <1>4

\* The numbers of the SYN and of what follows it.
LEMMA FirstNumbers ==
  ASSUME NEW iss \in SeqNo
  PROVE  /\ SeqDiff(iss, iss) = 0
         /\ SeqAdd(iss, 1) \in SeqNo /\ SeqDiff(SeqAdd(iss, 1), iss) = 1
<1>1. SeqDiff(iss, iss) = 0
  BY Difference, Numbers
<1>2. 1 \in Nat /\ SeqDiff(iss, iss) + 1 < SeqMod
  BY <1>1, SeqModAssumption
<1> QED BY <1>1, <1>2, Farther

\* A connection right after its SYN was sent with the initial number iss.
Starts(c, d, iss) ==
  /\ d \in Conn /\ d.iss = iss /\ d.snd_una = iss
  /\ d.snd_nxt = SeqAdd(iss, 1) /\ d.snd_max = SeqAdd(iss, 1) /\ d.end = SeqAdd(iss, 1)
  /\ d.state = c.state /\ d.send_fin = c.send_fin /\ d.closeCalled = c.closeCalled
  /\ d.written = c.written /\ d.rexmitTimer = c.rexmitTimer

\* It is in order, if no CLOSE came before.
LEMMA StartsFlow ==
  ASSUME NEW c \in Conn, NEW iss \in SeqNo, NEW d, Starts(c, d, iss), Flow(c),
         ~ c.closeCalled, d.snd_wnd = c.snd_wnd \/ d.snd_wnd = RcvWnd
  PROVE  Flow(d)
<1> SUFFICES ASSUME Roomy(d.written) PROVE InOrder(d) /\ InWindow(d) /\ Armed(d)
  BY DEF Flow
<1>1. d \in Conn /\ d.written = c.written /\ d.written \in Nat /\ c.snd_wnd \in Nat
      /\ c.send_fin \in BOOLEAN
  BY Fields DEF Starts
<1>2. InOrder(c) /\ InWindow(c)
  BY <1>1 DEF Flow
<1>3. d.send_fin = FALSE
  BY <1>1, <1>2 DEF Starts, InOrder
<1>4. d.snd_wnd <= RcvWnd
  BY <1>2, ConnectionAssumption DEF InWindow
<1>5. SeqDiff(iss, iss) = 0 /\ SeqDiff(SeqAdd(iss, 1), iss) = 1
  BY FirstNumbers
<1>6. Una(d) = 0 /\ Nxt(d) = 1 /\ Maxi(d) = 1 /\ End(d) = 1
  BY <1>5 DEF Starts, Una, Nxt, Maxi, End
<1>7. InOrder(d)
  BY <1>1, <1>3, <1>6 DEF InOrder
<1>8. InWindow(d)
  BY <1>4, <1>6, ConnectionAssumption DEF InWindow
<1>9. Armed(d)
  BY <1>6 DEF Armed
<1> QED BY <1>7, <1>8, <1>9

\* selectInitialSeqNum() and the SYN.
LEMMA SelectStarts ==
  ASSUME NEW c \in Conn, NEW iss \in SeqNo
  PROVE  LET a == selectInitialSeqNum(c, iss)
         IN /\ a \in Conn /\ a.iss = iss /\ a.snd_una = iss /\ a.end = SeqAdd(iss, 1)
            /\ a.snd_wnd = c.snd_wnd /\ a.active = c.active /\ a.sock = c.sock
            /\ a.event = c.event /\ a.state = c.state /\ a.send_fin = c.send_fin
            /\ a.closeCalled = c.closeCalled /\ a.written = c.written
            /\ a.rexmitTimer = c.rexmitTimer
            /\ \A d : SynSent(a, d) => Starts(c, d, iss)
<1> DEFINE v == SeqAdd(iss, 1)
           n1 == [c EXCEPT !.iss = iss]
           n2 == [n1 EXCEPT !.snd_una = iss]
           n3 == [n2 EXCEPT !.snd_nxt = iss]
           n4 == [n3 EXCEPT !.snd_max = iss]
           n5 == [n4 EXCEPT !.begin = v]
           a == [n5 EXCEPT !.end = v]
<1>1. v \in SeqNo
  BY Numbers
<1> HIDE DEF v
<1>2. a \in Conn
  <2>1. n1 \in Conn
    BY Zenon, Updates
  <2> HIDE DEF n1
  <2>2. n2 \in Conn
    BY Zenon, <2>1, Updates
  <2> HIDE DEF n2
  <2>3. n3 \in Conn
    BY Zenon, <2>2, Updates
  <2> HIDE DEF n3
  <2>4. n4 \in Conn
    BY Zenon, <2>3, Updates
  <2> HIDE DEF n4
  <2>5. n5 \in Conn
    BY Zenon, <1>1, <2>4, Updates
  <2> HIDE DEF n5
  <2> QED BY Zenon, <1>1, <2>5, Updates
<1>3. /\ a.iss = iss /\ a.snd_una = iss /\ a.end = v
      /\ a.snd_wnd = c.snd_wnd /\ a.active = c.active /\ a.sock = c.sock
      /\ a.event = c.event /\ a.state = c.state /\ a.send_fin = c.send_fin
      /\ a.closeCalled = c.closeCalled /\ a.written = c.written
      /\ a.rexmitTimer = c.rexmitTimer
  BY DEF Conn
<1>4. a = selectInitialSeqNum(c, iss)
  BY Zenon DEF selectInitialSeqNum, v, n1, n2, n3, n4, n5, a
<1> HIDE DEF a
<1>5. \A d : SynSent(a, d) => Starts(c, d, iss)
  BY <1>3 DEF SynSent, Base, Starts, v
<1> QED BY <1>2, <1>3, <1>4, <1>5 DEF v

\* Timers and the foreign socket do not matter to it.
LEMMA StartsKeeps ==
  ASSUME NEW c \in Conn, NEW iss \in SeqNo, NEW a, Starts(c, a, iss), NEW d, Keeps(a, d)
  PROVE  /\ Starts(c, d, iss) /\ d.snd_wnd = a.snd_wnd /\ d.active = a.active
         /\ d.sock = a.sock /\ d.event = a.event
BY DEF Starts, Keeps, Core

\* An active open, by OPEN_ACTIVE or by SEND on a listening connection.
LEMMA StartActiveOpenStarts ==
  ASSUME NEW c \in Conn, NEW iss \in SeqNo
  PROVE  LET d == startActiveOpen(c, iss)
         IN /\ Starts(c, d, iss) /\ d.active /\ d.snd_wnd = c.snd_wnd
            /\ d.sock = c.sock /\ d.event = c.event
<1> DEFINE x == [c EXCEPT !.active = TRUE]
           a == selectInitialSeqNum(x, iss)
           b == sendSyn(a)
           t == startSynRexmitTimer(b)
           d == scheduleConnEstab(t)
<1>1. x \in Conn /\ x.active /\ x.snd_wnd = c.snd_wnd /\ x.sock = c.sock /\ x.event = c.event
      /\ x.state = c.state /\ x.send_fin = c.send_fin /\ x.closeCalled = c.closeCalled
      /\ x.written = c.written /\ x.rexmitTimer = c.rexmitTimer
  <2>1. TRUE \in BOOLEAN
    OBVIOUS
  <2>2. x \in Conn
    BY Zenon, <2>1, Updates
  <2> QED BY <2>2 DEF Conn
<1> HIDE DEF x
<1>2. /\ a \in Conn /\ a.snd_wnd = x.snd_wnd /\ a.active = x.active /\ a.sock = x.sock
      /\ a.event = x.event
      /\ \A f : SynSent(a, f) => Starts(x, f, iss)
  BY Zenon, <1>1, SelectStarts
<1> HIDE DEF a
<1>3. SynSent(a, b)
  BY <1>2, SendSynSends
<1> HIDE DEF b
<1>4. /\ b \in Conn /\ Starts(x, b, iss) /\ b.snd_wnd = x.snd_wnd /\ b.active = x.active
      /\ b.sock = x.sock /\ b.event = x.event
  BY <1>2, <1>3 DEF SynSent, Base
<1>5. Keeps(b, t)
  BY <1>4, TimersKeep
<1> HIDE DEF t
<1>6. Keeps(t, d)
  BY <1>4, <1>5, TimersKeep, KeepsSteps
<1> HIDE DEF d
<1>7. Keeps(b, d)
  BY <1>4, <1>5, <1>6, KeepsSteps
<1>8. /\ Starts(x, d, iss) /\ d.snd_wnd = b.snd_wnd /\ d.active = b.active
      /\ d.sock = b.sock /\ d.event = b.event
  BY Zenon, <1>1, <1>4, <1>7, StartsKeeps
<1>9. Starts(c, d, iss)
  BY <1>1, <1>8 DEF Starts
<1>10. startActiveOpen(c, iss) = d
  BY Zenon DEF startActiveOpen, x, a, b, t, d
<1> QED BY Zenon, <1>1, <1>4, <1>8, <1>9, <1>10

\* process_OPEN_ACTIVE() of a connection that is new.
LEMMA OpenActiveReady ==
  ASSUME NEW c, Sound(c), c.state = "INIT", NEW iss \in SeqNo
  PROVE  /\ Ready(process_OPEN_ACTIVE(c, iss))
         /\ process_OPEN_ACTIVE(c, iss).written = c.written
<1> DEFINE i == initialize(c)
           r == [i EXCEPT !.remote = TRUE]
           a == startActiveOpen(r, iss)
           b == [a EXCEPT !.sock = "CONNECTING"]
           d == [b EXCEPT !.event = "OPEN_ACTIVE"]
           next == nextState(d.state, d.event, d.active)
<1>0. "CONNECTING" \in SockStates /\ "OPEN_ACTIVE" \in Events /\ "SYN_SENT" \in States
      /\ TRUE \in BOOLEAN
  BY DEF SockStates, Events, States
<1>1. c \in Conn /\ Flow(c) /\ c.rexmitTimer = "idle" /\ ~ c.closeCalled
  BY DEF Sound, Suits
<1>2. Keeps(c, i)
  BY <1>1, CwndKeeps
<1> HIDE DEF i
<1>3. Keeps(i, r)
  <2>1. i \in Conn
    BY <1>1, <1>2, KeepsSteps
  <2>2. r \in Conn
    BY Zenon, <1>0, <2>1, Updates
  <2> QED BY <2>1, <2>2 DEF Conn, Keeps, Core
<1> HIDE DEF r
<1>4. Keeps(c, r) /\ r \in Conn
  BY <1>1, <1>2, <1>3, KeepsSteps
<1>5. /\ Flow(r) /\ ~ r.closeCalled /\ r.rexmitTimer = "idle" /\ r.written = c.written
      /\ r.state = "INIT"
  BY <1>1, <1>4, KeepsFlow DEF Keeps, Core
<1>6. Starts(r, a, iss) /\ a.active /\ a.snd_wnd = r.snd_wnd
  BY <1>4, StartActiveOpenStarts
<1> HIDE DEF a
<1>7. Flow(a)
  BY <1>4, <1>5, <1>6, StartsFlow
<1>8. d \in Conn /\ d.sock = "CONNECTING" /\ d.event = "OPEN_ACTIVE" /\ d.state = a.state
      /\ d.iss = a.iss /\ d.snd_una = a.snd_una /\ d.snd_nxt = a.snd_nxt
      /\ d.snd_max = a.snd_max /\ d.end = a.end /\ d.snd_wnd = a.snd_wnd
      /\ d.send_fin = a.send_fin /\ d.snd_fin_seq = a.snd_fin_seq
      /\ d.closeCalled = a.closeCalled /\ d.written = a.written
      /\ d.rexmitTimer = a.rexmitTimer /\ d.active = a.active
  <2>1. a \in Conn
    BY <1>6 DEF Starts
  <2>2. b \in Conn
    BY Zenon, <1>0, <2>1, Updates
  <2>3. d \in Conn
    <3> HIDE DEF b
    <3> QED BY Zenon, <1>0, <2>2, Updates
  <2> QED BY <2>1, <2>3 DEF Conn
<1> HIDE DEF d
<1>9. Flow(d)
  BY Zenon, <1>7, <1>8 DEF Flow, InOrder, InWindow, Armed, Una, Nxt, Maxi, End
<1>10. d.state = "INIT" /\ d.written = c.written
  BY <1>5, <1>6, <1>8 DEF Starts
<1>11. next = "SYN_SENT"
  <2>1. /\ next # d.state => Switch(d.state, d.event, d.active, next)
        /\ next = d.state => \A n \in States : ~ Switch(d.state, d.event, d.active, n)
    BY <1>8, Moved
  <2> HIDE DEF next
  <2> QED BY <1>0, <1>8, <1>10, <2>1 DEF Switch, SynchronizedStates
<1>12. Suits(d, next)
  <2> HIDE DEF next
  <2> QED BY <1>5, <1>6, <1>8, <1>11 DEF Suits, Starts, Handshaking
<1>13. Ready(d)
  BY <1>8, <1>9, <1>10, <1>12 DEF Ready
<1>14. process_OPEN_ACTIVE(c, iss) = d
  BY Zenon DEF process_OPEN_ACTIVE, i, r, a, b, d
<1> QED BY <1>10, <1>13, <1>14

\* process_OPEN_PASSIVE() of a connection that is new.
LEMMA OpenPassiveReady ==
  ASSUME NEW c, Sound(c), c.state = "INIT"
  PROVE  Ready(process_OPEN_PASSIVE(c)) /\ process_OPEN_PASSIVE(c).written = c.written
<1> DEFINE i == initialize(c)
           a == [i EXCEPT !.active = FALSE]
           b == [a EXCEPT !.sock = "LISTENING"]
           d == [b EXCEPT !.event = "OPEN_PASSIVE"]
           next == nextState(d.state, d.event, d.active)
<1>0. "LISTENING" \in SockStates /\ "OPEN_PASSIVE" \in Events /\ "LISTEN" \in States
      /\ FALSE \in BOOLEAN
  BY DEF SockStates, Events, States
<1>1. c \in Conn /\ Flow(c) /\ c.rexmitTimer = "idle" /\ ~ c.closeCalled
  BY DEF Sound, Suits
<1>2. Keeps(c, i)
  BY <1>1, CwndKeeps
<1> HIDE DEF i
<1>3. /\ i \in Conn /\ Flow(i) /\ i.rexmitTimer = "idle" /\ ~ i.closeCalled
      /\ i.state = "INIT" /\ i.written = c.written
  BY <1>1, <1>2, KeepsFlow DEF Keeps, Core
<1>4. d \in Conn /\ d.sock = "LISTENING" /\ d.event = "OPEN_PASSIVE" /\ d.state = i.state
      /\ d.iss = i.iss /\ d.snd_una = i.snd_una /\ d.snd_nxt = i.snd_nxt
      /\ d.snd_max = i.snd_max /\ d.end = i.end /\ d.snd_wnd = i.snd_wnd
      /\ d.send_fin = i.send_fin /\ d.snd_fin_seq = i.snd_fin_seq
      /\ d.closeCalled = i.closeCalled /\ d.written = i.written
      /\ d.rexmitTimer = i.rexmitTimer /\ ~ d.active
  <2>1. a \in Conn
    BY Zenon, <1>0, <1>3, Updates
  <2>2. b \in Conn
    <3> HIDE DEF a
    <3> QED BY Zenon, <1>0, <2>1, Updates
  <2>3. d \in Conn
    <3> HIDE DEF b
    <3> QED BY Zenon, <1>0, <2>2, Updates
  <2> QED BY <1>3, <2>3 DEF Conn
<1> HIDE DEF d
<1>5. Flow(d)
  BY Zenon, <1>3, <1>4 DEF Flow, InOrder, InWindow, Armed, Una, Nxt, Maxi, End
<1>6. next = "LISTEN"
  <2>1. /\ next # d.state => Switch(d.state, d.event, d.active, next)
        /\ next = d.state => \A n \in States : ~ Switch(d.state, d.event, d.active, n)
    BY <1>4, Moved
  <2> HIDE DEF next
  <2> QED BY <1>0, <1>3, <1>4, <2>1 DEF Switch, SynchronizedStates
<1>7. Suits(d, next)
  <2> HIDE DEF next
  <2> QED BY <1>3, <1>4, <1>6 DEF Suits, Handshaking
<1>8. Ready(d) /\ d.written = c.written
  BY <1>3, <1>4, <1>5, <1>7 DEF Ready
<1>9. process_OPEN_PASSIVE(c) = d
  BY Zenon DEF process_OPEN_PASSIVE, i, a, b, d
<1> QED BY <1>8, <1>9

\* SEND queues the octets; it sends them when the connection is established, and
\* opens a listening one.
LEMMA SendReady ==
  ASSUME NEW c, Sound(c), ~ c.closeCalled, NEW n \in Nat, NEW iss \in SeqNo,
         c.sock \in {"CONNECTED", "CONNECTING", "PEER_CLOSED"} \/ c.state = "LISTEN"
  PROVE  /\ Ready(process_SEND(c, n, iss))
         /\ process_SEND(c, n, iss).written \in {c.written, c.written + n}
<1> DEFINE a == [c EXCEPT !.event = "SEND"]
           q == enqueueAppData(a, n)
           s == sendData(q)
           o == startActiveOpen(a, iss)
           l == enqueueAppData(o, n)
           w == Assert(a, FALSE, "SEND: connection not open or closing")
           d == process_SEND(c, n, iss)
           next == nextState(d.state, d.event, d.active)
<1>0. "SEND" \in Events /\ "SEND: connection not open or closing" \in Errors
  BY DEF Events, Errors
<1>1. c \in Conn /\ Flow(c) /\ c.state \in States
  BY Fields DEF Sound
<1>2. /\ KeepsButState(c, a) /\ a.event = "SEND" /\ a.state = c.state /\ a \in Conn
      /\ Flow(a)
  <2>1. KeepsButState(c, a) /\ a.event = "SEND" /\ a.state = c.state
    BY Zenon, <1>0, <1>1, EventKeeps
  <2> HIDE DEF a
  <2> QED BY <1>1, <2>1, SameFlow DEF KeepsButState
<1> HIDE DEF a
<1>3. ~ a.closeCalled /\ a.sock = c.sock /\ a.written = c.written /\ a.active = c.active
      /\ a.rexmitTimer = c.rexmitTimer /\ a.iss = c.iss /\ a.snd_una = c.snd_una
      /\ a.snd_nxt = c.snd_nxt /\ a.snd_max = c.snd_max
  BY <1>2 DEF KeepsButState
<1>4. /\ q \in Conn /\ Flow(q) /\ q.written = c.written + n /\ q.event = "SEND"
      /\ q.state = c.state /\ q.active = c.active /\ q.iss = c.iss
      /\ q.snd_una = c.snd_una /\ q.snd_nxt = c.snd_nxt /\ q.snd_max = c.snd_max
      /\ q.sock = c.sock /\ q.rexmitTimer = c.rexmitTimer
  BY SMTT(30), <1>2, <1>3, EnqueueFlow
<1> HIDE DEF q
<1>5. ASSUME NEW f \in Conn, f.event = "SEND", f.state # "LISTEN"
      PROVE  nextState(f.state, f.event, f.active) = f.state
  BY <1>5, Moved DEF Switch
<1>6. CASE c.state = "LISTEN"
  <2>1. d = l
    BY <1>6 DEF process_SEND, a, o, l
  <2>2. Starts(a, o, iss) /\ o.active /\ o.snd_wnd = a.snd_wnd /\ o.sock = a.sock
        /\ o.event = "SEND"
    BY <1>2, StartActiveOpenStarts
  <2> HIDE DEF o
  <2>3. o \in Conn /\ Flow(o) /\ ~ o.closeCalled
    BY <1>2, <1>3, <2>2, StartsFlow DEF Starts
  <2>4. /\ l \in Conn /\ Flow(l) /\ l.written = o.written + n /\ l.event = o.event
        /\ l.state = o.state /\ l.active = o.active /\ l.iss = o.iss
        /\ l.snd_una = o.snd_una /\ l.snd_nxt = o.snd_nxt /\ l.snd_max = o.snd_max
        /\ l.sock = o.sock /\ l.rexmitTimer = o.rexmitTimer
    BY <2>3, EnqueueFlow
  <2> HIDE DEF l, d
  <2>5. /\ d \in Conn /\ Flow(d) /\ d.written = c.written + n /\ d.event = "SEND"
        /\ d.state = "LISTEN" /\ d.active /\ d.snd_una = d.iss
        /\ d.snd_nxt = SeqAdd(d.iss, 1) /\ d.snd_max = SeqAdd(d.iss, 1)
        /\ d.sock = c.sock /\ d.rexmitTimer = c.rexmitTimer
    BY SMTT(30), <1>2, <1>3, <1>6, <2>1, <2>2, <2>4 DEF Starts
  <2>6. next = "SYN_SENT"
    <3>1. /\ next # d.state => Switch(d.state, d.event, d.active, next)
          /\ next = d.state => \A m \in States : ~ Switch(d.state, d.event, d.active, m)
      BY Zenon, <2>5, Moved
    <3>2. "SYN_SENT" \in States
      BY DEF States
    <3> HIDE DEF next
    <3> QED BY <2>5, <3>1, <3>2 DEF Switch, SynchronizedStates
  <2>7. c.sock = "LISTENING" /\ c.rexmitTimer = "idle"
    BY <1>6 DEF Sound, Suits
  <2>8. Suits(d, next)
    <3> HIDE DEF next
    <3> QED BY <2>5, <2>6, <2>7 DEF Suits, Handshaking
  <2> QED BY Zenon, <2>5, <2>8 DEF Ready, d
<1>7. CASE c.state \in {"SYN_SENT", "SYN_RCVD"}
  <2>1. d = q
    BY Zenon, <1>7 DEF process_SEND, a, q
  <2>2. next = d.state
    BY <1>4, <1>5, <1>7, <2>1
  <2>3. /\ c.snd_una = c.iss /\ c.snd_nxt = SeqAdd(c.iss, 1) /\ c.snd_max = SeqAdd(c.iss, 1)
        /\ c.rexmitTimer = "idle" /\ c.active
        /\ c.state = "SYN_SENT" => c.sock # "CONNECTED"
    BY <1>7 DEF Sound, Suits, Handshaking
  <2>4. Suits(d, c.state)
    <3> HIDE DEF d
    <3> QED BY Zenon, <1>4, <1>7, <2>1, <2>3 DEF Suits, Handshaking
  <2> HIDE DEF d
  <2> QED BY <1>4, <1>7, <2>1, <2>2, <2>4 DEF Ready, d
<1>8. CASE c.state \in {"ESTABLISHED", "CLOSE_WAIT"}
  <2>1. d = s
    BY <1>8 DEF process_SEND, a, q, s
  <2>2. Goes(q, s)
    BY <1>4, GoesSteps
  <2> HIDE DEF s, d
  <2>3. /\ d \in Conn /\ Flow(d) /\ d.event = "SEND" /\ d.state = c.state
        /\ d.written = c.written + n
    BY <1>4, <2>1, <2>2 DEF Goes, Moves, Base
  <2>4. next = d.state
    BY <1>5, <1>8, <2>3
  <2>5. Suits(d, c.state)
    BY <1>8 DEF Suits, Handshaking
  <2> QED BY <1>8, <2>3, <2>4, <2>5 DEF Ready, d
<1>9. CASE c.state \notin {"LISTEN", "SYN_SENT", "SYN_RCVD", "ESTABLISHED", "CLOSE_WAIT"}
  <2>1. d = w
    BY Zenon, <1>9 DEF process_SEND, a, w
  <2>2. Keeps(a, w)
    BY Zenon, <1>0, <1>2, AssertKeeps
  <2> HIDE DEF w, d
  <2>3. /\ d \in Conn /\ d.event = "SEND" /\ d.state = c.state /\ d.written = c.written
        /\ d.sock = c.sock /\ d.rexmitTimer = c.rexmitTimer
        /\ KeepsButState(c, d)
    BY <1>2, <1>3, <2>1, <2>2 DEF Keeps, Core, KeepsButState
  <2>4. next = d.state
    BY <1>5, <1>9, <2>3
  <2>5. Flow(d) /\ Suits(d, c.state)
    BY <1>1, <2>3, SameFlow DEF Sound
  <2>6. d.state = "CLOSED" => d.rexmitTimer = "idle"
    BY <2>3 DEF Sound
  <2> QED BY <2>3, <2>4, <2>5, <2>6 DEF Ready, d
<1> QED BY <1>6, <1>7, <1>8, <1>9

\* A SYN in LISTEN is answered with SYN+ACK.
LEMMA InListenReady ==
  ASSUME NEW c, Sound(c), c.state = "LISTEN", NEW s \in Segment, NEW iss \in SeqNo
  PROVE  /\ Ready(processSegmentInListen(c, s, iss))
         /\ processSegmentInListen(c, s, iss).written = c.written
<1> DEFINE v == SeqAdd(s.seq, 1)
           x == [c EXCEPT !.remote = TRUE]
           y == [x EXCEPT !.rcv_nxt = v]
           a == [y EXCEPT !.rcvQueue = rcvInit(@, v)]
           m == selectInitialSeqNum(a, iss)
           m1 == [m EXCEPT !.snd_wnd = RcvWnd]
           m2 == [m1 EXCEPT !.snd_wl1 = s.seq]
           m3 == [m2 EXCEPT !.snd_wl2 = iss]
           b == [m3 EXCEPT !.event = "RCV_SYN"]
           k == sendSynAck(b)
           f == startSynRexmitTimer(k)
           g == scheduleConnEstab(f)
           d == IF f.connEstabTimer = "scheduled" THEN f ELSE g
           r == sendRst(c, s.ack)
           next == nextState(d.state, d.event, d.active)
<1>0. /\ s.seq \in SeqNo /\ s.ack \in SeqNo /\ RcvWnd \in Nat /\ "RCV_SYN" \in Events
      /\ "SYN_RCVD" \in States /\ TRUE \in BOOLEAN
  BY ConnectionAssumption DEF Segment, Events, States
<1>1. /\ c \in Conn /\ Flow(c) /\ c.rexmitTimer = "idle" /\ ~ c.closeCalled /\ ~ c.active
      /\ c.sock = "LISTENING"
  BY DEF Sound, Suits
<1>2. v \in SeqNo
  BY Zenon, <1>0, Numbers
<1> HIDE DEF v
<1>3. Keeps(c, a)
  <2>1. Keeps(c, x)
    <3>1. x \in Conn
      BY Zenon, <1>0, <1>1, Updates
    <3> QED BY <1>1, <3>1 DEF Conn, Keeps, Core
  <2> HIDE DEF x
  <2>2. Keeps(x, y)
    BY <1>1, <1>2, <2>1, ReceiverFields, KeepsSteps
  <2> HIDE DEF y
  <2>3. Keeps(c, y) /\ y \in Conn
    BY <1>1, <2>1, <2>2, KeepsSteps
  <2>4. y.rcvQueue \in RcvQueue /\ 0 \in Nat
    BY <2>3, Fields
  <2>5. rcvInit(y.rcvQueue, v) \in RcvQueue
    BY <1>2, <2>4, QueueTyped
  <2>6. Keeps(y, a)
    BY <2>3, <2>5, ReceiverFields
  <2> HIDE DEF a
  <2> QED BY <1>1, <2>3, <2>6, KeepsSteps
<1> HIDE DEF a
<1>4. /\ a \in Conn /\ Flow(a) /\ ~ a.closeCalled /\ ~ a.active /\ a.sock = "LISTENING"
      /\ a.rexmitTimer = "idle" /\ a.state = "LISTEN" /\ a.written = c.written
  BY <1>1, <1>3, KeepsFlow DEF Keeps, Core
<1>5. /\ m \in Conn /\ m.iss = iss /\ m.snd_una = iss /\ m.end = SeqAdd(iss, 1)
      /\ m.active = a.active /\ m.sock = a.sock /\ m.state = a.state
      /\ m.send_fin = a.send_fin /\ m.closeCalled = a.closeCalled
      /\ m.written = a.written /\ m.rexmitTimer = a.rexmitTimer
  BY <1>4, SelectStarts
<1> HIDE DEF m
<1>6. /\ b \in Conn /\ b.iss = m.iss /\ b.snd_una = m.snd_una /\ b.end = m.end
      /\ b.active = m.active /\ b.sock = m.sock /\ b.state = m.state
      /\ b.send_fin = m.send_fin /\ b.closeCalled = m.closeCalled
      /\ b.written = m.written /\ b.rexmitTimer = m.rexmitTimer
      /\ b.snd_wnd = RcvWnd /\ b.event = "RCV_SYN"
  <2>1. m1 \in Conn
    BY Zenon, <1>0, <1>5, Updates
  <2>2. m2 \in Conn
    <3> HIDE DEF m1
    <3> QED BY Zenon, <1>0, <2>1, Updates
  <2>3. m3 \in Conn
    <3> HIDE DEF m2
    <3> QED BY Zenon, <2>2, Updates
  <2>4. b \in Conn
    <3> HIDE DEF m3
    <3> QED BY Zenon, <1>0, <2>3, Updates
  <2> QED BY <1>5, <2>4 DEF Conn
<1> HIDE DEF b
<1>7. SynSent(b, k)
  BY <1>6, SendSynSends
<1> HIDE DEF k
<1>8. /\ Starts(a, k, iss) /\ k.snd_wnd = RcvWnd /\ k.event = "RCV_SYN" /\ k.active = a.active
      /\ k.sock = a.sock /\ k \in Conn
  BY <1>5, <1>6, <1>7 DEF SynSent, Base, Starts
<1>9. Keeps(k, f)
  BY <1>8, TimersKeep
<1> HIDE DEF f
<1>10. Keeps(k, d)
  <2>1. Keeps(f, g)
    BY <1>8, <1>9, TimersKeep, KeepsSteps
  <2> HIDE DEF g
  <2> QED BY <1>8, <1>9, <2>1, KeepsSteps
<1> HIDE DEF d
<1>11. /\ Starts(a, d, iss) /\ d.snd_wnd = RcvWnd /\ d.event = "RCV_SYN" /\ ~ d.active
       /\ d.sock = "LISTENING"
  BY <1>4, <1>8, <1>10, StartsKeeps
<1>12. Flow(d)
  BY <1>4, <1>11, StartsFlow
<1>13. next = "SYN_RCVD"
  <2>1. /\ next # d.state => Switch(d.state, d.event, d.active, next)
        /\ next = d.state => \A n \in States : ~ Switch(d.state, d.event, d.active, n)
    BY <1>11, Moved DEF Starts
  <2>2. d.state = "LISTEN"
    BY <1>4, <1>11 DEF Starts
  <2> HIDE DEF next
  <2> QED BY <1>0, <1>11, <2>1, <2>2 DEF Switch, SynchronizedStates
<1>14. Suits(d, next)
  <2> HIDE DEF next
  <2> QED BY <1>4, <1>11, <1>13 DEF Suits, Starts, Handshaking
<1>15. Ready(d) /\ d.written = c.written
  BY <1>4, <1>11, <1>12, <1>14 DEF Ready, Starts
<1>16. /\ Ready(c) /\ c.written = c.written /\ Ready(r) /\ r.written = c.written
  <2>1. Keeps(c, c) /\ Keeps(c, r)
    BY <1>0, <1>1, SendKeeps, KeepsSteps
  <2> HIDE DEF r
  <2> QED BY <2>1, KeepsReady
<1>17. processSegmentInListen(c, s, iss) \in {c, r, d}
  BY Zenon DEF processSegmentInListen, v, x, y, a, m, m1, m2, m3, b, k, f, g, d, r
<1> QED BY <1>15, <1>16, <1>17

\* The only ACK that SYN_SENT accepts is the one for its SYN.
LEMMA SynAcked ==
  ASSUME NEW iss \in SeqNo, NEW ack \in SeqNo, ~ seqLE(ack, iss),
         ~ seqGreater(ack, SeqAdd(iss, 1))
  PROVE  ack = SeqAdd(iss, 1) /\ seqGreater(ack, iss)
<1> DEFINE v == SeqAdd(iss, 1)
           x == SeqDiff(ack, iss)
<1>1. SeqDiff(iss, iss) = 0
  BY FirstNumbers
<1>2. v \in SeqNo /\ SeqDiff(v, iss) = 1
  BY FirstNumbers
<1> HIDE DEF v
<1>3. x \in Nat /\ x < SeqMod
  BY Difference
<1>4. SeqDiff(iss, ack) = IF x <= 0 THEN 0 - x ELSE 0 - x + SeqMod
  BY <1>1, Apart
<1>5. SeqDiff(ack, v) = IF 1 <= x THEN x - 1 ELSE x - 1 + SeqMod
  BY <1>2, Apart
<1> HIDE DEF x
<1>6. 1 <= x /\ x <= SeqMod \div 2
  BY <1>3, <1>4, Half, SeqModAssumption DEF seqLE
<1>7. ack = v
  <2>1. ~ seqGreater(ack, v)
    BY DEF v
  <2> QED BY <1>3, <1>5, <1>6, <2>1, Half, SeqModAssumption DEF seqGreater
<1>8. seqGreater(ack, iss)
  <2>1. 1 < SeqMod \div 2 /\ 0 # 1
    BY Half, SeqModAssumption
  <2> QED BY <1>1, <1>2, <1>7, <2>1 DEF seqGreater
<1> QED BY <1>7, <1>8 DEF v

\* The SYN of the peer, with its ACK of ours: all that was sent is acknowledged.
LEMMA SynAckFlow ==
  ASSUME NEW c \in Conn, Flow(c), c.snd_una = c.iss, c.snd_nxt = SeqAdd(c.iss, 1),
         c.snd_max = SeqAdd(c.iss, 1), NEW d \in Conn, Base(d) = Base(c),
         d.snd_una = SeqAdd(c.iss, 1), d.snd_nxt = c.snd_nxt, d.snd_max = c.snd_max,
         d.snd_wnd = RcvWnd
  PROVE  Flow(d)
<1> SUFFICES ASSUME Roomy(d.written) PROVE InOrder(d) /\ InWindow(d) /\ Armed(d)
  BY DEF Flow
<1>1. d.iss = c.iss /\ d.end = c.end /\ d.send_fin = c.send_fin
      /\ d.snd_fin_seq = c.snd_fin_seq /\ d.closeCalled = c.closeCalled
      /\ d.written = c.written
  BY DEF Base
<1>2. InOrder(c)
  BY <1>1 DEF Flow
<1>3. Una(d) = Maxi(c) /\ Nxt(d) = Maxi(c) /\ Maxi(d) = Maxi(c) /\ End(d) = End(c)
  BY <1>1 DEF Una, Nxt, Maxi, End
<1>4. Maxi(c) = 1
  BY Fields, FirstNumbers DEF Maxi
<1>5. InOrder(d)
  BY <1>1, <1>2, <1>3, <1>4 DEF InOrder
<1>6. InWindow(d)
  BY <1>3, <1>4, ConnectionAssumption DEF InWindow
<1>7. Armed(d)
  BY <1>3, <1>4 DEF Armed
<1> QED BY <1>5, <1>6, <1>7

\* The SYN that processSegmentInSynSent() accepts: the peer has acknowledged our SYN, or both
\* ends open at the same time.
LEMMA SynInSynSentReady ==
  ASSUME NEW c, Sound(c), c.state = "SYN_SENT", NEW s \in Segment,
         "ACK" \in s.flags => ~ seqLE(s.ack, c.iss) /\ ~ seqGreater(s.ack, c.snd_nxt)
  PROVE  Ready(processSynInSynSent(c, s)) /\ processSynInSynSent(c, s).written = c.written
<1> DEFINE v == SeqAdd(s.seq, 1)
           y == [c EXCEPT !.rcv_nxt = v]
           a == [y EXCEPT !.rcvQueue = rcvInit(c.rcvQueue, v)]
           u == [a EXCEPT !.snd_una = s.ack]
           w == discardUpTo(u, s.ack)
           b1 == [w EXCEPT !.snd_wnd = RcvWnd]
           b2 == [b1 EXCEPT !.snd_wl1 = s.seq]
           b == [b2 EXCEPT !.snd_wl2 = s.ack]
           o == IF "ACK" \in s.flags THEN b ELSE a
           e == established(b, TRUE)
           p == sendEstabIndicationToApp(e)
           z == [p EXCEPT !.event = "RCV_SYN_ACK"]
           k == sendSynAck(a)
           f == startSynRexmitTimer(k)
           g == [f EXCEPT !.event = "RCV_SYN"]
           d == processSynInSynSent(c, s)
           next == nextState(d.state, d.event, d.active)
<1>0. /\ s.seq \in SeqNo /\ s.ack \in SeqNo /\ RcvWnd \in Nat /\ "RCV_SYN" \in Events
      /\ "RCV_SYN_ACK" \in Events /\ "SYN_RCVD" \in States /\ "ESTABLISHED" \in States
      /\ TRUE \in BOOLEAN
  BY ConnectionAssumption DEF Segment, Events, States
<1>1. /\ c \in Conn /\ Flow(c) /\ c.rexmitTimer = "idle" /\ c.active
      /\ c.snd_una = c.iss /\ c.snd_nxt = SeqAdd(c.iss, 1) /\ c.snd_max = SeqAdd(c.iss, 1)
      /\ c.iss \in SeqNo
  BY Fields DEF Sound, Suits, Handshaking
<1>2. v \in SeqNo
  BY Zenon, <1>0, Numbers
<1> HIDE DEF v
<1>3. Keeps(c, a)
  <2>1. Keeps(c, y)
    BY <1>1, <1>2, ReceiverFields
  <2> HIDE DEF y
  <2>2. y \in Conn
    BY <1>1, <2>1, KeepsSteps
  <2>3. c.rcvQueue \in RcvQueue /\ 0 \in Nat
    BY <1>1, Fields
  <2>4. rcvInit(c.rcvQueue, v) \in RcvQueue
    BY <1>2, <2>3, QueueTyped
  <2>5. Keeps(y, a)
    BY <2>2, <2>4, ReceiverFields
  <2> HIDE DEF a
  <2> QED BY <1>1, <2>1, <2>5, KeepsSteps
<1> HIDE DEF a
<1>4. /\ a \in Conn /\ Flow(a) /\ a.rexmitTimer = "idle" /\ a.active = c.active
      /\ a.iss = c.iss /\ a.snd_una = c.iss /\ a.snd_nxt = SeqAdd(c.iss, 1)
      /\ a.snd_max = SeqAdd(c.iss, 1)
      /\ a.state = "SYN_SENT" /\ a.written = c.written
  BY Zenon, <1>1, <1>3, KeepsFlow DEF Keeps, Core
<1>5. CASE "ACK" \in s.flags
  <2>1. s.ack = SeqAdd(c.iss, 1) /\ seqGreater(s.ack, c.iss)
    BY <1>0, <1>1, <1>5, SynAcked
  <2>2. /\ u \in Conn /\ Base(u) = Base(a) /\ u.snd_una = s.ack /\ u.snd_nxt = a.snd_nxt
        /\ u.snd_max = a.snd_max
    <3>1. u \in Conn
      BY Zenon, <1>0, <1>4, Updates
    <3> QED BY <1>4, <3>1 DEF Conn, Base
  <2> HIDE DEF u
  <2>3. Keeps(u, w)
    BY <1>0, <2>2, DiscardKeeps
  <2> HIDE DEF w
  <2>4. /\ w \in Conn /\ Base(w) = Base(a) /\ w.snd_una = s.ack /\ w.snd_nxt = a.snd_nxt
        /\ w.snd_max = a.snd_max
    BY <2>2, <2>3 DEF Keeps, Core, Base
  <2>5. /\ b \in Conn /\ Base(b) = Base(w) /\ b.snd_una = w.snd_una /\ b.snd_nxt = w.snd_nxt
        /\ b.snd_max = w.snd_max /\ b.snd_wnd = RcvWnd
    <3>1. b1 \in Conn
      BY Zenon, <1>0, <2>4, Updates
    <3>2. b2 \in Conn
      <4> HIDE DEF b1
      <4> QED BY Zenon, <1>0, <3>1, Updates
    <3>3. b \in Conn
      <4> HIDE DEF b2
      <4> QED BY Zenon, <1>0, <3>2, Updates
    <3> QED BY <2>4, <3>3 DEF Conn, Base
  <2> HIDE DEF b
  <2>6. Flow(b)
    BY <1>4, <2>1, <2>4, <2>5, SynAckFlow
  <2>7. /\ b.state = "SYN_SENT" /\ b.written = c.written /\ b.iss = c.iss
        /\ b.active = c.active /\ b.snd_una = s.ack
    BY <1>4, <2>4, <2>5 DEF Base
  <2>8. Goes(b, e)
    BY Zenon, <1>0, <2>5, EstablishedGoes
  <2> HIDE DEF e
  <2>9. Handles(b, e) /\ e \in Conn
    BY <2>5, <2>8, HandlesSteps
  <2>10. KeepsButSock(e, p)
    BY <2>9, IndicationsKeep
  <2> HIDE DEF p
  <2>11. Handles(e, p) /\ p \in Conn
    BY <2>9, <2>10, HandlesSteps
  <2>12. Receives(p, z) /\ z.event = "RCV_SYN_ACK"
    BY <1>0, <2>11, ReceivesSteps
  <2> HIDE DEF z
  <2>13. Handles(b, z)
    BY <2>5, <2>9, <2>11, <2>12, HandlesSteps
  <2>14. d = z
    <3>1. seqGreater(b.snd_una, b.iss)
      BY <2>1, <2>7
    <3>2. o = b
      BY <1>5
    <3>3. d = IF seqGreater(o.snd_una, o.iss)
              THEN [sendEstabIndicationToApp(established(o, TRUE)) EXCEPT !.event = "RCV_SYN_ACK"]
              ELSE [startSynRexmitTimer(sendSynAck(o)) EXCEPT !.event = "RCV_SYN"]
      BY Zenon DEF processSynInSynSent, v, y, a, u, w, b1, b2, b
    <3> HIDE DEF o, d
    <3> QED BY <3>1, <3>2, <3>3 DEF e, p, z
  <2> HIDE DEF d
  <2>15. /\ d \in Conn /\ Flow(d) /\ d.state = "SYN_SENT" /\ d.written = c.written
         /\ d.event = "RCV_SYN_ACK"
    BY <2>6, <2>7, <2>12, <2>13, <2>14 DEF Handles, Base
  <2>16. next = "ESTABLISHED"
    <3>1. /\ next # d.state => Switch(d.state, d.event, d.active, next)
          /\ next = d.state => \A n \in States : ~ Switch(d.state, d.event, d.active, n)
      BY <2>15, Moved
    <3> HIDE DEF next
    <3> QED BY Zenon, <1>0, <2>15, <3>1 DEF Switch, SynchronizedStates
  <2>17. Suits(d, next)
    <3> HIDE DEF next
    <3> QED BY <2>16 DEF Suits, Handshaking
  <2> QED BY <2>15, <2>17 DEF Ready, d
<1>6. CASE "ACK" \notin s.flags
  <2>1. SynSent(a, k)
    BY <1>4, SendSynSends
  <2> HIDE DEF k
  <2>2. Keeps(a, k)
    BY <1>4, <2>1, SynAgain
  <2>3. Keeps(k, f)
    BY <1>4, <2>2, TimersKeep, KeepsSteps
  <2> HIDE DEF f
  <2>4. Keeps(c, f)
    BY <1>1, <1>3, <1>4, <2>2, <2>3, KeepsSteps
  <2>5. g \in Conn /\ Receives(c, g) /\ g.event = "RCV_SYN"
    BY <1>0, <1>1, <2>4, KeepsThenEvent
  <2> HIDE DEF g
  <2>6. d = g
    <3>1. ~ seqGreater(a.snd_una, a.iss)
      BY <1>4 DEF seqGreater
    <3> QED BY Zenon, <1>6, <3>1 DEF processSynInSynSent, v, y, a, k, f, g
  <2> HIDE DEF d
  <2>7. /\ d \in Conn /\ d.state = "SYN_SENT" /\ d.written = c.written /\ d.active
        /\ d.event = "RCV_SYN" /\ d.rexmitTimer = "idle" /\ d.snd_una = d.iss
        /\ d.snd_nxt = SeqAdd(d.iss, 1) /\ d.snd_max = SeqAdd(d.iss, 1)
    BY Zenon, <1>1, <2>5, <2>6 DEF Receives, Core
  <2>8. Flow(d)
    BY Zenon, <1>1, <2>5, <2>6, HandlesSteps DEF Handles
  <2>9. next = "SYN_RCVD"
    <3>1. /\ next # d.state => Switch(d.state, d.event, d.active, next)
          /\ next = d.state => \A n \in States : ~ Switch(d.state, d.event, d.active, n)
      BY Zenon, <2>7, Moved
    <3> HIDE DEF next
    <3> QED BY <1>0, <2>7, <3>1 DEF Switch, SynchronizedStates
  <2>10. Suits(d, next)
    <3> HIDE DEF next
    <3> QED BY <2>7, <2>9 DEF Suits, Handshaking
  <2> QED BY Zenon, <2>7, <2>8, <2>10 DEF Ready, d
<1> QED BY <1>5, <1>6

\* A segment in SYN_SENT.
LEMMA InSynSentReady ==
  ASSUME NEW c, Sound(c), c.state = "SYN_SENT", NEW s \in Segment
  PROVE  /\ Ready(processSegmentInSynSent(c, s))
         /\ processSegmentInSynSent(c, s).written = c.written
<1> DEFINE bad == "ACK" \in s.flags /\ (seqLE(s.ack, c.iss) \/ seqGreater(s.ack, c.snd_nxt))
           r == sendRst(c, s.ack)
           a == indicateFailure(c)
           f == [a EXCEPT !.event = "RCV_RST"]
           y == processSynInSynSent(c, s)
           next == nextState(f.state, f.event, f.active)
<1>0. s.ack \in SeqNo /\ "RCV_RST" \in Events /\ "CLOSED" \in States
  BY DEF Segment, Events, States
<1>1. c \in Conn
  BY DEF Sound
<1>2. Ready(c) /\ Ready(r) /\ r.written = c.written
  <2>1. Keeps(c, c) /\ Keeps(c, r)
    BY <1>0, <1>1, SendKeeps, KeepsSteps
  <2> HIDE DEF r
  <2> QED BY <2>1, KeepsReady
<1>3. Ready(f) /\ f.written = c.written
  <2>1. KeepsButSock(c, a) /\ Told(a)
    BY <1>1, IndicationsKeep
  <2> HIDE DEF a
  <2>2. Receives(c, a) /\ a \in Conn
    BY <1>1, <2>1, ReceivesSteps
  <2>3. Receives(a, f) /\ f.event = "RCV_RST" /\ Told(f)
    BY <1>0, <2>1, <2>2, ReceivesSteps
  <2> HIDE DEF f
  <2>4. f \in Conn /\ f.state = "SYN_SENT" /\ f.written = c.written
    BY <2>2, <2>3 DEF Receives, Core
  <2>5. next = "CLOSED"
    <3>1. /\ next # f.state => Switch(f.state, f.event, f.active, next)
          /\ next = f.state => \A n \in States : ~ Switch(f.state, f.event, f.active, n)
      BY <2>4, Moved
    <3> HIDE DEF next
    <3> QED BY <1>0, <2>3, <2>4, <3>1 DEF Switch, SynchronizedStates
  <2>6. Suits(f, next)
    <3> HIDE DEF next
    <3> QED BY <2>3, <2>5 DEF Suits, Handshaking
  <2> QED BY <2>4, <2>5, <2>6 DEF Ready
<1>4. ~ bad => Ready(y) /\ y.written = c.written
  BY SynInSynSentReady
<1> HIDE DEF y, r, f
<1>5. \/ processSegmentInSynSent(c, s) \in {c, r, f}
      \/ ~ bad /\ processSegmentInSynSent(c, s) = y
  BY Zenon DEF processSegmentInSynSent, bad, r, a, f, y
<1> QED BY <1>2, <1>3, <1>4, <1>5

\* The invariant after a step, from what the step leaves at each end.
LEMMA AfterStep ==
  ASSUME conn' \in [Ends -> Conn], net' \in [Ends -> Seq(Segment)], budget' \in Budget,
         \A x \in Ends : Sound(conn'[x]) /\ conn'[x].written <= MaxWritten[x]
  PROVE  SenderInv'
BY Zenon DEF SenderInv, Sound, Flow, Suits, InOrder, InWindow, Armed, Una, Nxt, Maxi, End, Told

(***************************************************************************)
(* The invariant.                                                          *)
(***************************************************************************)
\* The end of a handler.
LEMMA FinishSound ==
  ASSUME SenderInv, NEW e \in Ends, NEW d, Ready(d), d.written <= MaxWritten[e],
         NEW inbound \in Seq(Segment), Finish(e, d, inbound), budget' \in Budget
  PROVE  SenderInv'
<1> DEFINE f == performStateTransition(d)
           r == [f EXCEPT !.out = <<>>]
<1>1. Sound(r) /\ r.written = d.written /\ f.out \in Seq(Segment)
  BY TransitionSound
<1>2. /\ conn' = [conn EXCEPT ![e] = r]
      /\ net' = [net EXCEPT ![e] = inbound, ![Peer(e)] = @ \o f.out]
  BY DEF Finish
<1> HIDE DEF r, f
<1>3. Peer(e) \in Ends /\ Peer(e) # e
  BY DEF Ends, Peer
<1>4. conn \in [Ends -> Conn] /\ net \in [Ends -> Seq(Segment)]
  BY DEF SenderInv
<1>5. conn' \in [Ends -> Conn] /\ \A x \in Ends : conn'[x] = IF x = e THEN r ELSE conn[x]
  <2>1. r \in Conn
    BY <1>1 DEF Sound
  <2> QED BY <1>2, <1>4, <2>1
<1>6. net' \in [Ends -> Seq(Segment)]
  <2>1. net[Peer(e)] \o f.out \in Seq(Segment)
    <3>1. net[Peer(e)] \in Seq(Segment)
      BY <1>3, <1>4
    <3> QED BY <1>1, <3>1
  <2> DEFINE q == net[Peer(e)] \o f.out
             S == Seq(Segment)
  <2>2. net' = [x \in Ends |-> IF x = Peer(e) THEN q ELSE IF x = e THEN inbound ELSE net[x]]
    <3>1. net' = [net EXCEPT ![e] = inbound, ![Peer(e)] = q]
      BY <1>2, <1>3
    <3> HIDE DEF q
    <3> QED BY Zenon, <1>3, <1>4, <3>1
  <2>3. q \in S /\ inbound \in S /\ net \in [Ends -> S]
    BY <1>4, <2>1
  <2> HIDE DEF q, S
  <2>4. net' \in [Ends -> S]
    BY <2>2, <2>3
  <2> QED BY <2>4 DEF S
<1>7. \A x \in Ends : Sound(conn'[x]) /\ conn'[x].written <= MaxWritten[x]
  BY Zenon, <1>1, <1>5 DEF SenderInv
<1> QED BY Zenon, <1>5, <1>6, <1>7, AfterStep

\* The segments under way.
LEMMA UnderWay ==
  ASSUME SenderInv, NEW e \in Ends
  PROVE  /\ net[e] \in Seq(Segment)
         /\ \A i \in 1 .. Len(net[e]) :
              /\ net[e][i] \in Segment
              /\ Without(net[e], i) \in Seq(Segment)
              /\ Append(net[e], net[e][i]) \in Seq(Segment)
<1> DEFINE q == net[e]
<1>1. q \in Seq(Segment)
  BY DEF SenderInv
<1> HIDE DEF q
<1>2. ASSUME NEW i \in 1 .. Len(q)
      PROVE  q[i] \in Segment /\ Without(q, i) \in Seq(Segment) /\ Append(q, q[i]) \in Seq(Segment)
  <2>1. q[i] \in Segment /\ Len(q) \in Nat
    BY <1>1
  <2>2. Append(q, q[i]) \in Seq(Segment)
    BY <1>1, <2>1
  <2>3. SubSeq(q, 1, i - 1) \in Seq(Segment) /\ SubSeq(q, i + 1, Len(q)) \in Seq(Segment)
    <3>1. \A j \in 1 .. i - 1 : q[j] \in Segment
      BY <1>1, <2>1
    <3>2. \A j \in i + 1 .. Len(q) : q[j] \in Segment
      BY <1>1, <2>1
    <3> QED BY <1>1, <2>1, <3>1, <3>2
  <2>4. Without(q, i) \in Seq(Segment)
    BY <2>3 DEF Without
  <2> QED BY <2>1, <2>2, <2>4
<1> QED BY <1>1, <1>2 DEF q

\* The timers may use up the budget.
LEMMA ExpireTyped ==
  ASSUME SenderInv, Expire
  PROVE  budget' \in Budget
BY DEF SenderInv, Expire, Budget

\* Both connections are new and the network is empty at the start.
LEMMA InitSender == Init => SenderInv
<1> SUFFICES ASSUME Init PROVE SenderInv
  OBVIOUS
<1>1. NewConn \in Conn
  BY NewConnTyped
<1>2. /\ NewConn.event = "IGNORE" /\ NewConn.out = <<>> /\ NewConn.state = "INIT"
      /\ NewConn.sock = "NOT_BOUND" /\ NewConn.active = FALSE /\ NewConn.closeCalled = FALSE
      /\ NewConn.rexmitTimer = "idle" /\ NewConn.iss = 0 /\ NewConn.snd_una = 0
      /\ NewConn.snd_nxt = 0 /\ NewConn.snd_max = 0 /\ NewConn.end = 0
      /\ NewConn.snd_wnd = 0 /\ NewConn.send_fin = FALSE /\ NewConn.written = 0
  BY Zenon DEF NewConn
<1>3. Flow(NewConn)
  BY <1>1, <1>2, ZeroFlow
<1>4. Suits(NewConn, "INIT")
  BY <1>2 DEF Suits, Handshaking
<1>5. Sound(NewConn)
  BY <1>1, <1>2, <1>3, <1>4 DEF Sound
<1>6. conn \in [Ends -> Conn] /\ \A e \in Ends : conn[e] = NewConn
  BY <1>1 DEF Init
<1>7. \A e \in Ends : Sound(conn[e]) /\ conn[e].written <= MaxWritten[e]
  BY <1>2, <1>5, <1>6, PairAssumption
<1>8. net \in [Ends -> Seq(Segment)]
  <2>1. <<>> \in Seq(Segment)
    OBVIOUS
  <2> QED BY <2>1 DEF Init
<1>9. budget \in Budget
  BY PairAssumption DEF Init
<1> QED BY <1>6, <1>7, <1>8, <1>9 DEF SenderInv

\* One step per action.
LEMMA NextSender ==
  ASSUME MergeTyped, SenderInv, [Next]_vars
  PROVE  SenderInv'
<1>0. /\ budget \in Budget
      /\ \A e \in Ends : /\ Sound(conn[e]) /\ conn[e] \in Conn /\ conn[e].written <= MaxWritten[e]
                         /\ net[e] \in Seq(Segment)
  BY UnderWay DEF SenderInv
<1>a. conn \in [Ends -> Conn] /\ net \in [Ends -> Seq(Segment)]
  BY DEF SenderInv
<1>1. CASE UNCHANGED vars
  <2>1. conn' = conn /\ net' = net /\ budget' = budget
    BY <1>1 DEF vars
  <2> QED BY Zenon, <1>0, <1>a, <2>1, AfterStep
<1>2. ASSUME NEW e \in Ends, OpenActive(e) PROVE SenderInv'
  <2>1. PICK iss \in InitialSeqNums : Finish(e, process_OPEN_ACTIVE(conn[e], iss), net[e])
    BY Zenon, <1>2 DEF OpenActive
  <2>2. conn[e].state = "INIT" /\ budget' \in Budget /\ iss \in SeqNo
    BY Zenon, <1>0, <1>2, PairAssumption DEF OpenActive
  <2>3. /\ Ready(process_OPEN_ACTIVE(conn[e], iss))
        /\ process_OPEN_ACTIVE(conn[e], iss).written = conn[e].written
    BY <1>0, <2>2, OpenActiveReady
  <2> QED BY Zenon, <1>0, <2>1, <2>2, <2>3, FinishSound
<1>3. ASSUME NEW e \in Ends, OpenPassive(e) PROVE SenderInv'
  <2>1. /\ Finish(e, process_OPEN_PASSIVE(conn[e]), net[e])
        /\ conn[e].state = "INIT" /\ budget' \in Budget
    BY <1>0, <1>3 DEF OpenPassive
  <2>2. /\ Ready(process_OPEN_PASSIVE(conn[e]))
        /\ process_OPEN_PASSIVE(conn[e]).written = conn[e].written
    BY <1>0, <2>1, OpenPassiveReady
  <2> QED BY <1>0, <2>1, <2>2, FinishSound
<1>4. ASSUME NEW e \in Ends, Send(e) PROVE SenderInv'
  <2>1. PICK n \in WriteSizes, iss \in InitialSeqNums :
          /\ conn[e].written + n <= MaxWritten[e]
          /\ Finish(e, process_SEND(conn[e], n, iss), net[e])
    BY <1>4 DEF Send
  <2>2. /\ conn[e].sock \in {"CONNECTED", "CONNECTING", "PEER_CLOSED"} \/ conn[e].state = "LISTEN"
        /\ ~ conn[e].closeCalled /\ budget' \in Budget
    BY <1>0, <1>4 DEF Send
  <2>3. n \in Nat /\ iss \in SeqNo
    BY PairAssumption
  <2>4. /\ Ready(process_SEND(conn[e], n, iss))
        /\ process_SEND(conn[e], n, iss).written \in {conn[e].written, conn[e].written + n}
    BY <1>0, <2>2, <2>3, SendReady
  <2>5. process_SEND(conn[e], n, iss).written <= MaxWritten[e]
    BY <1>0, <2>1, <2>4
  <2> QED BY <1>0, <2>1, <2>2, <2>4, <2>5, FinishSound
<1>5. ASSUME NEW e \in Ends, Close(e) PROVE SenderInv'
  <2>1. /\ conn[e].sock \in {"CONNECTED", "PEER_CLOSED", "CONNECTING", "LISTENING"}
        /\ ~ conn[e].closeCalled /\ budget' \in Budget
        /\ Finish(e, process_CLOSE(conn[e]), net[e])
    BY <1>0, <1>5 DEF Close
  <2>2. Ready(process_CLOSE(conn[e])) /\ process_CLOSE(conn[e]).written = conn[e].written
    BY <1>0, <2>1, CloseReady
  <2> QED BY <1>0, <2>1, <2>2, FinishSound
<1>6. ASSUME NEW e \in Ends, Abort(e) PROVE SenderInv'
  <2>1. /\ conn[e].sock \notin {"NOT_BOUND", "CLOSED", "SOCKERROR"} /\ budget' \in Budget
        /\ Finish(e, process_ABORT(conn[e]), net[e])
    BY <1>0, <1>6 DEF Abort
  <2>2. Ready(process_ABORT(conn[e])) /\ process_ABORT(conn[e]).written = conn[e].written
    BY <1>0, <2>1, AbortReady
  <2> QED BY <1>0, <2>1, <2>2, FinishSound
<1>7. ASSUME NEW e \in Ends, NEW i \in 1 .. Len(net[e]), NEW d, Arrives(e, i, d),
             Ready(d), d.written = conn[e].written
      PROVE  SenderInv'
  <2>1. Finish(e, d, Without(net[e], i)) /\ budget' \in Budget
    BY <1>0, <1>7 DEF Arrives
  <2>2. Without(net[e], i) \in Seq(Segment)
    BY UnderWay
  <2>3. d.written <= MaxWritten[e]
    BY <1>0, <1>7
  <2> QED BY <1>7, <2>1, <2>2, <2>3, FinishSound
<1>8. ASSUME NEW e \in Ends, NEW i \in 1 .. Len(net[e]) PROVE net[e][i] \in Segment
  BY UnderWay
<1>9. ASSUME NEW e \in Ends, SegmentWhileClosed(e) PROVE SenderInv'
  <2>1. PICK i \in 1 .. Len(net[e]) : Arrives(e, i, segmentArrivalWhileClosed(conn[e], net[e][i]))
    BY <1>9 DEF SegmentWhileClosed
  <2>2. /\ Ready(segmentArrivalWhileClosed(conn[e], net[e][i]))
        /\ segmentArrivalWhileClosed(conn[e], net[e][i]).written = conn[e].written
    BY <1>0, <1>8, AnswersReady
  <2> QED BY <1>7, <2>1, <2>2
<1>10. ASSUME NEW e \in Ends, SegmentInListen(e) PROVE SenderInv'
  <2>1. PICK i \in 1 .. Len(net[e]), iss \in InitialSeqNums :
          Arrives(e, i, processSegmentInListen(conn[e], net[e][i], iss))
    BY <1>10 DEF SegmentInListen
  <2>2. conn[e].state = "LISTEN" /\ iss \in SeqNo
    BY <1>10, PairAssumption DEF SegmentInListen
  <2>3. /\ Ready(processSegmentInListen(conn[e], net[e][i], iss))
        /\ processSegmentInListen(conn[e], net[e][i], iss).written = conn[e].written
    BY <1>0, <1>8, <2>2, InListenReady
  <2> QED BY <1>7, <2>1, <2>3
<1>11. ASSUME NEW e \in Ends, SegmentInSynSent(e) PROVE SenderInv'
  <2>1. PICK i \in 1 .. Len(net[e]) : Arrives(e, i, processSegmentInSynSent(conn[e], net[e][i]))
    BY <1>11 DEF SegmentInSynSent
  <2>2. conn[e].state = "SYN_SENT"
    BY <1>11 DEF SegmentInSynSent
  <2>3. /\ Ready(processSegmentInSynSent(conn[e], net[e][i]))
        /\ processSegmentInSynSent(conn[e], net[e][i]).written = conn[e].written
    BY <1>0, <1>8, <2>2, InSynSentReady
  <2> QED BY <1>7, <2>1, <2>3
<1>12. ASSUME NEW e \in Ends, UnacceptableSegment(e) PROVE SenderInv'
  <2>1. PICK i \in 1 .. Len(net[e]) : Arrives(e, i, processUnacceptable(conn[e], net[e][i]))
    BY <1>12 DEF UnacceptableSegment
  <2>2. /\ Ready(processUnacceptable(conn[e], net[e][i]))
        /\ processUnacceptable(conn[e], net[e][i]).written = conn[e].written
    BY <1>0, <1>8, AnswersReady
  <2> QED BY <1>7, <2>1, <2>2
<1>13. ASSUME NEW e \in Ends, RstSegment(e) PROVE SenderInv'
  <2>1. PICK i \in 1 .. Len(net[e]) : Arrives(e, i, processRst(conn[e]))
    BY <1>13 DEF RstSegment
  <2>2. conn[e].state \in OtherStates
    BY <1>13 DEF RstSegment
  <2>3. Ready(processRst(conn[e])) /\ processRst(conn[e]).written = conn[e].written
    BY <1>0, <2>2, RstReady
  <2> QED BY <1>7, <2>1, <2>3
<1>14. ASSUME NEW e \in Ends, UnexpectedSyn(e) PROVE SenderInv'
  <2>1. PICK i \in 1 .. Len(net[e]) : Arrives(e, i, processUnexpectedSyn(conn[e]))
    BY <1>14 DEF UnexpectedSyn
  <2>2. conn[e].state \in OtherStates
    BY <1>14 DEF UnexpectedSyn
  <2>3. /\ Ready(processUnexpectedSyn(conn[e]))
        /\ processUnexpectedSyn(conn[e]).written = conn[e].written
    BY <1>0, <2>2, UnexpectedSynReady
  <2> QED BY <1>7, <2>1, <2>3
<1>15. ASSUME NEW e \in Ends, AckSegment(e) PROVE SenderInv'
  <2>1. PICK i \in 1 .. Len(net[e]) : Arrives(e, i, processAckSegment(conn[e], net[e][i]))
    BY <1>15 DEF AckSegment
  <2>2. conn[e].state \in OtherStates
    BY <1>15 DEF AckSegment
  <2>3. /\ Ready(processAckSegment(conn[e], net[e][i]))
        /\ processAckSegment(conn[e], net[e][i]).written = conn[e].written
    BY <1>0, <1>8, <2>2, AckSegmentReady
  <2> QED BY <1>7, <2>1, <2>3
<1>16. ASSUME NEW e \in Ends, NEW d, Expire, Finish(e, d, net[e]), Ready(d),
              d.written = conn[e].written
       PROVE  SenderInv'
  <2>1. budget' \in Budget /\ d.written <= MaxWritten[e] /\ net[e] \in Seq(Segment)
    BY <1>0, <1>16, ExpireTyped
  <2> QED BY <1>16, <2>1, FinishSound
<1>17. ASSUME NEW e \in Ends, TimeoutConnEstab(e) PROVE SenderInv'
  BY <1>0, <1>16, <1>17, ConnEstabReady DEF TimeoutConnEstab
<1>18. ASSUME NEW e \in Ends, TimeoutSynRexmit(e) PROVE SenderInv'
  BY <1>0, <1>16, <1>18, SynRexmitReady DEF TimeoutSynRexmit
<1>19. ASSUME NEW e \in Ends, Timeout2MSL(e) PROVE SenderInv'
  BY <1>0, <1>16, <1>19, TwoMSLReady DEF Timeout2MSL
<1>20. ASSUME NEW e \in Ends, TimeoutRexmit(e) PROVE SenderInv'
  BY <1>0, <1>16, <1>20, RexmitReady DEF TimeoutRexmit
<1>21. ASSUME NEW e \in Ends, Network(e) PROVE SenderInv'
  <2>1. conn' = conn
    BY <1>21 DEF Network, Lose, Duplicate
  <2>2. PICK q \in Seq(Segment) : net' = [net EXCEPT ![e] = q]
    <3>1. CASE Lose(e)
      BY Zenon, <3>1, UnderWay DEF Lose
    <3>2. CASE Duplicate(e)
      BY Zenon, <3>2, UnderWay DEF Duplicate
    <3> QED BY <1>21, <3>1, <3>2 DEF Network
  <2>3. net' \in [Ends -> Seq(Segment)]
    <3> DEFINE S == Seq(Segment)
    <3>1. net \in [Ends -> S] /\ q \in S
      BY DEF SenderInv
    <3> HIDE DEF S
    <3>2. net' \in [Ends -> S]
      BY <2>2, <3>1
    <3> QED BY <3>2 DEF S
  <2>4. budget' \in Budget
    <3>1. CASE Lose(e)
      BY <1>0, <3>1 DEF Lose, Budget
    <3>2. CASE Duplicate(e)
      BY <1>0, <3>2 DEF Duplicate, Budget
    <3> QED BY <1>21, <3>1, <3>2 DEF Network
  <2> QED BY Zenon, <1>0, <1>a, <2>1, <2>3, <2>4, AfterStep
<1> QED
  BY <1>1, <1>2, <1>3, <1>4, <1>5, <1>6, <1>9, <1>10, <1>11, <1>12, <1>13, <1>14, <1>15,
     <1>17, <1>18, <1>19, <1>20, <1>21
     DEF Next, Application, Receive, Timeout

(***************************************************************************)
(* The regions that merge() leaves.                                        *)
(***************************************************************************)
INSTANCE WellFoundedInduction

\* A region between two parts of a list.
LEMMA JoinTyped ==
  ASSUME NEW list \in Seq(Region), NEW R \in Region, NEW i \in Nat, NEW j \in Nat,
         i <= Len(list), 1 <= j
  PROVE  LET new == SubSeq(list, 1, i) \o <<R>> \o SubSeq(list, j, Len(list))
         IN new \in Seq(Region) /\ new[1] \in Region
<1> DEFINE p == SubSeq(list, 1, i)
           s == SubSeq(list, j, Len(list))
           pr == p \o <<R>>
<1>1. p \in Seq(Region) /\ Len(p) = i
  OBVIOUS
<1>2. s \in Seq(Region)
  OBVIOUS
<1> HIDE DEF p, s
<1>3. pr \in Seq(Region) /\ Len(pr) = i + 1
  BY <1>1
<1> HIDE DEF pr
<1>4. pr \o s \in Seq(Region) /\ Len(pr \o s) = Len(pr) + Len(s) /\ Len(s) \in Nat
  BY <1>2, <1>3
<1>5. 1 \in 1 .. Len(pr \o s)
  BY <1>3, <1>4
<1>6. (pr \o s)[1] \in Region
  BY <1>4, <1>5
<1> QED BY Zenon, <1>4, <1>6 DEF pr, p, s

\* A set of numbers has a least one.
LEMMA LeastNumber ==
    ASSUME NEW T, T \subseteq Nat, T # {}
    PROVE  \E x \in T : \A y \in T : x <= y
<1>0. OpToRel(<, Nat) = {ss \in Nat \X Nat : ss[1] < ss[2]}
    BY Zenon DEF OpToRel
<1>1. PICK x \in T : \A y \in T : ~ (<<y, x>> \in {ss \in Nat \X Nat : ss[1] < ss[2]})
    BY ZenonT(60), <1>0, NatLessThanWellFounded, WFMin
<1>2. ASSUME NEW y \in T PROVE x <= y
    <2>1. x \in Nat /\ y \in Nat
        OBVIOUS
    <2>2. ~ (y < x)
        <3>1. SUFFICES ASSUME y < x
                       PROVE  <<y, x>> \in {ss \in Nat \X Nat : ss[1] < ss[2]}
            BY <1>1
        <3> QED BY <2>1, <3>1
    <2> QED BY <2>1, <2>2
<1> QED BY <1>2

\* A loop over positions stops at one of those where it may, the first of them.
LEMMA Stops ==
  ASSUME NEW a \in Nat, NEW n \in Nat, NEW S \in SUBSET (a .. n), n \in S
  PROVE  /\ firstOf(S) \in S /\ firstOf(S) \in Nat /\ a <= firstOf(S) /\ firstOf(S) <= n
         /\ \A m \in a .. firstOf(S) - 1 : m \notin S
<1>1. S \subseteq Nat /\ S # {} /\ \A k \in S : k \in Nat /\ a <= k /\ k <= n
  OBVIOUS
<1>2. \E k \in S : \A m \in S : k <= m
  BY Zenon, <1>1, LeastNumber
<1>3. firstOf(S) \in S /\ \A m \in S : firstOf(S) <= m
  BY Zenon, <1>2 DEF firstOf
<1>4. firstOf(S) \in Nat /\ a <= firstOf(S) /\ firstOf(S) <= n
  BY Zenon, <1>1, <1>3
<1>5. \A m \in a .. firstOf(S) - 1 : m \notin S
  <2> SUFFICES ASSUME NEW m \in a .. firstOf(S) - 1 PROVE ~ (firstOf(S) <= m)
    BY <1>3
  <2> QED BY <1>4
<1> QED BY <1>3, <1>4, <1>5

\* merge() leaves regions, and at least one.
LEMMA MergeIsTyped ==
  ASSUME NEW list \in Seq(Region), NEW from \in SeqNo, NEW to \in SeqNo
  PROVE  merge(list, from, to) \in Seq(Region) /\ merge(list, from, to)[1] \in Region
<1> DEFINE n == Len(list)
           stops == {k \in 1 .. n + 1 : k <= n => ~ fallsBefore(list[k], from)}
           i == firstOf(stops)
           inReach(m) == \/ seqGE(to, list[m].begin)
                         \/ \E p \in i .. m - 1 : seqGE(list[p].end, list[m].begin)
           ends == {k \in i .. n : k < n => ~ inReach(k + 1)}
           last == IF seqLess(list[i].end, to) THEN firstOf(ends) ELSE i
           R == [begin |-> from, end |-> to]
           Q == [begin |-> EarlierOf(from, list[i].begin),
                 end   |-> LaterOf(list[last].end, to)]
<1>1. n \in Nat /\ n + 1 \in Nat /\ 1 \in Nat
  OBVIOUS
<1>2. i \in Nat /\ 1 <= i /\ i <= n + 1 /\ i - 1 \in Nat /\ i - 1 <= n
  <2>1. stops \in SUBSET (1 .. n + 1) /\ n + 1 \in stops
    BY <1>1
  <2> HIDE DEF stops, n
  <2>2. i \in Nat /\ 1 <= i /\ i <= n + 1
    BY Zenon, <1>1, <2>1, Stops
  <2> HIDE DEF i
  <2> QED BY <1>1, <2>2
<1> HIDE DEF i
<1>4. R \in Region
  BY DEF Region
<1>5. i <= n => last \in Nat /\ i <= last /\ last <= n /\ Q \in Region
  <2> SUFFICES ASSUME i <= n PROVE last \in Nat /\ i <= last /\ last <= n /\ Q \in Region
    OBVIOUS
  <2>1. ends \in SUBSET (i .. n) /\ n \in ends
    BY <1>1, <1>2
  <2>2. last \in Nat /\ i <= last /\ last <= n
    <3> HIDE DEF n, ends
    <3>1. firstOf(ends) \in Nat /\ i <= firstOf(ends) /\ firstOf(ends) <= n
      BY Zenon, <1>1, <1>2, <2>1, Stops
    <3> QED BY <1>1, <1>2, <3>1
  <2>3. list[i] \in Region /\ list[last] \in Region
    <3> HIDE DEF last
    <3> QED BY <1>2, <2>2
  <2>4. Q \in Region
    <3> HIDE DEF last
    <3> QED BY <2>3 DEF Region, EarlierOf, LaterOf
  <2> QED BY <2>2, <2>4
<1> HIDE DEF last, R, Q
<1>6. LET new == SubSeq(list, 1, i - 1) \o <<R>> \o SubSeq(list, i, n)
      IN new \in Seq(Region) /\ new[1] \in Region
  BY Zenon, <1>2, <1>4, JoinTyped
<1>7. i <= n => LET new == SubSeq(list, 1, i - 1) \o <<Q>> \o SubSeq(list, last + 1, n)
                IN new \in Seq(Region) /\ new[1] \in Region
  <2> SUFFICES ASSUME i <= n
               PROVE  LET new == SubSeq(list, 1, i - 1) \o <<Q>> \o SubSeq(list, last + 1, n)
                      IN new \in Seq(Region) /\ new[1] \in Region
    OBVIOUS
  <2>1. last + 1 \in Nat /\ 1 <= last + 1
    BY <1>5
  <2> QED BY <1>2, <1>5, <2>1, JoinTyped
<1>8. i = n + 1 \/ i <= n
  BY <1>1, <1>2
<1>9. merge(list, from, to) =
        IF i = n + 1 \/ seqLess(to, list[i].begin)
        THEN SubSeq(list, 1, i - 1) \o <<R>> \o SubSeq(list, i, n)
        ELSE SubSeq(list, 1, i - 1) \o <<Q>> \o SubSeq(list, last + 1, n)
  BY Zenon DEF merge, i, last, R, Q
<1> QED BY <1>6, <1>7, <1>8, <1>9

\* The invariant of the sender holds of every run: no event of TCPConnection, in any state
\* and whatever the network did to the segments, breaks the order of the send variables, the
\* window, the timer or what the application is told.
THEOREM SenderInvariant == Spec => []SenderInv
<1>1. MergeTyped
  BY MergeIsTyped DEF MergeTyped
<1>2. SenderInv /\ [Next]_vars => SenderInv'
  BY <1>1, NextSender
<1> QED BY <1>2, InitSender, PTL DEF Spec

(***************************************************************************)
(* The properties.                                                         *)
(***************************************************************************)
\* The numbers of what an end writes are within half of the number space.
LEMMA RoomyWritten ==
  ASSUME SenderInv, NEW e \in Ends, Roomy(MaxWritten[e])
  PROVE  /\ conn[e] \in Conn /\ Roomy(conn[e].written)
         /\ InOrder(conn[e]) /\ InWindow(conn[e]) /\ Armed(conn[e])
<1>1. Sound(conn[e]) /\ conn[e] \in Conn /\ conn[e].written <= MaxWritten[e]
  BY DEF SenderInv
<1>2. conn[e].written \in Nat /\ MaxWritten[e] \in Nat /\ SeqMod \in Nat
  BY <1>1, Fields, PairAssumption, SeqModAssumption
<1>3. Roomy(conn[e].written)
  BY <1>1, <1>2 DEF Roomy
<1> QED BY <1>1, <1>3 DEF Sound, Flow

\* The variables of TCPPair keep their types, whatever the network does.
THEOREM PairTypeCorrect == Spec => []TypeOK
<1>1. SenderInv => TypeOK
  BY DEF SenderInv, TypeOK
<1> QED BY <1>1, SenderInvariant, PTL

\* An application whose connection has been deleted knows it, if CONN-ESTAB expires
\* before SYN-REXMIT gives up: the ABORT of process_TIMEOUT_SYN_REXMIT() tells nobody.
THEOREM RemovedMeansToldHolds ==
  ASSUME ConnEstabFirst PROVE Spec => []RemovedMeansTold
<1>1. SenderInv => RemovedMeansTold
  BY DEF SenderInv, Sound, Suits, Told, RemovedMeansTold
<1> QED BY <1>1, SenderInvariant, PTL

\* All ends stay below half of the number space.
NumbersSuffice == \A e \in Ends : Roomy(MaxWritten[e])

\* The sequence variables of the sender are in order, through retransmission, ACKs
\* ahead of snd_nxt and a deferred FIN.
THEOREM SendVariablesOrderedHolds ==
  ASSUME NumbersSuffice PROVE Spec => []SendVariablesOrdered
<1>1. SenderInv => SendVariablesOrdered
  <2> SUFFICES ASSUME SenderInv, NEW e \in Ends
               PROVE  /\ conn[e].send_fin => conn[e].snd_fin_seq = conn[e].end
                      /\ seqLE(conn[e].snd_una, conn[e].snd_nxt)
                      /\ seqLE(conn[e].snd_nxt, conn[e].snd_max)
                      /\ seqLE(conn[e].snd_max,
                               SeqAdd(conn[e].end, IF conn[e].send_fin THEN 1 ELSE 0))
    BY Zenon DEF SendVariablesOrdered
  <2> DEFINE c == conn[e]
             k == IF c.send_fin THEN 1 ELSE 0
             fin == SeqAdd(c.end, k)
  <2>1. c \in Conn /\ Roomy(c.written) /\ InOrder(c)
    BY RoomyWritten DEF NumbersSuffice
  <2> HIDE DEF c
  <2>2. /\ Una(c) < SeqMod \div 2 /\ Nxt(c) < SeqMod \div 2
        /\ Maxi(c) + 1 <= SeqMod \div 2 /\ End(c) + 1 < SeqMod \div 2
        /\ Maxi(c) \in Nat /\ End(c) \in Nat /\ SeqMod \div 2 \in Nat
        /\ SeqMod = 2 * (SeqMod \div 2)
    BY <2>1, Offsets
  <2>3. c.snd_una \in SeqNo /\ c.snd_nxt \in SeqNo /\ c.snd_max \in SeqNo /\ c.end \in SeqNo
        /\ c.iss \in SeqNo
    BY <2>1, Fields
  <2>4. k \in Nat /\ k <= 1
    OBVIOUS
  <2>5. fin \in SeqNo /\ SeqDiff(fin, c.iss) = End(c) + k
    <3> HIDE DEF k
    <3>1. End(c) + k < SeqMod
      BY <2>2, <2>4
    <3> QED BY <2>3, <2>4, <3>1, Farther DEF End
  <2>6. Una(c) <= Nxt(c) /\ Nxt(c) <= Maxi(c) /\ Maxi(c) <= End(c) + k
    BY <2>1 DEF InOrder
  <2>7. c.send_fin => c.snd_fin_seq = c.end
    BY <2>1 DEF InOrder
  <2> HIDE DEF k, fin
  <2>8. Maxi(c) < SeqMod \div 2 /\ End(c) + k < SeqMod \div 2
    BY <2>2, <2>4
  <2>9. seqLE(c.snd_una, c.snd_nxt) /\ seqLE(c.snd_nxt, c.snd_max) /\ seqLE(c.snd_max, fin)
    BY <2>2, <2>3, <2>5, <2>6, <2>8, Compare DEF Una, Nxt, Maxi
  <2> QED BY <2>7, <2>9 DEF c, k, fin
<1> QED BY <1>1, SenderInvariant, PTL

\* sendData() respects the window of the peer.
THEOREM FlightWithinWindowHolds ==
  ASSUME NumbersSuffice PROVE Spec => []FlightWithinWindow
<1>1. SenderInv => FlightWithinWindow
  <2> SUFFICES ASSUME SenderInv, NEW e \in Ends
               PROVE  SeqDiff(conn[e].snd_max, conn[e].snd_una)
                        <= RcvWnd + (IF FinSent(e) THEN 1 ELSE 0)
    BY Zenon DEF FlightWithinWindow
  <2> DEFINE c == conn[e]
  <2>1. c \in Conn /\ Roomy(c.written) /\ InOrder(c) /\ InWindow(c)
    BY RoomyWritten DEF NumbersSuffice
  <2>a. FinSent(e) <=> c.send_fin /\ c.snd_max = SeqAdd(c.snd_fin_seq, 1)
    BY DEF FinSent
  <2> HIDE DEF c
  <2>2. /\ Una(c) \in Nat /\ Maxi(c) \in Nat /\ End(c) \in Nat /\ SeqMod \div 2 \in Nat
        /\ SeqMod = 2 * (SeqMod \div 2) /\ End(c) + 1 < SeqMod \div 2
        /\ Una(c) <= Maxi(c)
    BY SMTT(30), <2>1, Offsets DEF InOrder
  <2>3. c.snd_una \in SeqNo /\ c.snd_max \in SeqNo /\ c.end \in SeqNo /\ c.iss \in SeqNo
        /\ c.send_fin \in BOOLEAN
    BY <2>1, Fields
  <2>4. SeqDiff(c.snd_max, c.snd_una) = Maxi(c) - Una(c)
    BY <2>2, <2>3, Apart DEF Una, Maxi
  <2>5. Maxi(c) > End(c) => FinSent(e)
    <3> SUFFICES ASSUME Maxi(c) > End(c) PROVE FinSent(e)
      OBVIOUS
    <3>1. c.send_fin /\ Maxi(c) = End(c) + 1 /\ c.snd_fin_seq = c.end
      BY SMTT(30), <2>1, <2>2, <2>3 DEF InOrder
    <3>2. 1 \in Nat /\ End(c) + 1 < SeqMod
      BY <2>2
    <3>3. SeqAdd(c.end, 1) \in SeqNo /\ SeqDiff(SeqAdd(c.end, 1), c.iss) = End(c) + 1
      BY <2>3, <3>2, Farther DEF End
    <3>4. c.snd_max = SeqAdd(c.end, 1)
      BY <2>3, <3>1, <3>3, SameDistance DEF Maxi
    <3> QED BY <2>a, <3>1, <3>4
  <2>6. SeqDiff(c.snd_max, c.snd_una) <= RcvWnd + (IF FinSent(e) THEN 1 ELSE 0)
    BY <2>1, <2>2, <2>4, <2>5, ConnectionAssumption DEF InWindow
  <2> QED BY <2>6 DEF c
<1> QED BY <1>1, SenderInvariant, PTL

\* Octets that are under way are covered by the REXMIT timer.
THEOREM RexmitArmedHolds ==
  ASSUME NumbersSuffice PROVE Spec => []RexmitArmed
<1>1. SenderInv => RexmitArmed
  <2> SUFFICES ASSUME SenderInv, NEW e \in Ends, DataOutstanding(conn[e])
               PROVE  conn[e].rexmitTimer = "scheduled"
    BY Zenon DEF RexmitArmed
  <2> DEFINE c == conn[e]
  <2>1. c \in Conn /\ Roomy(c.written) /\ InOrder(c) /\ Armed(c)
    BY RoomyWritten DEF NumbersSuffice
  <2>2. seqLess(c.iss, c.snd_una) /\ seqLess(c.snd_una, c.snd_max) /\ seqLess(c.snd_una, c.end)
    BY DEF DataOutstanding
  <2> HIDE DEF c
  <2>3. /\ Una(c) \in Nat /\ Maxi(c) \in Nat /\ End(c) \in Nat /\ SeqMod \div 2 \in Nat
        /\ Una(c) < SeqMod \div 2 /\ Maxi(c) + 1 <= SeqMod \div 2 /\ End(c) + 1 < SeqMod \div 2
    BY <2>1, Offsets
  <2>4. c.snd_una \in SeqNo /\ c.snd_max \in SeqNo /\ c.end \in SeqNo /\ c.iss \in SeqNo
    BY <2>1, Fields
  <2>5. Maxi(c) < SeqMod \div 2 /\ End(c) < SeqMod \div 2
    BY <2>3
  <2>6. SeqDiff(c.iss, c.iss) = 0 /\ 0 < SeqMod \div 2
    BY <2>3, <2>4, FirstNumbers
  <2>7. 0 < Una(c) /\ Una(c) < Maxi(c) /\ Una(c) < End(c)
    BY <2>2, <2>3, <2>4, <2>5, <2>6, Compare DEF Una, Maxi, End
  <2>8. c.rexmitTimer = "scheduled"
    BY <2>1, <2>3, <2>7 DEF Armed
  <2> QED BY <2>8 DEF c
<1> QED BY <1>1, SenderInvariant, PTL
=============================================================================
