---------------------------- MODULE TCPConnState ----------------------------
(***************************************************************************)
(* One TCPConnection object with its state variables (TCPStateVariables    *)
(* and the flavour's), its send and receive queue, its timers, and the     *)
(* TCPSocket of the application on top.  A connection is a record; every   *)
(* method is an operator that maps the record before the call to the one   *)
(* after it.  Three fields are working storage of a handler: out (segments *)
(* handed to IP), event (the code later given to performStateTransition)   *)
(* and err (the assertion or opp_error() that stops the simulation).       *)
(***************************************************************************)
EXTENDS TCPFsm, TCPRcvQueue

CONSTANTS MSS,                  \* snd_mss, the "mss" parameter
          RcvWnd,               \* rcv_wnd, the "advertisedWindow" parameter
          Alg,                  \* tcpAlgorithmClass
          MaxRexmitCount,       \* MAX_REXMIT_COUNT
          MaxSynRexmitCount     \* MAX_SYN_REXMIT_COUNT

Algorithms == {"TCPReno", "TCPTahoe", "TCPNoCongestionControl", "DumbTCP"}

ASSUME ConnectionAssumption ==
  /\ MSS \in Nat \ {0}
  /\ RcvWnd \in Nat \ {0}
  /\ Alg \in Algorithms
  /\ MaxRexmitCount \in Nat
  /\ MaxSynRexmitCount \in Nat

Flags == {"SYN", "ACK", "FIN", "RST"}

\* The window field is left out: it is rcv_wnd in every segment but a RST, and
\* rcv_wnd never changes.
Segment == [seq : SeqNo, ack : SeqNo, len : Nat, flags : SUBSET Flags]

Segments == Seq(Segment)

\* "NULL" is a timer message that has been deleted.
TimerState == {"idle", "scheduled", "NULL"}

SockStates == {"NOT_BOUND", "LISTENING", "CONNECTING", "CONNECTED",
               "PEER_CLOSED", "LOCALLY_CLOSED", "CLOSED", "SOCKERROR"}

\* What may stop the simulation: the ASSERT and opp_error() calls of the methods.
Errors == {"none", "CONN-ESTAB scheduled twice", "2MSL scheduled twice",
           "REXMIT scheduled twice", "SYN-REXMIT deleted", "foreign socket unspecified",
           "discardUpTo", "createSegmentWithBytes", "retransmitOneSegment",
           "retransmitData", "retransmitData loops", "REXMIT without connection",
           "stateEntered", "SEND: connection not open or closing",
           "duplicate CLOSE or connection not open", "ABORT: connection not open",
           "CONN_ESTAB timeout", "2MSL timeout", "SYN-REXMIT timeout",
           "processAckInEstabEtc", "extractTo"}

Conn == [state : States, active : BOOLEAN,
         remote : BOOLEAN,                            \* the foreign socket is known
         iss : SeqNo, snd_una : SeqNo, snd_nxt : SeqNo, snd_max : SeqNo,
         snd_wnd : Nat, snd_wl1 : SeqNo, snd_wl2 : SeqNo, rcv_nxt : SeqNo,
         dupacks : Nat, syn_rexmit_count : Nat,
         fin_ack_rcvd : BOOLEAN, send_fin : BOOLEAN, snd_fin_seq : SeqNo,
         fin_rcvd : BOOLEAN, rcv_fin_seq : SeqNo,
         begin : SeqNo, end : SeqNo,                  \* the send queue
         rcvQueue : RcvQueue,
         snd_cwnd : Nat, ssthresh : Nat, rexmit_count : Nat,
         connEstabTimer : TimerState, synRexmitTimer : TimerState,
         the2MSLTimer : TimerState, rexmitTimer : TimerState,
         sock : SockStates, closeCalled : BOOLEAN,    \* the application's side
         written : Nat, delivered : Nat, peerClosedInds : Nat, closedInds : Nat,
         out : Segments, event : Events, err : Errors]

NewConn ==
  [state |-> "INIT", active |-> FALSE, remote |-> FALSE,
   iss |-> 0, snd_una |-> 0, snd_nxt |-> 0, snd_max |-> 0,
   snd_wnd |-> 0, snd_wl1 |-> 0, snd_wl2 |-> 0, rcv_nxt |-> 0,
   dupacks |-> 0, syn_rexmit_count |-> 0,
   fin_ack_rcvd |-> FALSE, send_fin |-> FALSE, snd_fin_seq |-> 0,
   fin_rcvd |-> FALSE, rcv_fin_seq |-> 0,
   begin |-> 0, end |-> 0,
   rcvQueue |-> [rcv_nxt |-> 0, regionList |-> <<>>],
   snd_cwnd |-> 0, ssthresh |-> RcvWnd, rexmit_count |-> 0,
   connEstabTimer |-> "idle", synRexmitTimer |-> "idle",
   the2MSLTimer |-> "idle", rexmitTimer |-> "idle",
   sock |-> "NOT_BOUND", closeCalled |-> FALSE,
   written |-> 0, delivered |-> 0, peerClosedInds |-> 0, closedInds |-> 0,
   out |-> <<>>, event |-> "IGNORE", err |-> "none"]

----
Lesser(a, b) == IF a <= b THEN a ELSE b

Greater(a, b) == IF a <= b THEN b ELSE a

\* ASSERT(cond) and opp_error(): the first one that fails stops the simulation.
Assert(c, cond, what) ==
  IF cond \/ c.err # "none" THEN c ELSE [c EXCEPT !.err = what]

sendToIP(c, seg) == [c EXCEPT !.out = Append(@, seg)]

Seg(seq, ack, flags) == [seq |-> seq, ack |-> ack, len |-> 0, flags |-> flags]

\* Mutant: the call is missing.
noTimerCall(c) == c

\* scheduleAt() refuses a message that is already scheduled.
scheduleConnEstab(c) ==
  [Assert(c, c.connEstabTimer = "idle", "CONN-ESTAB scheduled twice")
     EXCEPT !.connEstabTimer = "scheduled"]

schedule2MSL(c) ==
  [Assert(c, c.the2MSLTimer = "idle", "2MSL scheduled twice")
     EXCEPT !.the2MSLTimer = "scheduled"]

scheduleRexmit(c) ==
  [Assert(c, c.rexmitTimer = "idle", "REXMIT scheduled twice")
     EXCEPT !.rexmitTimer = "scheduled"]

cancelRexmit(c) == [c EXCEPT !.rexmitTimer = "idle"]

startSynRexmitTimer(c) ==
  [Assert(c, c.synRexmitTimer # "NULL", "SYN-REXMIT deleted")
     EXCEPT !.syn_rexmit_count = 0, !.synRexmitTimer = "scheduled"]

(***************************************************************************)
(* Indications to the application: TCPSocket::processMessage().            *)
(***************************************************************************)
sendEstabIndicationToApp(c) == [c EXCEPT !.sock = "CONNECTED"]

indicateData(c, octets) == [c EXCEPT !.delivered = @ + octets]

indicatePeerClosed(c) ==
  [c EXCEPT !.sock = IF @ = "CONNECTED" THEN "PEER_CLOSED" ELSE "CLOSED",
            !.peerClosedInds = @ + 1]

indicateClosed(c) == [c EXCEPT !.sock = "CLOSED", !.closedInds = @ + 1]

\* CONNECTION_REFUSED, CONNECTION_RESET and TIMED_OUT.
indicateFailure(c) == [c EXCEPT !.sock = "SOCKERROR", !.closedInds = @ + 1]
=============================================================================
