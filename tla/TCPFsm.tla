------------------------------- MODULE TCPFsm -------------------------------
(***************************************************************************)
(* The connection state machine of TCPConnection (enums TcpState and       *)
(* TCPEventCode, performStateTransition()).                                *)
(***************************************************************************)

States == {"INIT", "CLOSED", "LISTEN", "SYN_SENT", "SYN_RCVD", "ESTABLISHED",
           "CLOSE_WAIT", "LAST_ACK", "FIN_WAIT_1", "FIN_WAIT_2", "CLOSING",
           "TIME_WAIT"}

Events == {"IGNORE", "OPEN_ACTIVE", "OPEN_PASSIVE", "SEND", "CLOSE", "ABORT",
           "RCV_ACK", "RCV_SYN", "RCV_SYN_ACK", "RCV_FIN", "RCV_FIN_ACK",
           "RCV_RST", "RCV_UNEXP_SYN", "TIMEOUT_2MSL", "TIMEOUT_CONN_ESTAB",
           "TIMEOUT_FIN_WAIT_2"}

\* The states whose handling of ABORT, RST and an unexpected SYN is to close.
SynchronizedStates == {"ESTABLISHED", "CLOSE_WAIT", "LAST_ACK", "FIN_WAIT_1",
                       "FIN_WAIT_2", "CLOSING", "TIME_WAIT"}

\* The transitions of the nested switch, per state.  "SYN_RCVD" goes back to
\* LISTEN on a reset or a timeout unless the connection was opened actively.
Fsm ==
  [INIT        |-> [OPEN_PASSIVE |-> "LISTEN", OPEN_ACTIVE |-> "SYN_SENT"],
   LISTEN      |-> [OPEN_ACTIVE |-> "SYN_SENT", SEND |-> "SYN_SENT",
                    CLOSE |-> "CLOSED", ABORT |-> "CLOSED",
                    RCV_SYN |-> "SYN_RCVD"],
   SYN_RCVD    |-> [CLOSE |-> "FIN_WAIT_1", ABORT |-> "CLOSED",
                    RCV_ACK |-> "ESTABLISHED", RCV_FIN |-> "CLOSE_WAIT",
                    RCV_UNEXP_SYN |-> "CLOSED",
                    TIMEOUT_CONN_ESTAB |-> "LISTEN", RCV_RST |-> "LISTEN"],
   SYN_SENT    |-> [CLOSE |-> "CLOSED", ABORT |-> "CLOSED",
                    TIMEOUT_CONN_ESTAB |-> "CLOSED", RCV_RST |-> "CLOSED",
                    RCV_SYN_ACK |-> "ESTABLISHED", RCV_SYN |-> "SYN_RCVD"],
   ESTABLISHED |-> [CLOSE |-> "FIN_WAIT_1", RCV_FIN |-> "CLOSE_WAIT"],
   CLOSE_WAIT  |-> [CLOSE |-> "LAST_ACK"],
   LAST_ACK    |-> [RCV_ACK |-> "CLOSED"],
   FIN_WAIT_1  |-> [RCV_FIN |-> "CLOSING", RCV_ACK |-> "FIN_WAIT_2",
                    RCV_FIN_ACK |-> "TIME_WAIT"],
   FIN_WAIT_2  |-> [RCV_FIN |-> "TIME_WAIT", TIMEOUT_FIN_WAIT_2 |-> "CLOSED"],
   CLOSING     |-> [RCV_ACK |-> "TIME_WAIT"],
   TIME_WAIT   |-> [TIMEOUT_2MSL |-> "CLOSED"]]

\* The state that performStateTransition() moves to.  An event that the switch
\* does not list for the state, like IGNORE, leaves it.
nextState(state, event, active) ==
  IF state \in SynchronizedStates /\ event \in {"ABORT", "RCV_RST", "RCV_UNEXP_SYN"}
  THEN "CLOSED"
  ELSE IF state \notin DOMAIN Fsm \/ event \notin DOMAIN Fsm[state] THEN state
  ELSE IF state = "SYN_RCVD" /\ event \in {"RCV_RST", "TIMEOUT_CONN_ESTAB"} /\ active
       THEN "CLOSED"
       ELSE Fsm[state][event]
=============================================================================
