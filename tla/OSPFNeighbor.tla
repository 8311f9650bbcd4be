---------------------------- MODULE OSPFNeighbor ----------------------------
(***************************************************************************)
(* One OSPF router (networklayer/ospfv2) on point-to-point interfaces: the  *)
(* neighbour state machine, the database exchange, the link state request,  *)
(* retransmission and acknowledgement lists, and reliable flooding. Every   *)
(* operator maps a router record to the record the code leaves.             *)
(*                                                                          *)
(* A router is [id, db, fresh, nb, out, seed, err]: its router LSAs by       *)
(* originator, those installed less than MIN_LS_ARRIVAL ago, one record per *)
(* interface and its neighbour, the packets this handler sent, the static   *)
(* ddSequenceNumberInitSeed, and whether a scheduled timer was scheduled    *)
(* again, which stops the simulation. Ages stay below MAX_AGE.              *)
(***************************************************************************)
EXTENDS Naturals, FiniteSets, SequencesExt

CONSTANTS Router,   \* the routers that run, each a number: its router ID
          Key,      \* the originators of router LSAs, Router among them
          MTU,      \* how many LSA headers fit a database description
          MaxRequests   \* how many requests fit a link state request

ASSUME RoutersAreWellFormed ==
    /\ Key \subseteq Nat /\ IsFiniteSet(Key) /\ Router \subseteq Key
    /\ MTU \in Nat \ {0} /\ MaxRequests \in Nat /\ MaxRequests > MTU

NoDD == [type |-> "none"]

Header(l) == [key |-> l.key, seq |-> l.seq]

InitNeighbor ==
    [state |-> "Down", inited |-> FALSE, master |-> FALSE, ddSeq |-> 0,
     lastRx |-> [i |-> TRUE, m |-> TRUE, ms |-> FALSE, seq |-> 0],
     lastTx |-> NoDD, summary |-> <<>>, requests |-> <<>>, rxmt |-> <<>>,
     sent |-> [k \in Key |-> 0], acks |-> {},
     ddTimer |-> FALSE, updTimer |-> FALSE, updActive |-> FALSE,
     reqTimer |-> FALSE, reqActive |-> FALSE]

\* The states a link state packet is processed in.
Exchanging == {"Exchange", "Loading", "Full"}

State(R, n) == R.nb[n].state

Send(R, n, p) == [R EXCEPT !.out[n] = Append(@, p)]

OnList(list, k) == \E i \in DOMAIN list : list[i].key = k

Without(list, k) == SelectSeq(list, LAMBDA h : h.key # k)

(***************************************************************************)
(* Timers. scheduleAt of a message that is scheduled is an error.           *)
(***************************************************************************)
StartDDRetransmissionTimer(R, n) ==
    [R EXCEPT !.err = @ \/ R.nb[n].ddTimer, !.nb[n].ddTimer = TRUE]

ClearDDRetransmissionTimer(R, n) == [R EXCEPT !.nb[n].ddTimer = FALSE]

StartUpdateRetransmissionTimer(R, n) ==
    [R EXCEPT !.err = @ \/ R.nb[n].updTimer,
              !.nb[n].updTimer = TRUE, !.nb[n].updActive = TRUE]

ClearUpdateRetransmissionTimer(R, n) ==
    [R EXCEPT !.nb[n].updTimer = FALSE, !.nb[n].updActive = FALSE]

StartRequestRetransmissionTimer(R, n) ==
    [R EXCEPT !.err = @ \/ R.nb[n].reqTimer,
              !.nb[n].reqTimer = TRUE, !.nb[n].reqActive = TRUE]

ClearRequestRetransmissionTimer(R, n) ==
    [R EXCEPT !.nb[n].reqTimer = FALSE, !.nb[n].reqActive = FALSE]

(***************************************************************************)
(* Packets                                                                  *)
(***************************************************************************)
\* Database summaries are sent in the order of the list, as many headers as
\* fit. The packet is kept for a retransmission.
SendDatabaseDescriptionPacket(R, n, init) ==
    LET b == R.nb[n]
        count == IF init THEN 0
                 ELSE IF Len(b.summary) < MTU THEN Len(b.summary) ELSE MTU
        rest == SubSeq(b.summary, count + 1, Len(b.summary))
        p == [type |-> "dd", i |-> init, m |-> init \/ rest # <<>>,
              ms |-> init \/ b.master, seq |-> b.ddSeq,
              headers |-> SubSeq(b.summary, 1, count)]
    IN  Send([R EXCEPT !.nb[n].summary = rest, !.nb[n].lastTx = p], n, p)

RetransmitDatabaseDescriptionPacket(R, n) ==
    IF R.nb[n].lastTx = NoDD THEN R ELSE Send(R, n, R.nb[n].lastTx)

\* The code's order is that of the vector routerLSAs. It decides only which LSAs
\* are described and asked for first; here they go by their key.
CreateDatabaseSummary(R, n) ==
    [R EXCEPT !.nb[n].summary =
        SetToSortSeq({Header(R.db[k]) : k \in {j \in Key : R.db[j].seq > 0}},
                     LAMBDA g, h : g.key < h.key)]

\* The first entries of the list, as many as fit. The others wait for the timer
\* to send the request again, when these have been answered.
SendLinkStateRequestPacket(R, n) ==
    LET list == R.nb[n].requests
    IN  Send(R, n, [type |-> "lsr",
                    keys |-> [i \in 1 .. Min({Len(list), MaxRequests}) |->
                                  list[i].key]])

\* The code compares each LSA with the whole room of a packet: it does not count
\* the LSAs before it, so every LSA that fits a packet by itself is in.
RetransmitUpdatePacket(R, n) ==
    Send(R, n, [type |-> "lsu", lsas |-> R.nb[n].rxmt])

(***************************************************************************)
(* Lists                                                                    *)
(***************************************************************************)
Reset(R, n) ==
    LET cleared == [R EXCEPT !.nb[n].rxmt = <<>>, !.nb[n].summary = <<>>,
                             !.nb[n].requests = <<>>, !.nb[n].lastTx = NoDD]
    IN  ClearRequestRetransmissionTimer(ClearUpdateRetransmissionTimer(
            ClearDDRetransmissionTimer(cleared, n), n), n)

\* Mutant: an older instance stays on the list.
AddToRetransmissionListTwice(R, n, l) ==
    [R EXCEPT !.nb[n].rxmt = Append(@, l)]

AddToRetransmissionList(R, n, l) ==
    [R EXCEPT !.nb[n].rxmt =
        IF OnList(@, l.key)
        THEN [i \in DOMAIN @ |-> IF @[i].key = l.key THEN l ELSE @[i]]
        ELSE Append(@, l)]

RemoveFromRetransmissionList(R, n, k) ==
    [R EXCEPT !.nb[n].rxmt = Without(@, k)]

RemoveFromAllRetransmissionLists(R, k) ==
    [R EXCEPT !.nb = [n \in DOMAIN @ |-> [@[n] EXCEPT !.rxmt = Without(@, k)]]]

AddToTransmittedLSAList(R, n, k) == [R EXCEPT !.nb[n].sent[k] = 2]

AddToRequestList(R, n, h) == [R EXCEPT !.nb[n].requests = Append(@, h)]

(***************************************************************************)
(* Flooding, and the state changes it brings about: the last LSA a neighbour *)
(* was asked for makes it Full, which changes this router's own LSA, which   *)
(* is flooded before the first one is even installed.                       *)
(***************************************************************************)
RECURSIVE FloodLSA(_, _, _)

FullNeighbors(R) == {n \in DOMAIN R.nb : State(R, n) = "Full"}

\* Mutant: the number OriginateRouterLSA gives is kept.
OriginateRouterLSAInitial(R) ==
    LET l == [key |-> R.id, seq |-> 1, links |-> FullNeighbors(R)]
    IN  FloodLSA([R EXCEPT !.db[R.id] = l, !.fresh = @ \cup {R.id}], l, R.id)

\* Area::OriginateRouterLSA, RouterLSA::Update and the flooding that follows.
OriginateRouterLSA(R) ==
    LET l == [key |-> R.id, seq |-> R.db[R.id].seq + 1,
              links |-> FullNeighbors(R)]
    IN  FloodLSA([R EXCEPT !.db[R.id] = l, !.fresh = @ \cup {R.id}], l, R.id)

\* Mutant: only the way up changes the LSA.
ChangeStateUpOnly(R, n, new) ==
    LET next == [R EXCEPT !.nb[n].state = new]
    IN  IF new = "Full" THEN OriginateRouterLSA(next) ELSE next

\* The own LSA lists the Full neighbours, so it changes with them.
ChangeState(R, n, new) ==
    LET next == [R EXCEPT !.nb[n].state = new]
    IN  IF "Full" \in {State(R, n), new} THEN OriginateRouterLSA(next)
                                         ELSE next

LoadingDone(R, n) ==
    IF State(R, n) = "Loading"
    THEN ChangeState(ClearRequestRetransmissionTimer(R, n), n, "Full")
    ELSE R

RemoveFromRequestList(R, n, k) ==
    LET next == [R EXCEPT !.nb[n].requests = Without(@, k)]
    IN  IF State(R, n) = "Loading" /\ next.nb[n].requests = <<>>
        THEN LoadingDone(ClearRequestRetransmissionTimer(next, n), n)
        ELSE next

\* The LSA is kept until it is acknowledged, and sent.
Transmit(R, n, l) ==
    LET next == AddToTransmittedLSAList(
                    Send(AddToRetransmissionList(R, n, l), n,
                         [type |-> "lsu", lsas |-> <<l>>]), n, l.key)
    IN  IF next.nb[n].updActive THEN next
        ELSE StartUpdateRetransmissionTimer(next, n)

\* Interface::FloodLSA on the interface to n, of an LSA that came from the
\* neighbour (or, of its own, from the router) from.
FloodOn(R, n, l, from) ==
    LET asked == SelectSeq(R.nb[n].requests, LAMBDA h : h.key = l.key)
        awaited == State(R, n) # "Full" /\ asked # <<>>
    IN  IF \/ State(R, n) \notin Exchanging
           \/ awaited /\ l.seq < asked[1].seq
        THEN R
        ELSE LET next == IF awaited THEN RemoveFromRequestList(R, n, l.key)
                                    ELSE R
             IN  IF \/ awaited /\ l.seq = asked[1].seq
                    \/ n = from
                 THEN next
                 ELSE Transmit(next, n, l)

FloodLSA(R, l, from) ==
    FoldLeft(LAMBDA S, n : FloodOn(S, n, l, from), R,
             SetToSortSeq(DOMAIN R.nb, <))

(***************************************************************************)
(* Events of the neighbour state machine                                    *)
(***************************************************************************)
HelloReceived(R, n) ==
    IF State(R, n) = "Down" THEN ChangeState(R, n, "Init") ELSE R

\* Every neighbour of a point-to-point interface needs an adjacency.
TwoWayReceived(R, n) ==
    IF State(R, n) # "Init" THEN R
    ELSE LET numbered ==
               IF R.nb[n].inited
               THEN [R EXCEPT !.nb[n].ddSeq = @ + 1]
               ELSE [R EXCEPT !.nb[n].ddSeq = R.seed, !.nb[n].inited = TRUE,
                              !.seed = @ + 1]
             sent == SendDatabaseDescriptionPacket(numbered, n, TRUE)
         IN  ChangeState(StartDDRetransmissionTimer(sent, n), n, "ExchangeStart")

OneWayReceived(R, n) ==
    IF State(R, n) \in {"Down", "Init"} THEN R
    ELSE ChangeState(Reset(R, n), n, "Init")

InactivityTimer(R, n) ==
    IF State(R, n) = "Down" THEN R ELSE ChangeState(Reset(R, n), n, "Down")

NegotiationDone(R, n) ==
    IF State(R, n) # "ExchangeStart" THEN R
    ELSE ChangeState(
             ClearDDRetransmissionTimer(
                 SendDatabaseDescriptionPacket(CreateDatabaseSummary(R, n),
                                               n, FALSE), n),
             n, "Exchange")

ExchangeDone(R, n) ==
    IF State(R, n) # "Exchange" THEN R
    ELSE LET next == StartDDRetransmissionTimer(R, n)
         IN  IF next.nb[n].requests = <<>>
             THEN ChangeState(ClearRequestRetransmissionTimer(next, n), n, "Full")
             ELSE ChangeState(next, n, "Loading")

\* Mutant: the timers of the failed exchange stay.
MismatchKeepingTimers(R, n) ==
    IF State(R, n) \notin Exchanging THEN R
    ELSE LET again == [R EXCEPT !.nb[n].ddSeq = @ + 1, !.nb[n].rxmt = <<>>,
                                !.nb[n].summary = <<>>, !.nb[n].requests = <<>>]
             sent == SendDatabaseDescriptionPacket(again, n, TRUE)
         IN  ChangeState(StartDDRetransmissionTimer(sent, n), n, "ExchangeStart")

\* SequenceNumberMismatch and BadLinkStateRequest, the same in each state.
Mismatch(R, n) ==
    IF State(R, n) \notin Exchanging THEN R
    ELSE LET again == [Reset(R, n) EXCEPT !.nb[n].ddSeq = @ + 1]
             sent == SendDatabaseDescriptionPacket(again, n, TRUE)
         IN  ChangeState(StartDDRetransmissionTimer(sent, n), n, "ExchangeStart")

\* MessageHandler::HandleTimer: the timer fired, the state handles it or not.
DDRetransmissionTimer(R, n) ==
    LET fired == ClearDDRetransmissionTimer(R, n)
    IN  CASE State(R, n) = "ExchangeStart" ->
               StartDDRetransmissionTimer(
                   RetransmitDatabaseDescriptionPacket(fired, n), n)
          [] State(R, n) \in {"Loading", "Full"} ->
               [fired EXCEPT !.nb[n].lastTx = NoDD]
          [] OTHER -> fired

UpdateRetransmissionTimer(R, n) ==
    LET fired == [R EXCEPT !.nb[n].updTimer = FALSE]
    IN  IF State(R, n) \in Exchanging
        THEN StartUpdateRetransmissionTimer(RetransmitUpdatePacket(fired, n), n)
        ELSE fired

\* Mutant: only Exchange asks again.
RequestRetransmissionTimerOnce(R, n) ==
    LET fired == [R EXCEPT !.nb[n].reqTimer = FALSE]
    IN  IF State(R, n) = "Exchange"
        THEN StartRequestRetransmissionTimer(
                 SendLinkStateRequestPacket(fired, n), n)
        ELSE fired

RequestRetransmissionTimer(R, n) ==
    LET fired == [R EXCEPT !.nb[n].reqTimer = FALSE]
    IN  IF State(R, n) \in {"Exchange", "Loading"}
        THEN StartRequestRetransmissionTimer(
                 SendLinkStateRequestPacket(fired, n), n)
        ELSE fired

=============================================================================
