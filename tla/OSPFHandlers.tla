---------------------------- MODULE OSPFHandlers ----------------------------
(***************************************************************************)
(* The packet handlers of an OSPF router (networklayer/ospfv2/messagehandler) *)
(* on point-to-point interfaces, over the router records of OSPFNeighbor.    *)
(***************************************************************************)
EXTENDS OSPFNeighbor

(***************************************************************************)
(* Database description                                                     *)
(***************************************************************************)
RequestNewer(R, n, headers) ==
    FoldLeft(LAMBDA S, h : IF S.db[h.key].seq < h.seq
                           THEN AddToRequestList(S, n, h) ELSE S, R, headers)

\* The master numbers the packets and ends with the answer to its last one;
\* the slave ends with the answer it gives to the master's last.
ProcessDDPacket(R, n, p, inExchangeStart) ==
    LET asked == RequestNewer(R, n, p.headers)
        numbered == [asked EXCEPT !.nb[n].ddSeq = IF R.nb[n].master THEN @ + 1
                                                  ELSE p.seq]
        Answer(S) == IF inExchangeStart THEN S
                     ELSE SendDatabaseDescriptionPacket(S, n, FALSE)
        Final(S) == S.nb[n].summary = <<>> /\ ~ p.m
    IN  IF R.nb[n].master
        THEN IF Final(numbered) THEN ExchangeDone(numbered, n)
                               ELSE Answer(numbered)
        ELSE IF Final(Answer(numbered)) THEN ExchangeDone(Answer(numbered), n)
                                       ELSE Answer(numbered)

RequestMissing(R, n) ==
    IF R.nb[n].requests # <<>> /\ ~ R.nb[n].reqActive
    THEN StartRequestRetransmissionTimer(
             ClearRequestRetransmissionTimer(SendLinkStateRequestPacket(R, n), n),
             n)
    ELSE R

Id(p) == [i |-> p.i, m |-> p.m, ms |-> p.ms, seq |-> p.seq]

\* In ExchangeStart: the higher router ID is master, and the slave takes its
\* sequence number.
Negotiate(R, n, p) ==
    LET Agree(master) ==
          RequestMissing(NegotiationDone(ProcessDDPacket(
              [R EXCEPT !.nb[n].master = master, !.nb[n].lastRx = Id(p),
                        !.nb[n].ddSeq = p.seq], n, p, TRUE), n), n)
    IN  CASE p.i /\ n > R.id -> Agree(FALSE)
          [] p.i /\ n < R.id -> SendDatabaseDescriptionPacket(R, n, TRUE)
          [] ~ p.i /\ ~ p.ms /\ p.seq = R.nb[n].ddSeq /\ n < R.id -> Agree(TRUE)
          [] OTHER -> R

Exchange(R, n, p) ==
    LET b == R.nb[n] IN
    CASE Id(p) = b.lastRx ->
           IF b.master THEN R ELSE RetransmitDatabaseDescriptionPacket(R, n)
      [] /\ Id(p) # b.lastRx
         /\ \/ p.i \/ p.ms = b.master
            \/ p.seq # IF b.master THEN b.ddSeq ELSE b.ddSeq + 1
         -> Mismatch(R, n)
      [] OTHER ->
           RequestMissing(ProcessDDPacket([R EXCEPT !.nb[n].lastRx = Id(p)],
                                          n, p, FALSE), n)

\* Loading and Full: only the slave answers, and only while it still has the
\* packet.
AfterExchange(R, n, p) ==
    LET b == R.nb[n] IN
    CASE Id(p) # b.lastRx \/ p.i -> Mismatch(R, n)
      [] Id(p) = b.lastRx /\ ~ p.i /\ b.master -> R
      [] OTHER -> IF b.lastTx = NoDD THEN Mismatch(R, n)
                  ELSE RetransmitDatabaseDescriptionPacket(R, n)

DatabaseDescription(R, n, p) ==
    CASE State(R, n) = "Init" -> TwoWayReceived(R, n)
      [] State(R, n) = "ExchangeStart" -> Negotiate(R, n, p)
      [] State(R, n) = "Exchange" -> Exchange(R, n, p)
      [] State(R, n) \in {"Loading", "Full"} -> AfterExchange(R, n, p)
      [] OTHER -> R

(***************************************************************************)
(* Link state request, update and acknowledgement                           *)
(***************************************************************************)
LinkStateRequest(R, n, p) ==
    CASE State(R, n) \notin Exchanging -> R
      [] State(R, n) \in Exchanging /\ \E i \in DOMAIN p.keys : R.db[p.keys[i]].seq = 0
         -> Mismatch(R, n)
      [] OTHER ->
           FoldLeft(LAMBDA S, k : Send(S, n, [type |-> "lsu",
                                              lsas |-> <<S.db[k]>>]), R, p.keys)

\* RemoveFromAllRetransmissionLists, then Area::InstallRouterLSA.
InstallLSA(R, l) ==
    LET dropped == IF R.db[l.key].seq = 0 THEN R
                   ELSE RemoveFromAllRetransmissionLists(R, l.key)
    IN  [dropped EXCEPT !.db[l.key] = l, !.fresh = @ \cup {l.key}]

\* Interface::AddDelayedAcknowledgement.
AddDelayedAcknowledgement(R, n, l) ==
    IF State(R, n) \in Exchanging
    THEN [R EXCEPT !.nb[n].acks = @ \cup {Header(l)}] ELSE R

\* An instance newer than the database copy. A copy that has just arrived is
\* left alone; a first instance is not acknowledged; a newer instance of the
\* router's own LSA is superseded.
UpdateNewer(R, n, l) ==
    LET old == R.db[l.key]
        installed == InstallLSA(FloodLSA(R, l, n), l)
        told == IF old.seq = 0 THEN installed
                ELSE AddDelayedAcknowledgement(installed, n, l)
        own == [l EXCEPT !.seq = @ + 1]
    IN  CASE old.seq > 0 /\ l.key \in R.fresh -> R
          [] (old.seq = 0 \/ l.key \notin R.fresh) /\ l.key = R.id ->
               FloodLSA([told EXCEPT !.db[l.key] = own], own, R.id)
          [] OTHER -> told

\* A copy of what the database has: an implied acknowledgement, or acknowledged
\* at once.
UpdateDuplicate(R, n, l) ==
    IF OnList(R.nb[n].rxmt, l.key)
    THEN RemoveFromRetransmissionList(R, n, l.key)
    ELSE Send(R, n, [type |-> "lsack", headers |-> {Header(l)}])

\* The database has a newer copy: it is sent back, unless it was just sent.
UpdateOlder(R, n, l) ==
    IF R.nb[n].sent[l.key] > 0 THEN R
    ELSE Send(R, n, [type |-> "lsu", lsas |-> <<R.db[l.key]>>])

\* The LSAs of the packet in turn; a bad request ends the loop.
LinkStateUpdate(R, n, p) ==
    LET One(a, l) ==
          LET S == a.router
              seq == S.db[l.key].seq
          IN  CASE a.stop -> a
                [] ~ a.stop /\ seq < l.seq ->
                     [a EXCEPT !.router = UpdateNewer(S, n, l)]
                [] ~ a.stop /\ seq >= l.seq /\ OnList(S.nb[n].requests, l.key) ->
                     [router |-> Mismatch(S, n), stop |-> TRUE]
                [] OTHER -> [a EXCEPT !.router = IF seq = l.seq
                                                 THEN UpdateDuplicate(S, n, l)
                                                 ELSE UpdateOlder(S, n, l)]
    IN  IF State(R, n) \notin Exchanging THEN R
        ELSE FoldLeft(One, [router |-> R, stop |-> FALSE], p.lsas).router

\* Mutant: any instance acknowledges the one on the list.
LinkStateAcknowledgementAny(R, n, p) ==
    LET left == SelectSeq(R.nb[n].rxmt,
                          LAMBDA l : ~ \E h \in p.headers : h.key = l.key)
        next == [R EXCEPT !.nb[n].rxmt = left]
    IN  CASE State(R, n) \notin Exchanging -> R
          [] State(R, n) \in Exchanging /\ left = <<>> ->
               ClearUpdateRetransmissionTimer(next, n)
          [] OTHER -> next

LinkStateAcknowledgement(R, n, p) ==
    LET left == SelectSeq(R.nb[n].rxmt, LAMBDA l : Header(l) \notin p.headers)
        next == [R EXCEPT !.nb[n].rxmt = left]
    IN  CASE State(R, n) \notin Exchanging -> R
          [] State(R, n) \in Exchanging /\ left = <<>> ->
               ClearUpdateRetransmissionTimer(next, n)
          [] OTHER -> next

(***************************************************************************)
(* Hello                                                                    *)
(***************************************************************************)
SendHelloPacket(R, n) ==
    Send(R, n, [type |-> "hello", seen |-> State(R, n) # "Down"])

Hello(R, n, p) ==
    IF p.seen THEN TwoWayReceived(HelloReceived(R, n), n)
              ELSE OneWayReceived(HelloReceived(R, n), n)

\* MessageHandler::ProcessPacket.
ProcessPacket(R, n, p) ==
    CASE p.type = "hello" -> Hello(R, n, p)
      [] p.type = "dd" -> DatabaseDescription(R, n, p)
      [] p.type = "lsr" -> LinkStateRequest(R, n, p)
      [] p.type = "lsu" -> LinkStateUpdate(R, n, p)
      [] p.type = "lsack" -> LinkStateAcknowledgement(R, n, p)

(***************************************************************************)
(* The second the database ages by                                          *)
(***************************************************************************)
SendDelayedAcknowledgements(R, n) ==
    IF R.nb[n].acks = {} THEN R
    ELSE Send([R EXCEPT !.nb[n].acks = {}], n,
              [type |-> "lsack", headers |-> R.nb[n].acks])

\* Router::AgeDatabase, with or without an own LSA that is due for a refresh.
AgeDatabase(R, refresh) ==
    LET aged == IF refresh THEN OriginateRouterLSA([R EXCEPT !.fresh = {}])
                           ELSE [R EXCEPT !.fresh = {}]
    IN  [aged EXCEPT !.nb = [n \in DOMAIN @ |-> [@[n] EXCEPT
            !.sent = [k \in Key |-> IF @[k] = 0 THEN 0 ELSE @[k] - 1]]]]

=============================================================================
