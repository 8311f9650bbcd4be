---------------------------- MODULE AODVRouting ----------------------------
(***************************************************************************)
(* One AODV-UU routing agent (networklayer/manetrouting/aodv): its routing  *)
(* table, seek list, RREQ records and packet buffer, and what each handler  *)
(* of a message or of a timer does to them.                                 *)
(*                                                                          *)
(* A host is a record; every procedure of the code is an operator from the  *)
(* old host to the new one, called in the order in which the code calls     *)
(* them. The datagrams a handler sends collect in the field out, which the  *)
(* module AODV empties into the network. Lifetimes are not modelled: a      *)
(* timer is the handler it will call. RT_UNIDIR, RREP_ACK timers and the    *)
(* blacklist need unidir_hack, whose default is 0, and are left out.        *)
(***************************************************************************)
EXTENDS Naturals, Sequences, FiniteSetsExt

CONSTANTS Node,            \* the hosts, one wireless interface each
          None,            \* no address, or the broadcast address
          TTL_START, TTL_INCREMENT, TTL_THRESHOLD, NET_DIAMETER,
          RREQ_RETRIES, LOCAL_ADD_TTL, MAX_REPAIR_TTL,
          MAXTTL, MAX_QUEUE_LENGTH

ASSUME NoneIsNoNode == None \notin Node

ASSUME ParamsAreNumbers ==
    /\ {TTL_START, TTL_INCREMENT, TTL_THRESHOLD, NET_DIAMETER, RREQ_RETRIES,
        LOCAL_ADD_TTL, MAX_REPAIR_TTL, MAXTTL, MAX_QUEUE_LENGTH}
           \subseteq Nat
    /\ 0 < TTL_START /\ 0 < TTL_INCREMENT /\ 0 < LOCAL_ADD_TTL
    /\ 0 < MAX_QUEUE_LENGTH

(***************************************************************************)
(* State of a host                                                          *)
(***************************************************************************)
\* An entry of the routing table; NONE stands for no entry. timer is the
\* handler of rt_timer, hello tells whether hello_timer runs.
NoRoute == [state |-> "NONE", seqno |-> 0, next |-> None, hcnt |-> 0,
            repair |-> FALSE, prec |-> {}, timer |-> "none", hello |-> FALSE]

NoSeek == [ttl |-> 0, reqs |-> 0, seqno |-> 0]

\* llfeedback: link breaks are told by the MAC, not found out with hellos.
InitHost(llfeedback) ==
            [seqno   |-> 1,                        \* this_host.seqno
             rreqId  |-> 0,                        \* this_host.rreq_id
             rt      |-> [d \in Node |-> NoRoute], \* rt_tbl
             ip      |-> [d \in Node |-> None],    \* gateway in the IP table
             seek    |-> [d \in Node |-> NoSeek],  \* seekhead
             records |-> {},                       \* rreq_records
             queue   |-> <<>>,                     \* PQ
             hello   |-> FALSE,                    \* hello_timer.used
             llfeedback |-> llfeedback,
             out     |-> {}]

\* ids are the numbers of the data datagrams.
Message(ids) ==
    [type : {"DATA"}, id : ids]
    \cup [type : {"HELLO"}, seqno : Nat]
    \cup [type : {"RREP_ACK"}]
    \cup [type : {"RERR"}, n : BOOLEAN, udest : SUBSET (Node \X Nat)]
    \cup [type : {"RREP"}, orig : Node, dest : Node, seqno : Nat, hcnt : Nat,
          a : BOOLEAN]
    \cup [type : {"RREQ"}, orig : Node, id : Nat, oseq : Nat, dest : Node,
          dseq : Nat, hcnt : Nat, d : BOOLEAN]

Datagram(ids) == [hop : Node \cup {None}, src : Node, dst : Node \cup {None},
                  ttl : Nat, body : Message(ids)]

Entry == [state : {"NONE", "VALID", "INVALID"}, seqno : Nat,
          next : Node \cup {None}, hcnt : Nat, repair : BOOLEAN,
          prec : SUBSET Node, hello : BOOLEAN,
          timer : {"none", "expire", "delete", "repair"}]

Host(ids) == [seqno : Nat, rreqId : Nat, rt : [Node -> Entry],
              ip : [Node -> Node \cup {None}],
              seek : [Node -> [ttl : Nat, reqs : Nat, seqno : Nat]],
              records : SUBSET (Node \X Nat), queue : Seq(Datagram(ids)),
              hello : BOOLEAN, llfeedback : BOOLEAN,
              out : SUBSET Datagram(ids)]

\* What an uninitialised flag holds, and whether a hello is not yet due.
Choice == [garbage : BOOLEAN, quiet : BOOLEAN]

Valid(e) == e.state = "VALID"

Seeking(h, d) == h.seek[d] # NoSeek

\* seqno_incr: 0 is "unknown" and stays so.
SeqnoIncr(s) == IF s = 0 THEN 0 ELSE s + 1

(***************************************************************************)
(* Sending                                                                  *)
(***************************************************************************)
\* A control message leaves on the interface for hop, without a look at the
\* IP routing table: None broadcasts it.
Send(h, n, hop, ttl, body) ==
    IF ttl = 0 THEN h
    ELSE [h EXCEPT !.out = @ \cup
             {[hop |-> hop, src |-> n, dst |-> hop, ttl |-> ttl,
               body |-> body]}]

\* A buffered datagram goes back to IP, which routes it in a later event.
ToIP(h, n, pkts) ==
    [h EXCEPT !.out = @ \cup
        {[hop |-> n, src |-> p.src, dst |-> p.dst, ttl |-> p.ttl,
          body |-> p.body] : p \in pkts}]

(***************************************************************************)
(* Routing table                                                            *)
(***************************************************************************)
\* The packets of the queue q that go to D, in their order.
PacketsFor(q, D) ==
    LET f[i \in 0 .. Len(q)] ==
            IF i = 0 THEN <<>>
            ELSE IF q[i].dst \in D THEN Append(f[i - 1], q[i]) ELSE f[i - 1]
    IN  f[Len(q)]

\* Mutants: the search ends and the packets are forgotten; the packets go and
\* the search goes on.
ReleaseDropping(h, n, d) ==
    [h EXCEPT !.seek[d] = NoSeek,
              !.queue = PacketsFor(@, Node \ {d})]

ReleaseStillSeeking(h, n, d) ==
    IF ~ Seeking(h, d) THEN h
    ELSE ToIP([h EXCEPT !.queue = PacketsFor(@, Node \ {d})], n,
              {p \in Range(h.queue) : p.dst = d})

\* A route for a destination being sought ends the search and sends the
\* buffered packets on their way.
Release(h, n, d) ==
    IF ~ Seeking(h, d) THEN h
    ELSE ToIP([h EXCEPT !.seek[d] = NoSeek,
                        !.queue = PacketsFor(@, Node \ {d})],
              n, {p \in Range(h.queue) : p.dst = d})

RtTableInsert(h, n, d, next, hops, s, state) ==
    LET e == [state |-> state, seqno |-> s, next |-> next, hcnt |-> hops,
              repair |-> FALSE, prec |-> {}, hello |-> FALSE,
              timer |-> IF state = "VALID" THEN "expire" ELSE "delete"]
        g == [h EXCEPT !.rt[d] = e]
    IN  IF state = "VALID" THEN Release([g EXCEPT !.ip[d] = next], n, d)
                           ELSE g

\* Mutants: the IP table changes only for a route that was invalid; the flags
\* of the route stay.
RtTableUpdateStaleIP(h, n, d, next, hops, s) ==
    LET e == h.rt[d]
        f == [e EXCEPT !.state = "VALID", !.seqno = s, !.next = next,
                       !.hcnt = hops, !.timer = "expire", !.repair = FALSE]
    IN  Release([h EXCEPT !.rt[d] = f,
                          !.ip[d] = IF e.state = "INVALID" THEN next ELSE @],
                n, d)

RtTableUpdateInRepair(h, n, d, next, hops, s) ==
    Release([h EXCEPT !.rt[d] = [@ EXCEPT !.state = "VALID", !.seqno = s,
                                   !.next = next, !.hcnt = hops,
                                   !.timer = "expire"],
                      !.ip[d] = next], n, d)

\* Always called with state VALID. The IP table is only written when the
\* route was invalid or changes its next hop.
RtTableUpdate(h, n, d, next, hops, s) ==
    LET e == h.rt[d]
        f == [e EXCEPT !.state = "VALID", !.seqno = s, !.next = next,
                       !.hcnt = hops, !.timer = "expire",
                       !.repair = @ /\ e.state = "VALID",
                       !.hello = @ /\ ~ (hops > 1 /\ e.hcnt = 1)]
    IN  Release([h EXCEPT !.rt[d] = f,
                          !.ip[d] = IF e.state = "INVALID" \/ e.next # next
                                    THEN next ELSE @],
                n, d)

Invalidated(e) ==
    [e EXCEPT !.state = "INVALID", !.seqno = SeqnoIncr(@), !.hello = FALSE,
              !.timer = IF e.repair THEN "repair" ELSE "delete"]

\* Nothing happens to a route that is already invalid.
RtTableInvalidate(h, d) ==
    IF ~ Valid(h.rt[d]) THEN h
    ELSE [h EXCEPT !.rt[d] = Invalidated(@), !.ip[d] = None]

(***************************************************************************)
(* Hello messages                                                           *)
(***************************************************************************)
\* hello_send broadcasts nothing when another broadcast left in the last
\* HELLO_INTERVAL; the clock that tells is the choice c.quiet.
HelloSend(h, n, c) ==
    LET g == [h EXCEPT !.hello = TRUE]
    IN  IF c.quiet THEN g
        ELSE Send(g, n, None, 1, [type |-> "HELLO", seqno |-> h.seqno])

HelloStart(h, n, c) ==
    IF h.llfeedback \/ h.hello THEN h ELSE HelloSend(h, n, c)

\* The first hello of an unknown neighbour makes an INVALID entry
\* (receive_n_hellos is 1), the next one makes it valid. The sequence number
\* is the one in the hello, whatever the entry had.
HelloProcess(h, n, from, m) ==
    LET g == IF h.rt[from].state = "NONE"
             THEN RtTableInsert(h, n, from, from, 1, m.seqno, "INVALID")
             ELSE RtTableUpdate(h, n, from, from, 1, m.seqno)
    IN  [g EXCEPT !.rt[from].hello = TRUE]

(***************************************************************************)
(* Route errors and link breaks                                             *)
(***************************************************************************)
\* dest_count == 1, nprec == 1.
Single(S) == \E x \in S : S = {x}

\* A RERR about the destinations in lost, each with the number its entry has
\* in h: to the only precursor when one destination has only one, and to
\* everybody otherwise. prec are the precursors before they are purged.
RerrSend(h, n, lost, nodelete, prec) ==
    LET body == [type |-> "RERR", n |-> nodelete,
                 udest |-> {<<u, h.rt[u].seqno>> : u \in lost}]
        only == IF Single(lost)
                THEN LET p == prec[CHOOSE u \in lost : TRUE]
                     IN  IF Single(p)
                            /\ \A k \in p : h.rt[k].state # "NONE"
                         THEN CHOOSE k \in p : TRUE
                         ELSE None
                ELSE None
    IN  IF lost = {} THEN h ELSE Send(h, n, only, 1, body)

\* neighbor_link_break: the neighbour d and every route through it go. What
\* is to be repaired is kept quiet, the rest is told to the precursors.
NeighborLinkBreak(h, n, d) ==
    IF h.rt[d].hcnt # 1 THEN h
    ELSE
    LET g      == RtTableInvalidate(h, d)
        repair == g.rt[d].repair
        via    == {u \in Node \ {d} : Valid(g.rt[u]) /\ g.rt[u].next = d}
        kept   == {u \in via : repair /\ g.rt[u].hcnt <= MAX_REPAIR_TTL}
        gone   == (via \ kept) \cup (IF repair THEN {} ELSE {d})
        prec   == [u \in Node |-> g.rt[u].prec]
        new(u) == IF u \in via
                  THEN Invalidated([g.rt[u] EXCEPT !.repair = @ \/ u \in kept])
                  ELSE g.rt[u]
        f == [g EXCEPT
                !.rt = [u \in Node |-> IF u \in gone
                                       THEN [new(u) EXCEPT !.prec = {}]
                                       ELSE new(u)],
                !.ip = [u \in Node |-> IF u \in via THEN None ELSE g.ip[u]]]
    IN  RerrSend(f, n, {u \in gone : prec[u] # {}}, FALSE, prec)

\* The destinations of the RERR that are reached through its sender. Their
\* number is overwritten with the one in the RERR, be it higher or lower.
RerrProcess(h, n, from, m) ==
    LET hit  == {u \in m.udest : Valid(h.rt[u[1]]) /\ h.rt[u[1]].next = from}
        dest == {u[1] : u \in hit}
        num(d) == (CHOOSE u \in hit : u[1] = d)[2]
        prec == [d \in Node |-> h.rt[d].prec]
        told == {d \in dest : prec[d] # {} /\ ~ h.rt[d].repair}
        g == [h EXCEPT
                !.rt = [d \in Node |->
                    IF d \notin dest THEN h.rt[d]
                    ELSE IF m.n THEN [h.rt[d] EXCEPT !.seqno = num(d)]
                    ELSE [Invalidated(h.rt[d]) EXCEPT !.seqno = num(d),
                                                      !.prec = {}]],
                !.ip = [d \in Node |-> IF d \in dest /\ ~ m.n THEN None
                                                              ELSE h.ip[d]]]
    IN  RerrSend(g, n, told, m.n, prec)

(***************************************************************************)
(* Route requests                                                           *)
(***************************************************************************)
\* rreq_create leaves the flag d of the request as it finds it in memory: it
\* is the choice c.garbage. The G flag is always set (rreq_gratuitous).
RreqSend(h, n, d, s, ttl, c) ==
    LET g == [h EXCEPT !.rreqId = @ + 1, !.seqno = SeqnoIncr(@)]
    IN  Send(g, n, None, ttl,
             [type |-> "RREQ", orig |-> n, id |-> h.rreqId, oseq |-> g.seqno,
              dest |-> d, dseq |-> s, hcnt |-> 0, d |-> c.garbage])

RreqRouteDiscovery(h, n, d, c) ==
    IF Seeking(h, d) THEN h
    ELSE LET e   == h.rt[d]
             ttl == IF e.state = "NONE" THEN TTL_START
                                        ELSE e.hcnt + TTL_INCREMENT
             g   == RreqSend(h, n, d, e.seqno, ttl, c)
         IN  [g EXCEPT !.seek[d] = [ttl |-> ttl, reqs |-> 0,
                                    seqno |-> e.seqno]]

RreqLocalRepair(h, n, d, src, c) ==
    IF Seeking(h, d) \/ ~ h.rt[d].repair THEN h
    ELSE LET e   == h.rt[d]
             ttl == Max({e.hcnt, h.rt[src].hcnt \div 2}) + LOCAL_ADD_TTL
             g   == RreqSend([h EXCEPT !.rt[d].timer = "expire"],
                             n, d, e.seqno, ttl, c)
         IN  [g EXCEPT !.seek[d] = [ttl |-> ttl, reqs |-> 0,
                                    seqno |-> e.seqno]]

\* What both RREQ and RREP take for better than the entry they find.
Fresher(e, s, hops) ==
    \/ e.seqno = 0
    \/ s > e.seqno
    \/ s = e.seqno /\ (e.state = "INVALID" \/ hops < e.hcnt)

RtTablePut(h, n, d, next, hops, s) ==
    IF h.rt[d].state = "NONE"
    THEN RtTableInsert(h, n, d, next, hops, s, "VALID")
    ELSE RtTableUpdate(h, n, d, next, hops, s)

PrecursorAdd(h, d, k) == [h EXCEPT !.rt[d].prec = @ \cup {k}]

\* rrep_send: along the route of r, about f when f is not the host itself.
\* rrep_create leaves the flag a as it finds it in memory.
RrepSend(h, n, r, f, hcnt, s, about, c) ==
    LET hop == h.rt[r].next
        g   == [h EXCEPT !.ip[hop] = IF @ = None THEN hop ELSE @]
        k   == Send(g, n, hop, MAXTTL,
                    [type |-> "RREP", orig |-> r, dest |-> about, seqno |-> s,
                     hcnt |-> hcnt, a |-> c.garbage])
        p   == IF f = None THEN k
               ELSE PrecursorAdd(PrecursorAdd(k, f, hop), r, h.rt[f].next)
    IN  HelloStart(p, n, c)

\* A host that knows the destination answers for it and, with a gratuitous
\* RREP, tells the destination about the originator.
RreqAnswer(h, n, m, c) ==
    LET fwd == h.rt[m.dest]
        rev == h.rt[m.orig]
        g   == RrepSend(h, n, m.orig, m.dest, fwd.hcnt, fwd.seqno, m.dest, c)
    IN  RrepSend(g, n, m.dest, m.orig, rev.hcnt, rev.seqno, m.orig, c)

RreqForward(h, n, m, ttl) ==
    IF ttl = 0 THEN h
    ELSE Send(h, n, None, ttl,
              [m EXCEPT !.hcnt = @ + 1,
                        !.dseq = Max({@, h.rt[m.dest].seqno})])

\* Mutant: the destination takes the number it is asked for.
RreqAtDestinationObeying(h, n, m, c) ==
    LET own == IF m.dseq = 0 THEN h.seqno ELSE m.dseq
    IN  RrepSend([h EXCEPT !.seqno = own], n, m.orig, None, 0, own, n, c)

\* The destination answers with its own number, raised to the one asked for.
RreqAtDestination(h, n, m, c) ==
    LET own == IF m.dseq = 0 THEN h.seqno
               ELSE IF h.seqno = m.dseq THEN SeqnoIncr(h.seqno)
               ELSE Max({h.seqno, m.dseq})
    IN  RrepSend([h EXCEPT !.seqno = own], n, m.orig, None, 0, own, n, c)

RreqProcess(h, n, from, m, ttl, c) ==
    IF m.orig = n \/ <<m.orig, m.id>> \in h.records THEN h
    ELSE
    LET g == [h EXCEPT !.records = @ \cup {<<m.orig, m.id>>}]
        k == IF Fresher(g.rt[m.orig], m.oseq, m.hcnt + 1)
             THEN RtTablePut(g, n, m.orig, from, m.hcnt + 1, m.oseq)
             ELSE g
        fwd == k.rt[m.dest]
    IN  IF m.dest = n THEN RreqAtDestination(k, n, m, c)
        ELSE IF Valid(fwd) /\ ~ m.d /\ fwd.seqno # 0 /\ fwd.seqno >= m.dseq
             THEN RreqAnswer(k, n, m, c)
        ELSE RreqForward(k, n, m, ttl)

(***************************************************************************)
(* Route replies                                                            *)
(***************************************************************************)
RrepForward(h, n, m, ttl) ==
    LET hop == h.rt[m.orig].next
        via == h.rt[m.dest].next
        g   == Send(h, n, hop, ttl,
                    [m EXCEPT !.hcnt = h.rt[m.dest].hcnt, !.a = FALSE])
    IN  PrecursorAdd(PrecursorAdd(g, m.dest, hop), m.orig, via)

\* The originator of a repair tells its precursors when the new route is
\* longer: a RERR that is not to delete.
RrepAtOriginator(h, n, m, before) ==
    IF before.repair /\ h.rt[m.dest].hcnt > before.hcnt
                     /\ h.rt[m.dest].prec # {}
    THEN Send(h, n, None, 1,
              [type |-> "RERR", n |-> TRUE,
               udest |-> {<<m.dest, h.rt[m.dest].seqno>>}])
    ELSE h

RrepProcess(h, n, from, m, ttl, c) ==
    IF m.dest = n \/ ~ Fresher(h.rt[m.dest], m.seqno, m.hcnt + 1) THEN h
    ELSE
    LET g == RtTablePut(h, n, m.dest, from, m.hcnt + 1, m.seqno)
        k == IF m.a THEN Send(g, n, from, MAXTTL,
                              [type |-> "RREP_ACK"])
                    ELSE g
        p == IF m.orig = n THEN RrepAtOriginator(k, n, m, h.rt[m.dest])
             ELSE IF Valid(k.rt[m.orig]) THEN RrepForward(k, n, m, ttl)
             ELSE k
    IN  HelloStart(p, n, c)

(***************************************************************************)
(* aodv_socket_process_packet                                               *)
(***************************************************************************)
\* Whoever is heard with anything but a hello is a neighbour.
NeighborAdd(h, n, from) ==
    IF h.rt[from].state = "NONE"
    THEN RtTableInsert(h, n, from, from, 1, 0, "VALID")
    ELSE RtTableUpdate(h, n, from, from, 1, h.rt[from].seqno)

ProcessPacket(h, n, from, m, ttl, c) ==
    IF from = n THEN h
    ELSE IF m.type = "HELLO" THEN HelloProcess(h, n, from, m)
    ELSE LET g == NeighborAdd(h, n, from)
         IN  CASE m.type = "RREQ" -> RreqProcess(g, n, from, m, ttl, c)
               [] m.type = "RREP" -> RrepProcess(g, n, from, m, ttl, c)
               [] m.type = "RERR" -> RerrProcess(g, n, from, m)
               [] m.type = "RREP_ACK" -> g

(***************************************************************************)
(* Datagrams IP has no route for, and those the MAC could not deliver       *)
(***************************************************************************)
\* Mutant: the queue is never full.
PacketQueueAddUnbounded(h, p) == [h EXCEPT !.queue = Append(@, p)]

\* A full queue drops its first packet.
PacketQueueAdd(h, p) ==
    [h EXCEPT !.queue = Append(IF Len(@) >= MAX_QUEUE_LENGTH
                               THEN Tail(@) ELSE @, p)]

\* packet_queue_garbage_collect: packets older than MAX_QUEUE_TIME go. A
\* search takes less, so these are the ones nobody searches for.
PacketQueueGarbageCollect(h) ==
    [h EXCEPT !.queue = PacketsFor(@, {d \in Node : Seeking(h, d)})]

\* No route: the host's own packets and those for a route under repair wait
\* for a discovery, the others are dropped with a RERR to where they came
\* from.
NoRouteFor(h, n, p, c) ==
    LET e   == h.rt[p.dst]
        rev == h.rt[p.src]
        q   == PacketQueueAdd(h, p)
    IN  IF Valid(e) THEN HelloStart(ToIP(h, n, {p}), n, c)
        ELSE IF e.repair THEN RreqLocalRepair(q, n, p.dst, p.src, c)
        ELSE IF p.src = n THEN RreqRouteDiscovery(q, n, p.dst, c)
        ELSE Send(h, n, IF Valid(rev) THEN rev.next ELSE None, 1,
                  [type |-> "RERR", n |-> FALSE,
                   udest |-> {<<p.dst, e.seqno>>}])

\* packetFailed, with link layer feedback only.
PacketFailed(h, n, p, c) ==
    LET e   == h.rt[p.dst]
        nbr == e.next
    IN  IF Seeking(h, p.dst) THEN PacketQueueAdd(h, p)
        ELSE IF ~ Valid(e) THEN h
        ELSE IF ~ Valid(h.rt[nbr]) THEN h
        ELSE IF e.hcnt <= MAX_REPAIR_TTL
        THEN LET q == [PacketQueueAdd(h, p) EXCEPT !.rt[nbr].repair = TRUE]
             IN  RreqLocalRepair(NeighborLinkBreak(q, n, nbr),
                                 n, p.dst, p.src, c)
        ELSE NeighborLinkBreak(h, n, nbr)

(***************************************************************************)
(* Timers                                                                   *)
(***************************************************************************)
\* The repair of a route has failed: the precursors are told.
LocalRepairTimeout(h, n, d) ==
    LET e == h.rt[d]
        g == [h EXCEPT !.rt[d] = [e EXCEPT !.repair = FALSE, !.prec = {},
                                           !.timer = "delete"],
                       !.ip[d] = None]
        hop == IF Single(e.prec)
               THEN CHOOSE k \in e.prec : TRUE ELSE None
    IN  IF e.prec = {} THEN g
        ELSE Send(g, n, hop, 1, [type |-> "RERR", n |-> FALSE,
                                 udest |-> {<<d, e.seqno>>}])

RouteExpireTimeout(h, n, d) ==
    IF h.rt[d].hcnt = 1 THEN NeighborLinkBreak(h, n, d)
    ELSE [RtTableInvalidate(h, d) EXCEPT !.rt[d].prec = {}]

RouteDeleteTimeout(h, d) ==
    [h EXCEPT !.rt[d] = NoRoute,
              !.ip[d] = IF Valid(h.rt[d]) THEN None ELSE @]

RouteTimeout(h, n, d) ==
    CASE h.rt[d].timer = "expire" -> RouteExpireTimeout(h, n, d)
      [] h.rt[d].timer = "repair" -> LocalRepairTimeout(h, n, d)
      [] h.rt[d].timer = "delete" -> RouteDeleteTimeout(h, d)

HelloTimeout(h, n, d) ==
    LET g == [h EXCEPT !.rt[d].hello = FALSE]
        e == h.rt[d]
    IN  IF ~ Valid(e) THEN g
        ELSE NeighborLinkBreak([g EXCEPT !.rt[d].repair =
                                    @ \/ e.hcnt <= MAX_REPAIR_TTL], n, d)

\* Mutants: the entry of the seek list stays; the packets stay.
RouteDiscoveryStillSeeking(h, n, d, c) ==
    [h EXCEPT !.queue = PacketsFor(@, Node \ {d})]

RouteDiscoveryKeeping(h, n, d, c) == [h EXCEPT !.seek[d] = NoSeek]

\* route_discovery_timeout: a wider ring, then RREQ_RETRIES floods, then the
\* packets that wait are dropped.
RouteDiscoveryTimeout(h, n, d, c) ==
    LET k    == h.seek[d]
        next == IF k.ttl < TTL_THRESHOLD
                THEN [k EXCEPT !.ttl = @ + TTL_INCREMENT]
                ELSE [k EXCEPT !.ttl = NET_DIAMETER, !.reqs = @ + 1]
        over == [h EXCEPT !.seek[d] = NoSeek,
                          !.queue = PacketsFor(@, Node \ {d})]
    IN  IF k.reqs < RREQ_RETRIES
        THEN RreqSend([h EXCEPT !.seek[d] = next], n, d, k.seqno, next.ttl, c)
        ELSE IF h.rt[d].repair THEN LocalRepairTimeout(over, n, d)
        ELSE over
=============================================================================
