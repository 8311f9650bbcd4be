----------------------------- MODULE AODVProofs -----------------------------
(***************************************************************************)
(* Proofs about a network of AODV-UU hosts, for any number of them, any      *)
(* topology and any faults.                                                 *)
(*                                                                          *)
(* What one handler does to its host is in AODVHostProofs (tables, searches  *)
(* and messages) and, for a datagram without a route, a failed transmission  *)
(* and the timers, in the first sections here; then every action of the      *)
(* network is one handler of one host, and what that host sends.             *)
(***************************************************************************)
EXTENDS AODV, AODVHostProofs

(***************************************************************************)
(* Datagrams without a route                                                *)
(***************************************************************************)
\* Calm, but for packets to d that may wait without a search.
Waiting(h, d) ==
    /\ \A x \in Node : CalmEntry(h.rt[x])
    /\ \A x \in Node : Valid(h.rt[x]) => h.ip[x] = h.rt[x].next
    /\ \A x \in Node : Seeking(h, x) => ~ Valid(h.rt[x])
    /\ \A i \in DOMAIN h.queue : /\ h.queue[i].dst \in Node
                                 /\ h.queue[i].dst = d \/ Seeking(h, h.queue[i].dst)

\* g is h with the packet p in its queue.
Queued(h, g, n, ids, p) ==
    /\ Well(g, n, ids)
    /\ g.seqno = h.seqno /\ g.llfeedback = h.llfeedback
    /\ g.rt = h.rt /\ g.ip = h.ip /\ g.seek = h.seek
    /\ p.dst \in Node /\ Calm(h) => Waiting(g, p.dst)

\* packet_queue_add(): the oldest packet goes when the queue is full.
LEMMA PacketQueueAddQueued ==
    ASSUME NEW ids, NEW n \in Node, NEW h, Well(h, n, ids),
           NEW p \in Datagram(ids)
    PROVE  Queued(h, PacketQueueAdd(h, p), n, ids, p)
<1> DEFINE q == IF Len(h.queue) >= MAX_QUEUE_LENGTH THEN Tail(h.queue)
                                                    ELSE h.queue
           Q == Append(q, p)
           g == [h EXCEPT !.queue = Q]
<1>1. /\ h \in Host(ids) /\ h.queue \in Seq(Datagram(ids))
      /\ Len(h.queue) <= MAX_QUEUE_LENGTH
      /\ MAX_QUEUE_LENGTH \in Nat /\ 0 < MAX_QUEUE_LENGTH
    BY Zenon, ParamsAreNumbers DEF Well, Host
<1>2. PacketQueueAdd(h, p) = g
    BY DEF PacketQueueAdd
<1>3. /\ q \in Seq(Datagram(ids)) /\ Len(q) + 1 <= MAX_QUEUE_LENGTH
      /\ \A i \in 1 .. Len(q) : \E j \in 1 .. Len(h.queue) : q[i] = h.queue[j]
    <2>1. CASE Len(h.queue) >= MAX_QUEUE_LENGTH
        <3>1. h.queue # <<>>
            BY <1>1, <2>1
        <3>2. /\ Tail(h.queue) \in Seq(Datagram(ids))
              /\ Len(Tail(h.queue)) = Len(h.queue) - 1
              /\ \A i \in 1 .. Len(Tail(h.queue)) :
                     Tail(h.queue)[i] = h.queue[i + 1]
            BY <1>1, <3>1
        <3>3. q = Tail(h.queue)
            BY <2>1
        <3> HIDE DEF q
        <3>4. ASSUME NEW i \in 1 .. Len(q)
              PROVE  i + 1 \in 1 .. Len(h.queue) /\ q[i] = h.queue[i + 1]
            BY <1>1, <3>2, <3>3
        <3> QED BY <1>1, <3>2, <3>3, <3>4
    <2>2. CASE ~ (Len(h.queue) >= MAX_QUEUE_LENGTH)
        <3>1. q = h.queue
            BY <2>2
        <3> HIDE DEF q
        <3> QED BY <1>1, <2>2, <3>1
    <2> QED BY <2>1, <2>2
<1> HIDE DEF q
<1>4. /\ Q \in Seq(Datagram(ids)) /\ Len(Q) = Len(q) + 1
      /\ \A i \in 1 .. Len(Q) : Q[i] = p \/ \E j \in 1 .. Len(q) : Q[i] = q[j]
    BY <1>3
<1> HIDE DEF Q
<1>5. g \in Host(ids)
    BY Zenon, <1>1, <1>4 DEF Host
<1>6. /\ g.seqno = h.seqno /\ g.llfeedback = h.llfeedback
      /\ g.rt = h.rt /\ g.ip = h.ip /\ g.seek = h.seek /\ g.out = h.out
      /\ g.queue = Q
    BY <1>1 DEF Host
<1> HIDE DEF g
<1>7. Well(g, n, ids)
    BY <1>3, <1>4, <1>5, <1>6 DEF Well
<1>8. ASSUME p.dst \in Node, Calm(h) PROVE Waiting(g, p.dst)
    <2>1. \A x : Seeking(g, x) <=> Seeking(h, x)
        BY <1>6 DEF Seeking
    <2>2. DOMAIN Q = 1 .. Len(Q) /\ DOMAIN h.queue = 1 .. Len(h.queue)
        BY <1>1, <1>4
    <2>3. ASSUME NEW i \in DOMAIN Q
          PROVE  Q[i].dst \in Node /\ (Q[i].dst = p.dst \/ Seeking(g, Q[i].dst))
        <3>1. Q[i] = p \/ \E j \in 1 .. Len(h.queue) : Q[i] = h.queue[j]
            BY <1>3, <1>4, <2>2
        <3> QED BY Zenon, <1>8, <2>1, <2>2, <3>1 DEF Calm
    <2> QED BY <1>6, <1>8, <2>1, <2>3 DEF Calm, Waiting
<1>9. Queued(h, g, n, ids, p)
    BY <1>6, <1>7, <1>8 DEF Queued
<1> QED BY <1>2, <1>9

\* A search is entered in the seek list.
LEMMA SeekWritten ==
    ASSUME NEW ids, NEW n \in Node, NEW h, Well(h, n, ids), NEW d \in Node,
           NEW k \in [ttl : Nat, reqs : Nat, seqno : Nat], k # NoSeek
    PROVE  LET g == [h EXCEPT !.seek[d] = k]
           IN  /\ Well(g, n, ids)
               /\ g.seqno = h.seqno /\ g.llfeedback = h.llfeedback
               /\ g.rt = h.rt /\ g.ip = h.ip /\ g.queue = h.queue
               /\ Waiting(h, d) /\ ~ Valid(h.rt[d]) => Calm(g)
<1> DEFINE g == [h EXCEPT !.seek[d] = k]
<1>1. /\ h \in Host(ids)
      /\ h.seek \in [Node -> [ttl : Nat, reqs : Nat, seqno : Nat]]
    BY Zenon DEF Well, Host
<1>2. g \in Host(ids)
    BY Zenon, <1>1 DEF Host
<1>3. /\ g.seqno = h.seqno /\ g.llfeedback = h.llfeedback
      /\ g.rt = h.rt /\ g.ip = h.ip /\ g.queue = h.queue /\ g.out = h.out
      /\ g.seek = [h.seek EXCEPT ![d] = k]
    BY <1>1 DEF Host
<1> HIDE DEF g
<1>4. Well(g, n, ids)
    BY <1>2, <1>3 DEF Well
<1>6. \A x \in Node : Seeking(g, x) <=> (x = d \/ Seeking(h, x))
    BY <1>1, <1>3 DEF Seeking
<1>7. Waiting(h, d) /\ ~ Valid(h.rt[d]) => Calm(g)
    BY <1>3, <1>6 DEF Waiting, Calm
<1> QED BY <1>3, <1>4, <1>7 DEF g

\* A handler that ends the wait of the packets to d.
Finds(h, g, n, ids, d) ==
    /\ Well(g, n, ids)
    /\ g.seqno >= h.seqno /\ g.llfeedback = h.llfeedback
    /\ Waiting(h, d) /\ ~ Valid(h.rt[d]) => Calm(g)

\* A request leaves and its search is entered in the seek list.
LEMMA SearchBegun ==
    ASSUME NEW ids, NEW n \in Node, NEW h, Well(h, n, ids), NEW c \in Choice,
           NEW d \in Node, NEW s \in Nat, NEW ttl \in Nat \ {0},
           NEW k \in [ttl : Nat, reqs : Nat, seqno : Nat], k # NoSeek
    PROVE  Finds(h, [RreqSend(h, n, d, s, ttl, c) EXCEPT !.seek[d] = k],
                 n, ids, d)
<1> DEFINE f == RreqSend(h, n, d, s, ttl, c)
           g == [f EXCEPT !.seek[d] = k]
<1>1. Advanced(h, f, n, ids)
    BY RreqSendAdvanced
<1> HIDE DEF f
<1>2. Well(f, n, ids)
    BY <1>1 DEF Advanced
<1>3. /\ Well(g, n, ids)
      /\ g.seqno = f.seqno /\ g.llfeedback = f.llfeedback
      /\ Waiting(f, d) /\ ~ Valid(f.rt[d]) => Calm(g)
    BY <1>2, SeekWritten
<1>4. Waiting(h, d) => Waiting(f, d)
    BY <1>1 DEF Advanced, Waiting, Seeking
<1> HIDE DEF g
<1>5. Finds(h, g, n, ids, d)
    BY <1>1, <1>3, <1>4 DEF Finds, Advanced
<1> QED BY <1>5 DEF f, g

\* Somebody searches for d already.
LEMMA SearchGoesOn ==
    ASSUME NEW ids, NEW n \in Node, NEW h, Well(h, n, ids), NEW d \in Node,
           Seeking(h, d)
    PROVE  Finds(h, h, n, ids, d)
<1>1. Waiting(h, d) => Calm(h)
    BY DEF Waiting, Calm
<1>2. h.seqno \in Nat
    BY DEF Well, Host
<1> QED BY <1>1, <1>2 DEF Finds

\* rreq_route_discovery().
LEMMA RreqRouteDiscoveryFinds ==
    ASSUME NEW ids, NEW n \in Node, NEW h, Well(h, n, ids), NEW c \in Choice,
           NEW d \in Node
    PROVE  Finds(h, RreqRouteDiscovery(h, n, d, c), n, ids, d)
<1>1. CASE Seeking(h, d)
    BY <1>1, SearchGoesOn DEF RreqRouteDiscovery
<1>2. CASE ~ Seeking(h, d)
    <2> DEFINE e == h.rt[d]
               ttl == IF e.state = "NONE" THEN TTL_START
                                          ELSE e.hcnt + TTL_INCREMENT
               k == [ttl |-> ttl, reqs |-> 0, seqno |-> e.seqno]
    <2>1. e.hcnt \in Nat /\ e.seqno \in Nat
        BY DEF Well, Host, Entry
    <2>2. ttl \in Nat \ {0}
        BY <2>1, ParamsAreNumbers
    <2>3. RreqRouteDiscovery(h, n, d, c)
              = [RreqSend(h, n, d, e.seqno, ttl, c) EXCEPT !.seek[d] = k]
        BY <1>2 DEF RreqRouteDiscovery
    <2> HIDE DEF ttl, e
    <2>4. k \in [ttl : Nat, reqs : Nat, seqno : Nat] /\ k # NoSeek
        BY <2>1, <2>2 DEF NoSeek
    <2> HIDE DEF k
    <2>5. Finds(h, [RreqSend(h, n, d, e.seqno, ttl, c) EXCEPT !.seek[d] = k],
                n, ids, d)
        BY <2>1, <2>2, <2>4, SearchBegun
    <2> QED BY <2>3, <2>5
<1> QED BY <1>1, <1>2

\* What every handler keeps, with link layer feedback or without.
Proper(h, g, n, ids) ==
    /\ Well(g, n, ids)
    /\ g.seqno >= h.seqno /\ g.llfeedback = h.llfeedback

\* rreq_local_repair() of a route under repair.
LEMMA RreqLocalRepairFinds ==
    ASSUME NEW ids, NEW n \in Node, NEW h, Well(h, n, ids), NEW c \in Choice,
           NEW d \in Node, NEW src \in Node, h.rt[d].repair
    PROVE  Finds(h, RreqLocalRepair(h, n, d, src, c), n, ids, d)
<1>1. CASE Seeking(h, d)
    BY <1>1, SearchGoesOn DEF RreqLocalRepair
<1>2. CASE ~ Seeking(h, d)
    <2> DEFINE e == h.rt[d]
               half == h.rt[src].hcnt \div 2
               far == Max({e.hcnt, half})
               ttl == far + LOCAL_ADD_TTL
               k == [ttl |-> ttl, reqs |-> 0, seqno |-> e.seqno]
               t == [e EXCEPT !.timer = "expire"]
               f == [h EXCEPT !.rt[d] = t]
               g == [RreqSend(f, n, d, e.seqno, ttl, c) EXCEPT !.seek[d] = k]
    <2>1. RreqLocalRepair(h, n, d, src, c) = g
        BY <1>2 DEF RreqLocalRepair
    <2>2. /\ e \in Entry /\ EntryOK(e) /\ e.hcnt \in Nat /\ e.seqno \in Nat
          /\ h.rt[src].hcnt \in Nat
        BY Zenon DEF Well, Host, Entry
    <2>3. half \in Nat
        BY <2>2
    <2> HIDE DEF half
    <2>4. far \in Nat
        BY <2>2, <2>3, MaxOfTwo
    <2> HIDE DEF far
    <2>5. ttl \in Nat \ {0}
        BY <2>4, ParamsAreNumbers
    <2> HIDE DEF ttl
    <2>6. k \in [ttl : Nat, reqs : Nat, seqno : Nat] /\ k # NoSeek
        BY <2>2, <2>5 DEF NoSeek
    <2>7. /\ t \in Entry /\ t.state = e.state /\ t.next = e.next
          /\ EntryOK(t) /\ (CalmEntry(e) => CalmEntry(t))
        <3> HIDE DEF e
        <3>1. t \in Entry
            BY <2>2 DEF Entry
        <3>2. /\ t.state = e.state /\ t.next = e.next /\ t.seqno = e.seqno
              /\ t.timer = "expire" /\ t.repair = e.repair
              /\ t.hello = e.hello /\ t.hcnt = e.hcnt
            BY <2>2 DEF Entry
        <3> HIDE DEF t
        <3>3. EntryOK(t) /\ (CalmEntry(e) => CalmEntry(t))
            BY <2>2, <3>2 DEF EntryOK, CalmEntry
        <3> QED BY <3>1, <3>2, <3>3
    <2> HIDE DEF k, t
    <2>8. Rewritten(h, f, n, ids, d, t, h.ip[d])
        BY <2>7, RtWritten
    <2> HIDE DEF f
    <2>9. Well(f, n, ids)
        BY <2>8 DEF Rewritten, Routed
    <2>10. Finds(f, g, n, ids, d)
        <3> HIDE DEF e
        <3> QED BY <2>2, <2>5, <2>6, <2>9, SearchBegun
    <2> HIDE DEF g
    <2>11. ASSUME Waiting(h, d), ~ Valid(h.rt[d])
           PROVE  Waiting(f, d) /\ ~ Valid(f.rt[d])
        <3>1. \A x : Seeking(f, x) <=> Seeking(h, x)
            BY <2>8 DEF Rewritten, Seeking
        <3>2. \A x \in Node : /\ CalmEntry(f.rt[x])
                              /\ Valid(f.rt[x]) => Valid(h.rt[x])
                                    /\ f.rt[x] = h.rt[x] /\ f.ip[x] = h.ip[x]
            BY Zenon, <2>7, <2>8, <2>11 DEF Rewritten, Routed, Waiting, Valid
        <3>3. f.queue = h.queue
            BY <2>8 DEF Rewritten
        <3>4. /\ \A x \in Node : Valid(h.rt[x]) => h.ip[x] = h.rt[x].next
              /\ \A x \in Node : Seeking(h, x) => ~ Valid(h.rt[x])
              /\ \A i \in DOMAIN h.queue :
                    /\ h.queue[i].dst \in Node
                    /\ h.queue[i].dst = d \/ Seeking(h, h.queue[i].dst)
            BY <2>11 DEF Waiting
        <3>5. /\ \A x \in Node : CalmEntry(f.rt[x])
              /\ \A x \in Node : Valid(f.rt[x]) => f.ip[x] = f.rt[x].next
              /\ \A x \in Node : Seeking(f, x) => ~ Valid(f.rt[x])
            BY <3>1, <3>2, <3>4
        <3>6. \A i \in DOMAIN f.queue :
                  /\ f.queue[i].dst \in Node
                  /\ f.queue[i].dst = d \/ Seeking(f, f.queue[i].dst)
            BY <3>1, <3>3, <3>4
        <3> QED BY Zenon, <2>11, <3>2, <3>5, <3>6 DEF Waiting
    <2>12. f.seqno = h.seqno /\ f.llfeedback = h.llfeedback
        BY <2>8 DEF Rewritten, Routed
    <2> QED BY <2>1, <2>10, <2>11, <2>12 DEF Finds
<1> QED BY <1>1, <1>2

\* rreq_local_repair() of any route, under repair or not.
LEMMA RreqLocalRepairProper ==
    ASSUME NEW ids, NEW n \in Node, NEW h, Well(h, n, ids), NEW c \in Choice,
           NEW d \in Node, NEW src \in Node
    PROVE  Proper(h, RreqLocalRepair(h, n, d, src, c), n, ids)
<1>1. CASE ~ h.rt[d].repair
    <2>1. RreqLocalRepair(h, n, d, src, c) = h
        BY <1>1 DEF RreqLocalRepair
    <2>2. h.seqno \in Nat
        BY DEF Well, Host
    <2> QED BY <2>1, <2>2 DEF Proper
<1>2. CASE h.rt[d].repair
    BY <1>2, RreqLocalRepairFinds DEF Proper, Finds
<1> QED BY <1>1, <1>2

\* What finds the packet that was just queued keeps the host calm.
LEMMA QueuedFinds ==
    ASSUME NEW ids, NEW n, NEW h, NEW q, NEW g, NEW p, p.dst \in Node,
           ~ Valid(h.rt[p.dst]), Queued(h, q, n, ids, p),
           Finds(q, g, n, ids, p.dst)
    PROVE  Keeps(h, g, n, ids)
BY DEF Queued, Finds, Keeps

\* MANET_ROUTE_NOROUTE.
LEMMA NoRouteForKeeps ==
    ASSUME NEW ids, NEW n \in Node, NEW h, Well(h, n, ids), NEW c \in Choice,
           NEW p \in Datagram(ids), p.dst \in Node
    PROVE  Keeps(h, NoRouteFor(h, n, p, c), n, ids)
<1> DEFINE e == h.rt[p.dst]
           rev == h.rt[p.src]
           q == PacketQueueAdd(h, p)
<1>1. p.src \in Node /\ h \in Host(ids)
    BY DEF Datagram, Well
<1>2. Queued(h, q, n, ids, p)
    BY PacketQueueAddQueued
<1>3. Well(q, n, ids) /\ q.rt = h.rt
    BY <1>2 DEF Queued
<1>4. CASE Valid(e)
    <2> DEFINE f == ToIP(h, n, {p})
    <2>1. NoRouteFor(h, n, p, c) = HelloStart(f, n, c)
        BY <1>4 DEF NoRouteFor
    <2>2. Sent(h, f, n, ids)
        BY ToIPSent
    <2> HIDE DEF f
    <2>3. Sent(f, HelloStart(f, n, c), n, ids)
        BY <2>2, HelloStartSent DEF Sent
    <2>4. Sent(h, HelloStart(f, n, c), n, ids)
        BY <2>2, <2>3, SentTransitive
    <2> QED BY <1>1, <2>1, <2>4, SentKeeps
<1>5. CASE ~ Valid(e) /\ e.repair
    <2>1. NoRouteFor(h, n, p, c) = RreqLocalRepair(q, n, p.dst, p.src, c)
        BY Zenon, <1>5 DEF NoRouteFor
    <2> HIDE DEF q
    <2>2. Finds(q, RreqLocalRepair(q, n, p.dst, p.src, c), n, ids, p.dst)
        BY <1>1, <1>3, <1>5, RreqLocalRepairFinds
    <2> QED BY Zenon, <1>2, <1>5, <2>1, <2>2, QueuedFinds
<1>6. CASE ~ Valid(e) /\ ~ e.repair /\ p.src = n
    <2>1. NoRouteFor(h, n, p, c) = RreqRouteDiscovery(q, n, p.dst, c)
        BY Zenon, <1>6 DEF NoRouteFor
    <2> HIDE DEF q
    <2>2. Finds(q, RreqRouteDiscovery(q, n, p.dst, c), n, ids, p.dst)
        BY <1>3, RreqRouteDiscoveryFinds
    <2> QED BY Zenon, <1>2, <1>6, <2>1, <2>2, QueuedFinds
<1>7. CASE ~ Valid(e) /\ ~ e.repair /\ p.src # n
    <2> DEFINE u == <<p.dst, e.seqno>>
               m == [type |-> "RERR", n |-> FALSE, udest |-> {u}]
               hop == IF Valid(rev) THEN rev.next ELSE None
    <2>1. NoRouteFor(h, n, p, c) = Send(h, n, hop, 1, m)
        BY Zenon, <1>7 DEF NoRouteFor
    <2>2. u \in Node \X Nat
        BY DEF Well, Host, Entry
    <2>3. hop \in Node \cup {None}
        BY <1>1 DEF Well, EntryOK, Valid
    <2> HIDE DEF u, hop
    <2>4. m \in Message(ids)
        BY <2>2 DEF Message
    <2> HIDE DEF m
    <2>5. Sent(h, Send(h, n, hop, 1, m), n, ids)
        BY <2>3, <2>4, SendSent
    <2> QED BY <1>1, <2>1, <2>5, SentKeeps
<1> QED BY <1>4, <1>5, <1>6, <1>7

\* What keeps a host calm leaves it proper.
LEMMA KeepsProper ==
    ASSUME NEW ids, NEW n, NEW h, NEW g, Keeps(h, g, n, ids)
    PROVE  Proper(h, g, n, ids)
BY DEF Keeps, Proper

\* One field of an entry is written.
LEMMA FieldWritten ==
    ASSUME NEW ids, NEW h \in Host(ids), NEW d \in Node, NEW b
    PROVE  /\ [h EXCEPT !.rt[d].repair = b]
                  = [h EXCEPT !.rt[d] = [h.rt[d] EXCEPT !.repair = b]]
           /\ [h EXCEPT !.rt[d].hello = b]
                  = [h EXCEPT !.rt[d] = [h.rt[d] EXCEPT !.hello = b]]
           /\ [h EXCEPT !.rt[d].prec = b]
                  = [h EXCEPT !.rt[d] = [h.rt[d] EXCEPT !.prec = b]]
OBVIOUS

\* packetFailed().
LEMMA PacketFailedProper ==
    ASSUME NEW ids, NEW n \in Node, NEW h, Well(h, n, ids), NEW c \in Choice,
           NEW p \in Datagram(ids), p.dst \in Node
    PROVE  Proper(h, PacketFailed(h, n, p, c), n, ids)
<1> DEFINE e == h.rt[p.dst]
           nbr == e.next
           q == PacketQueueAdd(h, p)
<1>1. p.src \in Node /\ h \in Host(ids) /\ h.seqno \in Nat
    BY Zenon DEF Datagram, Well, Host
<1>2. Queued(h, q, n, ids, p)
    BY PacketQueueAddQueued
<1>3. Well(q, n, ids) /\ q.rt = h.rt /\ q \in Host(ids)
    BY <1>2 DEF Queued, Well
<1>4. q.seqno = h.seqno /\ q.llfeedback = h.llfeedback
    BY <1>2 DEF Queued
<1>5. CASE Seeking(h, p.dst)
    BY <1>1, <1>3, <1>4, <1>5 DEF PacketFailed, Proper
<1>6. CASE ~ Seeking(h, p.dst) /\ (~ Valid(e) \/ ~ Valid(h.rt[nbr]))
    <2>1. PacketFailed(h, n, p, c) = h
        BY Zenon, <1>6 DEF PacketFailed
    <2> QED BY <1>1, <2>1 DEF Proper
<1>7. CASE ~ Seeking(h, p.dst) /\ Valid(e) /\ Valid(h.rt[nbr])
    <2>1. nbr \in Node
        BY <1>7 DEF Well, EntryOK, Valid
    <2>2. CASE e.hcnt > MAX_REPAIR_TTL
        <3>1. PacketFailed(h, n, p, c) = NeighborLinkBreak(h, n, nbr)
            <4>1. ~ (e.hcnt <= MAX_REPAIR_TTL)
                <5>1. e.hcnt \in Nat
                    BY DEF Well, Host, Entry
                <5> QED BY <2>2, <5>1, ParamsAreNumbers
            <4> QED BY <1>7, <4>1 DEF PacketFailed
        <3> HIDE DEF nbr
        <3>2. Broken(h, NeighborLinkBreak(h, n, nbr), n, ids)
            BY <2>1, NeighborLinkBreakKeeps
        <3> QED BY <1>1, <3>1, <3>2 DEF Broken, Proper
    <2>3. CASE e.hcnt <= MAX_REPAIR_TTL
        <3> DEFINE f == [q EXCEPT !.rt[nbr].repair = TRUE]
                   t == [q.rt[nbr] EXCEPT !.repair = TRUE]
                   b == NeighborLinkBreak(f, n, nbr)
        <3>1. PacketFailed(h, n, p, c) = RreqLocalRepair(b, n, p.dst, p.src, c)
            BY <1>7, <2>3 DEF PacketFailed
        <3> HIDE DEF nbr, q
        <3>2. f = [q EXCEPT !.rt[nbr] = t]
            BY <1>3, <2>1, FieldWritten
        <3>3. q.rt[nbr] \in Entry /\ EntryOK(q.rt[nbr])
            BY <1>3, <2>1 DEF Well, Host
        <3>4. /\ t \in Entry /\ t.state = q.rt[nbr].state
              /\ t.next = q.rt[nbr].next /\ t.timer = q.rt[nbr].timer
              /\ t.seqno = q.rt[nbr].seqno
            BY Zenon, <3>3, RepairEntry
        <3> HIDE DEF t, f
        <3>5. EntryOK(t)
            BY <3>3, <3>4 DEF EntryOK
        <3>6. Rewritten(q, f, n, ids, nbr, t, q.ip[nbr])
            BY Zenon, <1>3, <2>1, <3>2, <3>4, <3>5, RtWritten
        <3>7. /\ Well(f, n, ids) /\ f.seqno = h.seqno
              /\ f.llfeedback = h.llfeedback
            BY <1>4, <3>6 DEF Rewritten, Routed
        <3>8. Broken(f, b, n, ids)
            BY <2>1, <3>7, NeighborLinkBreakKeeps
        <3> HIDE DEF b
        <3>9. /\ Well(b, n, ids) /\ b.seqno = h.seqno
              /\ b.llfeedback = h.llfeedback
            BY <3>7, <3>8 DEF Broken
        <3>10. Proper(b, RreqLocalRepair(b, n, p.dst, p.src, c), n, ids)
            BY <1>1, <3>9, RreqLocalRepairProper
        <3> QED BY <3>1, <3>9, <3>10 DEF Proper
    <2>4. e.hcnt \in Nat /\ MAX_REPAIR_TTL \in Nat
        BY ParamsAreNumbers DEF Well, Host, Entry
    <2> QED BY <2>2, <2>3, <2>4
<1> QED BY <1>5, <1>6, <1>7

\* packet_queue_timeout(): nothing that is sought leaves.
LEMMA PacketQueueGarbageCollectKeeps ==
    ASSUME NEW ids, NEW n \in Node, NEW h, Well(h, n, ids)
    PROVE  Keeps(h, PacketQueueGarbageCollect(h), n, ids)
<1> DEFINE D == {d \in Node : Seeking(h, d)}
           K == {p \in Datagram(ids) : p.dst \in D}
           Q == PacketsFor(h.queue, D)
           g == [h EXCEPT !.queue = Q]
<1>1. h \in Host(ids) /\ h.queue \in Seq(Datagram(ids)) /\ h.seqno \in Nat
    BY DEF Well, Host
<1>2. PacketQueueGarbageCollect(h) = g
    BY <1>1 DEF PacketQueueGarbageCollect, Host
<1> HIDE DEF D
<1>3. Q \in Seq(K) /\ Len(Q) <= Len(h.queue)
    BY <1>1, PacketsForType
<1> HIDE DEF Q
<1>4. Q \in Seq(Datagram(ids)) /\ Len(Q) \in Nat /\ Len(h.queue) \in Nat
    <2>1. K \subseteq Datagram(ids)
        OBVIOUS
    <2> HIDE DEF K
    <2> QED BY <1>1, <1>3, <2>1
<1>5. g \in Host(ids)
    BY Zenon, <1>1, <1>4 DEF Host
<1>6. /\ g.seqno = h.seqno /\ g.llfeedback = h.llfeedback /\ g.rt = h.rt
      /\ g.ip = h.ip /\ g.out = h.out /\ g.queue = Q /\ g.seek = h.seek
    BY <1>1 DEF Host
<1> HIDE DEF g
<1>7. Well(g, n, ids)
    <2>1. Len(Q) <= MAX_QUEUE_LENGTH
        BY <1>3, <1>4, ParamsAreNumbers DEF Well
    <2> QED BY <1>5, <1>6, <2>1 DEF Well
<1>8. Calm(h) => Calm(g)
    <2>1. \A i \in DOMAIN Q : Q[i].dst \in D
        BY <1>3
    <2>2. \A x : Seeking(g, x) <=> Seeking(h, x)
        BY <1>6 DEF Seeking
    <2> QED BY <1>6, <2>1, <2>2 DEF Calm, D
<1> QED BY <1>1, <1>2, <1>6, <1>7, <1>8 DEF Keeps

(***************************************************************************)
(* Timers                                                                   *)
(***************************************************************************)
\* local_repair_timeout() of a route that is not valid.
LEMMA LocalRepairTimeoutKeeps ==
    ASSUME NEW ids, NEW n \in Node, NEW h, Well(h, n, ids), NEW d \in Node,
           Calm(h) => ~ Valid(h.rt[d])
    PROVE  Keeps(h, LocalRepairTimeout(h, n, d), n, ids)
<1> DEFINE e == h.rt[d]
           t == [e EXCEPT !.repair = FALSE, !.prec = {}, !.timer = "delete"]
           g == [h EXCEPT !.rt[d] = t, !.ip[d] = None]
           hop == IF Single(e.prec)
                  THEN CHOOSE k \in e.prec : TRUE ELSE None
           u == <<d, e.seqno>>
           m == [type |-> "RERR", n |-> FALSE, udest |-> {u}]
<1>1. /\ h \in Host(ids) /\ e \in Entry /\ EntryOK(e) /\ h.seqno \in Nat
      /\ e.prec \subseteq Node
    BY Zenon DEF Well, Host, Entry
<1>2. /\ t \in Entry /\ t.state = e.state /\ t.next = e.next
      /\ t.seqno = e.seqno /\ t.timer = "delete" /\ t.repair = FALSE
      /\ t.hello = e.hello /\ t.hcnt = e.hcnt
    <2> HIDE DEF e
    <2> QED BY Zenon, <1>1 DEF Entry
<1>3. LocalRepairTimeout(h, n, d) =
          IF e.prec = {} THEN g ELSE Send(g, n, hop, 1, m)
    BY DEF LocalRepairTimeout
<1>4. u \in Node \X Nat
    BY DEF Well, Host, Entry
<1> HIDE DEF t, u
<1>5. EntryOK(t) /\ (CalmEntry(e) => CalmEntry(t)) /\ (Valid(t) <=> Valid(e))
    BY <1>1, <1>2 DEF EntryOK, CalmEntry, Valid
<1>6. Rewritten(h, g, n, ids, d, t, None)
    BY Zenon, <1>2, <1>5, BothWritten
<1> HIDE DEF g
<1>7. ASSUME Calm(h) PROVE Calm(g)
    <2>1. CalmEntry(t) /\ ~ Valid(t)
        BY <1>5, <1>7 DEF Calm
    <2> QED BY <1>6, <1>7, <2>1, RewrittenCalm
<1>8. Keeps(h, g, n, ids)
    BY <1>1, <1>6, <1>7 DEF Rewritten, Routed, Keeps
<1>9. CASE e.prec = {}
    BY <1>3, <1>8, <1>9
<1>10. CASE e.prec # {}
    <2>1. hop \in Node \cup {None}
        BY <1>1, <1>10
    <2>2. m \in Message(ids)
        BY <1>4 DEF Message
    <2> HIDE DEF hop, m
    <2>3. Well(g, n, ids) /\ g \in Host(ids)
        BY <1>8 DEF Keeps, Well
    <2>4. Sent(g, Send(g, n, hop, 1, m), n, ids)
        BY <2>1, <2>2, <2>3, SendSent
    <2>5. Keeps(g, Send(g, n, hop, 1, m), n, ids)
        BY <2>3, <2>4, SentKeeps
    <2>6. Keeps(h, Send(g, n, hop, 1, m), n, ids)
        BY <1>1, <1>8, <2>5, KeepsTransitive
    <2> QED BY <1>3, <1>10, <2>6
<1> QED BY <1>9, <1>10

\* route_expire_timeout().
LEMMA RouteExpireTimeoutKeeps ==
    ASSUME NEW ids, NEW n \in Node, NEW h, Well(h, n, ids), NEW d \in Node
    PROVE  Keeps(h, RouteExpireTimeout(h, n, d), n, ids)
<1>1. h \in Host(ids)
    BY DEF Well
<1>2. CASE h.rt[d].hcnt = 1
    <2> DEFINE k == NeighborLinkBreak(h, n, d)
    <2>1. RouteExpireTimeout(h, n, d) = k
        BY <1>2 DEF RouteExpireTimeout
    <2>2. Broken(h, k, n, ids) /\ (Breaking(h, d) => Calm(k))
        BY NeighborLinkBreakKeeps
    <2> HIDE DEF k
    <2>3. Calm(h) => \A x \in Node : CalmEntry(k.rt[x])
        BY Zenon, <2>2, CalmBreaking DEF Calm
    <2> QED BY <1>1, <2>1, <2>2, <2>3, BrokenKeeps
<1>3. CASE h.rt[d].hcnt # 1
    <2> DEFINE i == RtTableInvalidate(h, d)
               g == [i EXCEPT !.rt[d].prec = {}]
               t == [i.rt[d] EXCEPT !.prec = {}]
    <2>1. RouteExpireTimeout(h, n, d) = g
        BY <1>3 DEF RouteExpireTimeout
    <2>2. /\ Broken(h, i, n, ids)
          /\ Valid(h.rt[d]) => CalmEntry(i.rt[d])
          /\ ~ Valid(h.rt[d]) => i.rt[d] = h.rt[d]
          /\ \A x \in Node \ {d} : i.rt[x] = h.rt[x]
        BY RtTableInvalidateBroken
    <2> HIDE DEF i
    <2>3. Calm(h) => \A x \in Node : CalmEntry(i.rt[x])
        BY <2>2 DEF Calm
    <2>4. Keeps(h, i, n, ids)
        BY <1>1, <2>2, <2>3, BrokenKeeps
    <2>5. /\ Well(i, n, ids) /\ i \in Host(ids)
          /\ i.rt[d] \in Entry /\ EntryOK(i.rt[d])
        BY Zenon, <2>4 DEF Keeps, Well, Host
    <2>6. g = [i EXCEPT !.rt[d] = t]
        BY <2>5, FieldWritten
    <2>7. /\ t \in Entry /\ t.state = i.rt[d].state /\ t.next = i.rt[d].next
          /\ EntryOK(t) /\ (CalmEntry(i.rt[d]) => CalmEntry(t))
        BY <2>5, PurgedEntry
    <2> HIDE DEF t, g
    <2>8. Keeps(i, g, n, ids)
        BY <2>5, <2>6, <2>7, FlagWritten DEF Steady
    <2> QED BY <1>1, <2>1, <2>4, <2>8, KeepsTransitive
<1> QED BY <1>2, <1>3

\* route_delete_timeout().
LEMMA RouteDeleteTimeoutKeeps ==
    ASSUME NEW ids, NEW n \in Node, NEW h, Well(h, n, ids), NEW d \in Node
    PROVE  Keeps(h, RouteDeleteTimeout(h, d), n, ids)
<1> DEFINE k == IF Valid(h.rt[d]) THEN None ELSE h.ip[d]
           g == [h EXCEPT !.rt[d] = NoRoute, !.ip[d] = k]
<1>1. h \in Host(ids) /\ h.seqno \in Nat /\ k \in Node \cup {None}
    BY DEF Well, Host
<1>2. RouteDeleteTimeout(h, d) = g
    BY <1>1 DEF RouteDeleteTimeout, Host
<1> HIDE DEF k
<1>3. NoRoute \in Entry
    BY DEF NoRoute, Entry
<1>4. EntryOK(NoRoute) /\ CalmEntry(NoRoute) /\ ~ Valid(NoRoute)
    BY DEF NoRoute, EntryOK, CalmEntry, Valid
<1>5. Rewritten(h, g, n, ids, d, NoRoute, k)
    BY Zenon, <1>1, <1>3, <1>4, BothWritten
<1> HIDE DEF g
<1>6. Calm(h) => Calm(g)
    BY <1>4, <1>5, RewrittenCalm
<1> QED BY <1>1, <1>2, <1>5, <1>6 DEF Rewritten, Routed, Keeps

\* rt_timer of an entry.
LEMMA RouteTimeoutKeeps ==
    ASSUME NEW ids, NEW n \in Node, NEW h, Well(h, n, ids), NEW d \in Node,
           h.rt[d].state # "NONE"
    PROVE  Keeps(h, RouteTimeout(h, n, d), n, ids)
<1>1. h.rt[d].timer \in {"expire", "repair", "delete"}
    BY DEF Well, Host, Entry, EntryOK
<1>2. CASE h.rt[d].timer = "expire"
    BY <1>2, RouteExpireTimeoutKeeps DEF RouteTimeout
<1>3. CASE h.rt[d].timer = "repair"
    <2>1. Calm(h) => ~ Valid(h.rt[d])
        BY <1>3 DEF Calm, CalmEntry, Valid
    <2> QED BY <1>3, <2>1, LocalRepairTimeoutKeeps DEF RouteTimeout
<1>4. CASE h.rt[d].timer = "delete"
    BY <1>4, RouteDeleteTimeoutKeeps DEF RouteTimeout
<1> QED BY <1>1, <1>2, <1>3, <1>4

\* hello_timeout() of an entry whose hello_timer runs.
LEMMA HelloTimeoutKeeps ==
    ASSUME NEW ids, NEW n \in Node, NEW h, Well(h, n, ids), NEW d \in Node,
           h.rt[d].hello
    PROVE  Keeps(h, HelloTimeout(h, n, d), n, ids)
<1> DEFINE e == h.rt[d]
           t == [e EXCEPT !.hello = FALSE]
           g == [h EXCEPT !.rt[d].hello = FALSE]
<1>1. h \in Host(ids) /\ e \in Entry /\ EntryOK(e) /\ e.hello
    BY DEF Well, Host
<1>2. g = [h EXCEPT !.rt[d] = t]
    BY <1>1, FieldWritten
<1>3. /\ t \in Entry /\ t.state = e.state /\ t.next = e.next
      /\ t.seqno = e.seqno /\ t.timer = e.timer /\ t.repair = e.repair
      /\ t.hello = FALSE /\ t.hcnt = e.hcnt
    <2> HIDE DEF e
    <2> QED BY Zenon, <1>1 DEF Entry
<1>4. EntryOK(t) /\ (CalmEntry(e) => CalmEntry(t))
    <2> HIDE DEF t
    <2> QED BY <1>1, <1>3 DEF EntryOK, CalmEntry
<1>5. /\ HelloTimeout(h, n, d) =
          IF ~ Valid(e) THEN g
          ELSE NeighborLinkBreak([g EXCEPT !.rt[d].repair =
                                    @ \/ e.hcnt <= MAX_REPAIR_TTL], n, d)
    BY DEF HelloTimeout
<1> HIDE DEF t, g
<1>6. Keeps(h, g, n, ids) /\ Rewritten(h, g, n, ids, d, t, h.ip[d])
    BY Zenon, <1>2, <1>3, <1>4, FlagWritten DEF Steady
<1>7. CASE ~ Valid(e)
    BY <1>5, <1>6, <1>7
<1>8. CASE Valid(e)
    <2> DEFINE b == g.rt[d].repair \/ e.hcnt <= MAX_REPAIR_TTL
               w == [g.rt[d] EXCEPT !.repair = b]
               f == [g EXCEPT !.rt[d].repair = b]
               k == NeighborLinkBreak(f, n, d)
    <2>1. g.rt[d] = t /\ Well(g, n, ids) /\ g \in Host(ids)
        BY <1>6 DEF Rewritten, Routed, Well
    <2>2. HelloTimeout(h, n, d) = k
        BY <1>5, <1>8, <2>1 DEF Host
    <2>3. b \in BOOLEAN
        BY <1>3, <2>1 DEF Entry
    <2> HIDE DEF b
    <2>4. f = [g EXCEPT !.rt[d] = w]
        BY <2>1, FieldWritten
    <2>5. /\ w \in Entry /\ w.state = t.state /\ w.next = t.next
          /\ w.hcnt = t.hcnt /\ w.timer = t.timer /\ w.hello = t.hello
          /\ w.seqno = t.seqno
        BY <1>3, <2>1, <2>3, RepairEntry
    <2> HIDE DEF w, f
    <2>6. EntryOK(w)
        BY <1>4, <2>5 DEF EntryOK
    <2>7. Rewritten(g, f, n, ids, d, w, g.ip[d])
        BY Zenon, <2>1, <2>4, <2>5, <2>6, RtWritten
    <2>8. Well(f, n, ids) /\ f.seqno = g.seqno /\ f.llfeedback = g.llfeedback
        BY <2>7 DEF Rewritten, Routed
    <2>9. Broken(f, k, n, ids) /\ (Breaking(f, d) => Calm(k))
        BY <2>8, NeighborLinkBreakKeeps
    <2> HIDE DEF k
    <2>10. ASSUME Calm(h) PROVE Breaking(f, d)
        <3>1. Calm(g)
            BY <1>6, <2>10 DEF Keeps
        <3>2. CalmEntry(e) /\ e.hcnt = 1
            BY Zenon, <1>1, <2>10 DEF Calm, CalmEntry
        <3>3. /\ f.rt[d] = w /\ f.ip[d] = g.ip[d] /\ f.seek = g.seek
              /\ f.queue = g.queue
              /\ \A x \in Node \ {d} : f.rt[x] = g.rt[x] /\ f.ip[x] = g.ip[x]
            BY <2>7 DEF Rewritten, Routed
        <3>4. \A x : Seeking(f, x) <=> Seeking(g, x)
            BY <3>3 DEF Seeking
        <3>5. Valid(w) /\ w.hcnt = 1 /\ ~ w.hello /\ w.next = g.rt[d].next
              /\ w.timer = g.rt[d].timer /\ w.state = g.rt[d].state
            BY <1>3, <1>8, <2>1, <2>5, <3>2 DEF Valid
        <3>6. ASSUME NEW x \in Node
              PROVE  /\ x # d => CalmEntry(f.rt[x])
                     /\ f.rt[x].hello => f.rt[x].hcnt = 1
                     /\ f.rt[x].timer = "repair" => f.rt[x].state = "INVALID"
                     /\ f.rt[x].repair => \/ f.rt[x].state = "INVALID"
                                          \/ Valid(f.rt[x]) /\ f.rt[x].hcnt = 1
            <4>1. CalmEntry(g.rt[x])
                BY Zenon, <3>1 DEF Calm
            <4>2. CASE x = d
                BY <3>3, <3>5, <4>1, <4>2 DEF CalmEntry
            <4>3. CASE x # d
                BY <3>3, <4>1, <4>3 DEF CalmEntry
            <4> QED BY <4>2, <4>3
        <3>7. ASSUME NEW x \in Node
              PROVE  Valid(f.rt[x]) <=> Valid(g.rt[x])
            BY <3>3, <3>5 DEF Valid
        <3>8. ASSUME NEW x \in Node
              PROVE  Valid(f.rt[x]) => f.ip[x] = f.rt[x].next
            <4>1. f.ip[x] = g.ip[x] /\ f.rt[x].next = g.rt[x].next
                BY <3>3, <3>5
            <4> QED BY Zenon, <3>1, <3>7, <4>1 DEF Calm
        <3>9. ASSUME NEW x \in Node
              PROVE  Seeking(f, x) => ~ Valid(f.rt[x])
            BY Zenon, <3>1, <3>4, <3>7 DEF Calm
        <3>10. \A i \in DOMAIN f.queue : f.queue[i].dst \in Node /\ Seeking(f, f.queue[i].dst)
            BY Zenon, <3>1, <3>3, <3>4 DEF Calm
        <3> QED BY Zenon, <3>6, <3>8, <3>9, <3>10 DEF Breaking
    <2>11. h.seqno \in Nat /\ k.seqno \in Nat /\ g.seqno \in Nat
        BY Zenon, <1>1, <2>1, <2>9 DEF Host, Broken, Well
    <2>12. k.seqno >= h.seqno /\ k.llfeedback = h.llfeedback
        BY Zenon, <1>6, <2>8, <2>9, <2>11 DEF Broken, Keeps
    <2> QED BY <2>2, <2>9, <2>10, <2>12 DEF Broken, Keeps
<1> QED BY <1>7, <1>8

\* route_discovery_timeout() of a search that goes on.
LEMMA RouteDiscoveryTimeoutKeeps ==
    ASSUME NEW ids, NEW n \in Node, NEW h, Well(h, n, ids), NEW c \in Choice,
           NEW d \in Node, Seeking(h, d)
    PROVE  Keeps(h, RouteDiscoveryTimeout(h, n, d, c), n, ids)
<1> DEFINE k == h.seek[d]
           next == IF k.ttl < TTL_THRESHOLD
                   THEN [k EXCEPT !.ttl = @ + TTL_INCREMENT]
                   ELSE [k EXCEPT !.ttl = NET_DIAMETER, !.reqs = @ + 1]
           over == [h EXCEPT !.seek[d] = NoSeek,
                             !.queue = PacketsFor(@, Node \ {d})]
           f == [h EXCEPT !.seek[d] = next]
<1>1. /\ h \in Host(ids) /\ h.seqno \in Nat
      /\ k \in [ttl : Nat, reqs : Nat, seqno : Nat]
    BY DEF Well, Host
<1>2. CASE k.reqs < RREQ_RETRIES
    <2> DEFINE g == RreqSend(f, n, d, k.seqno, next.ttl, c)
    <2>1. RouteDiscoveryTimeout(h, n, d, c) = g
        BY <1>2 DEF RouteDiscoveryTimeout
    <2>2. next \in [ttl : Nat, reqs : Nat, seqno : Nat] /\ next # NoSeek
        <3> HIDE DEF k
        <3>1. CASE k.ttl < TTL_THRESHOLD
            BY <1>1, <3>1, ParamsAreNumbers DEF NoSeek
        <3>2. CASE ~ (k.ttl < TTL_THRESHOLD)
            <4>1. k \in [ttl : Nat, reqs : Nat, seqno : Nat]
                BY <1>1
            <4>2. next = [ttl |-> NET_DIAMETER, reqs |-> k.reqs + 1,
                          seqno |-> k.seqno]
                BY Zenon, <3>2, <4>1
            <4> HIDE DEF next
            <4>3. k.reqs \in Nat /\ k.seqno \in Nat /\ NET_DIAMETER \in Nat
                BY <4>1, ParamsAreNumbers
            <4> QED BY <4>2, <4>3 DEF NoSeek
        <3> QED BY <3>1, <3>2
    <2>3. k.seqno \in Nat
        BY <1>1
    <2> HIDE DEF next, k
    <2>4. /\ Well(f, n, ids)
          /\ f.seqno = h.seqno /\ f.llfeedback = h.llfeedback
          /\ Waiting(h, d) /\ ~ Valid(h.rt[d]) => Calm(f)
        BY <2>2, SeekWritten
    <2> HIDE DEF f
    <2>5. Calm(h) => Calm(f)
        BY Zenon, <2>4 DEF Calm, Waiting
    <2>6. Keeps(f, g, n, ids)
        <3>1. next.ttl \in Nat
            BY <2>2
        <3> QED BY <2>3, <2>4, <3>1, RreqSendAdvanced, AdvancedKeeps
    <2> HIDE DEF g
    <2>7. Keeps(h, f, n, ids)
        BY <1>1, <2>4, <2>5 DEF Keeps
    <2> QED BY <1>1, <2>1, <2>6, <2>7, KeepsTransitive
<1>3. CASE ~ (k.reqs < RREQ_RETRIES)
    <2>1. RouteDiscoveryTimeout(h, n, d, c) =
              IF h.rt[d].repair THEN LocalRepairTimeout(over, n, d) ELSE over
        BY <1>3 DEF RouteDiscoveryTimeout
    <2>2. Released(h, over, n, ids, d)
        BY Zenon, SearchOver
    <2> HIDE DEF over
    <2>3. Calm(h) => CalmBut(h, d)
        BY DEF Calm, CalmBut
    <2>4. Keeps(h, over, n, ids) /\ over.rt = h.rt
        BY <1>1, <2>2, <2>3 DEF Released, Keeps
    <2>5. ASSUME h.rt[d].repair
          PROVE  Keeps(h, LocalRepairTimeout(over, n, d), n, ids)
        <3>1. Calm(over) => ~ Valid(over.rt[d])
            BY <2>4, <2>5 DEF Calm, CalmEntry, Valid
        <3>2. Keeps(over, LocalRepairTimeout(over, n, d), n, ids)
            BY <2>4, <3>1, LocalRepairTimeoutKeeps DEF Keeps
        <3> QED BY <1>1, <2>4, <3>2, KeepsTransitive
    <2> QED BY <2>1, <2>4, <2>5
<1> QED BY Zenon, <1>2, <1>3

(***************************************************************************)
(* The inductive invariant                                                  *)
(***************************************************************************)
\* The host n between two handlers.
HostOK(h, n, ids) ==
    /\ Well(h, n, ids) /\ h.out = {}
    /\ ~ h.llfeedback => Calm(h)

\* Only what a host hands to its own IP may have no hop left.
FrameOK(e, ids) ==
    /\ e \in [from : Node, to : Node, p : Datagram(ids)]
    /\ e.from # e.to => e.p.ttl > 0

HostsOK == /\ host \in [Node -> Host(1 .. sent)]
           /\ \A n \in Node : HostOK(host[n], n, 1 .. sent)

FramesOK == \A e \in net : FrameOK(e, 1 .. sent)

RestOK == /\ links \subseteq SUBSET Node
          /\ sent \in 0 .. Len(Flows) /\ arrived \subseteq 1 .. sent
          /\ spent \in [Budgets -> Nat]

IInv == HostsOK /\ FramesOK /\ RestOK

\* What every step does to every host.
Forward ==
    \A n \in Node : /\ host'[n].seqno >= host[n].seqno
                    /\ host'[n].llfeedback = host[n].llfeedback

(***************************************************************************)
(* Datagrams that are sent later are no reason to doubt the earlier ones    *)
(***************************************************************************)
\* A message that was one stays one when more datagrams have been sent.
LEMMA DatagramsGrow ==
    ASSUME NEW I, NEW J, I \subseteq J
    PROVE  Datagram(I) \subseteq Datagram(J)
<1>1. Message(I) \subseteq Message(J)
    BY DEF Message
<1> QED BY <1>1 DEF Datagram

\* And so does a host.
LEMMA HostsGrow ==
    ASSUME NEW I, NEW J, I \subseteq J
    PROVE  /\ Host(I) \subseteq Host(J)
           /\ \A h, n : Well(h, n, I) => Well(h, n, J)
<1>1. Datagram(I) \subseteq Datagram(J)
    BY DatagramsGrow
<1>2. Seq(Datagram(I)) \subseteq Seq(Datagram(J))
    <2> SUFFICES ASSUME NEW q \in Seq(Datagram(I))
                 PROVE  q \in Seq(Datagram(J))
        OBVIOUS
    <2> QED BY <1>1
<1>3. Host(I) \subseteq Host(J)
    BY <1>1, <1>2 DEF Host
<1> QED BY <1>3 DEF Well

(***************************************************************************)
(* Steps of a host                                                          *)
(***************************************************************************)
\* IP::routePacket keeps the host, whatever the datagram.
LEMMA RoutePacketKeeps ==
    ASSUME NEW ids, NEW n \in Node, NEW h, Well(h, n, ids), NEW c \in Choice,
           NEW p \in Datagram(ids)
    PROVE  Keeps(h, RoutePacket(h, n, p, c), n, ids)
<1>1. /\ p.src \in Node /\ p.dst \in Node \cup {None} /\ p.ttl \in Nat
      /\ p.body \in Message(ids) /\ h \in Host(ids)
    BY DEF Datagram, Well
<1>2. Keeps(h, h, n, ids)
    BY <1>1, WellSent, SentKeeps
<1>3. CASE p.dst \in {n, None} /\ p.body.type \in Control
    <2>1. RoutePacket(h, n, p, c) = ProcessPacket(h, n, p.src, p.body, p.ttl, c)
        BY <1>3 DEF RoutePacket
    <2>2. p.body.type # "DATA"
        BY <1>3 DEF Control
    <2> QED BY <1>1, <2>1, <2>2, ProcessPacketKeeps
<1>4. CASE p.dst \in {n, None} /\ p.body.type \notin Control
    BY <1>2, <1>4 DEF RoutePacket
<1>5. CASE p.dst \notin {n, None} /\ h.ip[p.dst] = None
    <2>1. RoutePacket(h, n, p, c) = NoRouteFor(h, n, p, c)
        BY <1>5 DEF RoutePacket
    <2> QED BY <1>1, <1>5, <2>1, NoRouteForKeeps
<1>6. CASE p.dst \notin {n, None} /\ h.ip[p.dst] # None /\ p.ttl = 0
    BY <1>2, <1>6 DEF RoutePacket
<1>7. CASE p.dst \notin {n, None} /\ h.ip[p.dst] # None /\ p.ttl # 0
    <2> DEFINE o == [p EXCEPT !.hop = h.ip[p.dst]]
               g == [h EXCEPT !.out = @ \cup {o}]
    <2>1. RoutePacket(h, n, p, c) = g
        BY <1>7 DEF RoutePacket
    <2>2. h.ip[p.dst] \in Node
        BY <1>1, <1>7 DEF Host
    <2>3. o \in Datagram(ids) /\ o.ttl > 0
        BY <1>1, <1>7, <2>2 DEF Datagram
    <2> HIDE DEF o
    <2>4. g \in Host(ids)
        BY Zenon, <1>1, <2>3 DEF Host
    <2>5. /\ g.rt = h.rt /\ g.queue = h.queue /\ g.out = h.out \cup {o}
          /\ g.seqno = h.seqno /\ g.llfeedback = h.llfeedback /\ g.ip = h.ip
          /\ g.seek = h.seek
        BY <1>1 DEF Host
    <2> HIDE DEF g
    <2>6. Well(g, n, ids)
        BY <2>3, <2>4, <2>5 DEF Well
    <2>7. Sent(h, g, n, ids)
        BY <2>5, <2>6 DEF Sent
    <2> QED BY <1>1, <2>1, <2>7, SentKeeps
<1> QED BY <1>3, <1>4, <1>5, <1>6, <1>7

\* One host takes a step and what it sends is in flight.
LEMMA BecomesOK ==
    ASSUME IInv, NEW n \in Node, NEW g, NEW used, sent' \in {sent, sent + 1},
           Proper(host[n], g, n, 1 .. sent'), ~ g.llfeedback => Calm(g),
           Become(n, g, used)
    PROVE  HostsOK' /\ FramesOK' /\ Forward
<1> DEFINE ids == 1 .. sent'
           k == [g EXCEPT !.out = {}]
<1>1. sent \in Nat /\ 1 .. sent \subseteq ids
    BY DEF IInv, RestOK
<1>2. /\ host' = [host EXCEPT ![n] = k]
      /\ net' = (net \ used) \cup UNION {Frames(n, o) : o \in g.out}
    BY DEF Become
<1> HIDE DEF ids
<1>3. /\ Well(g, n, ids) /\ g \in Host(ids) /\ g.seqno >= host[n].seqno
      /\ g.llfeedback = host[n].llfeedback
    BY DEF Proper, Well, ids
<1>4. k \in Host(ids)
    BY Zenon, <1>3 DEF Host
<1>5. /\ k.rt = g.rt /\ k.queue = g.queue /\ k.ip = g.ip /\ k.seek = g.seek
      /\ k.seqno = g.seqno /\ k.llfeedback = g.llfeedback /\ k.out = {}
    BY <1>3 DEF Host
<1> HIDE DEF k
<1>6. HostOK(k, n, ids)
    <2>1. Well(k, n, ids)
        BY <1>3, <1>4, <1>5 DEF Well
    <2>2. Calm(g) => Calm(k)
        BY <1>5 DEF Calm, Seeking
    <2> QED BY <1>5, <2>1, <2>2 DEF HostOK
<1>7. /\ host \in [Node -> Host(1 .. sent)]
      /\ \A m \in Node : HostOK(host[m], m, 1 .. sent)
    BY DEF IInv, HostsOK
<1>8. /\ Host(1 .. sent) \subseteq Host(ids)
      /\ \A m \in Node : HostOK(host[m], m, ids)
    BY <1>1, <1>7, HostsGrow DEF HostOK
<1>9. HostsOK'
    <2>1. host' \in [Node -> Host(ids)]
        BY <1>2, <1>4, <1>7, <1>8
    <2>2. \A m \in Node : HostOK(host'[m], m, ids)
        BY <1>2, <1>6, <1>7, <1>8
    <2> QED BY <2>1, <2>2 DEF HostsOK, ids
<1>10. Forward
    <2>1. \A m \in Node : host[m].seqno \in Nat
        BY <1>7 DEF Host
    <2>2. \A m \in Node : host'[m] = IF m = n THEN k ELSE host[m]
        BY <1>2, <1>7
    <2> QED BY SMTT(30), <1>3, <1>5, <2>1, <2>2 DEF Forward
<1>11. FramesOK'
    <2>1. SUFFICES ASSUME NEW e \in net' PROVE FrameOK(e, ids)
        BY DEF FramesOK, ids
    <2>2. CASE e \in net
        <3>1. FrameOK(e, 1 .. sent)
            BY <2>2 DEF IInv, FramesOK
        <3> QED BY <1>1, <3>1, DatagramsGrow DEF FrameOK
    <2>3. CASE e \notin net
        <3>1. PICK o \in g.out : e \in Frames(n, o)
            BY <1>2, <2>3
        <3>2. /\ o \in Datagram(ids) /\ o.hop \in Node \cup {None}
              /\ o.hop = n \/ o.ttl > 0
            BY <1>3, <3>1 DEF Well, Host, Datagram
        <3>3. PICK m : /\ e = [from |-> n, to |-> m, p |-> o]
                       /\ m \in IF o.hop = None
                                THEN {x \in Node : {x, n} \in links}
                                ELSE {o.hop}
            BY Zenon, <3>1 DEF Frames
        <3>4. m \in Node /\ (m # n => o.ttl > 0)
            BY <3>2, <3>3, NoneIsNoNode
        <3> QED BY <3>2, <3>3, <3>4 DEF FrameOK
    <2> QED BY <2>2, <2>3
<1> QED BY <1>9, <1>10, <1>11

\* The same for a handler that keeps the host.
LEMMA KeepingOK ==
    ASSUME IInv, NEW n \in Node, NEW g, NEW used, sent' \in {sent, sent + 1},
           Keeps(host[n], g, n, 1 .. sent'), Become(n, g, used)
    PROVE  HostsOK' /\ FramesOK' /\ Forward
<1>1. Proper(host[n], g, n, 1 .. sent')
    BY KeepsProper
<1>2. ~ g.llfeedback => Calm(g)
    BY DEF IInv, HostsOK, HostOK, Keeps
<1> QED BY <1>1, <1>2, BecomesOK

\* The budgets stay numbers.
LEMMA PayOK ==
    ASSUME IInv, NEW B, Pay(B)
    PROVE  spent' \in [Budgets -> Nat]
<1>1. spent \in [Budgets -> Nat]
    BY DEF IInv, RestOK
<1> DEFINE due == IF B = {} THEN {} ELSE B \cup {"any"}
           k(b) == IF b \in due THEN 1 ELSE 0
<1>2. spent' = [b \in Budgets |-> spent[b] + k(b)]
    BY DEF Pay
<1>3. \A b \in Budgets : spent[b] + k(b) \in Nat
    BY <1>1
<1> QED BY <1>2, <1>3

\* What the network keeps while no datagram leaves or arrives and no link
\* changes.
LEMMA RestKept ==
    ASSUME IInv, NEW B, Pay(B), UNCHANGED <<links, sent, arrived>>
    PROVE  RestOK'
BY PayOK DEF IInv, RestOK

(***************************************************************************)
(* Actions                                                                  *)
(***************************************************************************)
\* Before the first step.
LEMMA InitOK == Init => IInv
<1> SUFFICES ASSUME Init PROVE IInv
    OBVIOUS
<1>1. PICK l \in Feedback : host = [n \in Node |-> InitHost(l)]
    BY DEF Init
<1> DEFINE h == InitHost(l)
<1>2. l \in BOOLEAN /\ sent = 0 /\ net = {} /\ arrived = {}
    BY NetworkIsWellFormed DEF Init
<1>3. NoRoute \in Entry
    BY DEF NoRoute, Entry
<1>4. EntryOK(NoRoute) /\ CalmEntry(NoRoute) /\ ~ Valid(NoRoute)
    BY DEF NoRoute, EntryOK, CalmEntry, Valid
<1>5. /\ h.seqno = 1 /\ h.rreqId = 0 /\ h.rt = [d \in Node |-> NoRoute]
      /\ h.ip = [d \in Node |-> None] /\ h.seek = [d \in Node |-> NoSeek]
      /\ h.queue = <<>> /\ h.out = {} /\ h.llfeedback = l
    BY DEF InitHost
<1>6. h \in Host(1 .. sent)
    <2>1. NoSeek \in [ttl : Nat, reqs : Nat, seqno : Nat]
        BY DEF NoSeek
    <2>2. <<>> \in Seq(Datagram(1 .. sent))
        OBVIOUS
    <2> QED BY <1>2, <1>3, <2>1, <2>2 DEF InitHost, Host
<1> HIDE DEF h
<1>7. \A n \in Node : HostOK(h, n, 1 .. sent)
    <2>1. Len(h.queue) = 0 /\ DOMAIN h.queue = {}
        BY <1>5
    <2>2. Calm(h)
        BY <1>4, <1>5, <2>1 DEF Calm, Seeking
    <2> QED BY SMTT(30), <1>4, <1>5, <1>6, <2>1, <2>2, ParamsAreNumbers DEF HostOK, Well
<1>8. HostsOK
    BY <1>1, <1>6, <1>7 DEF HostsOK, h
<1>9. RestOK
    <2>1. links \subseteq SUBSET Node
        BY Zenon, NetworkIsWellFormed DEF Init
    <2>2. Len(Flows) \in Nat
        BY NetworkIsWellFormed
    <2> QED BY <1>2, <2>1, <2>2 DEF Init, RestOK
<1> QED BY <1>2, <1>8, <1>9 DEF IInv, FramesOK

\* An application sends.
LEMMA AppSendOK ==
    ASSUME IInv, NEW c \in Choice, AppSend(c)
    PROVE  IInv' /\ Forward
<1> DEFINE ids == 1 .. sent'
           f == Flows[sent']
           b == [type |-> "DATA", id |-> sent']
           p == [hop |-> f[1], src |-> f[1], dst |-> f[2], ttl |-> DataTTL,
                 body |-> b]
           g == RoutePacket(host[f[1]], f[1], p, c)
<1>1. /\ sent < Len(Flows) /\ sent' = sent + 1 /\ links' = links
      /\ arrived' = arrived /\ Pay(Race \cup Garbage(c))
    BY DEF AppSend
<1>2. sent \in Nat /\ Len(Flows) \in Nat /\ sent' \in 1 .. Len(Flows)
    BY <1>1, NetworkIsWellFormed DEF IInv, RestOK
<1>3. Become(f[1], g, {})
    BY DEF AppSend
<1>4. f \in Node \X Node
    BY <1>2, NetworkIsWellFormed
<1> HIDE DEF f
<1>5. f[1] \in Node /\ f[2] \in Node
    BY <1>4
<1>6. b \in Message(ids)
    BY <1>2 DEF Message
<1> HIDE DEF b
<1>7. p \in Datagram(ids)
    BY <1>5, <1>6, NetworkIsWellFormed DEF Datagram
<1> HIDE DEF p
<1>8. Well(host[f[1]], f[1], ids)
    <2>1. Well(host[f[1]], f[1], 1 .. sent)
        BY <1>5 DEF IInv, HostsOK, HostOK
    <2>2. 1 .. sent \subseteq ids
        BY <1>1, <1>2
    <2> HIDE DEF ids
    <2> QED BY Zenon, <2>1, <2>2, HostsGrow
<1>9. Keeps(host[f[1]], g, f[1], ids)
    <2> HIDE DEF ids
    <2> QED BY <1>5, <1>7, <1>8, RoutePacketKeeps
<1> HIDE DEF g
<1>10. HostsOK' /\ FramesOK' /\ Forward
    BY <1>1, <1>3, <1>5, <1>9, KeepingOK
<1>11. RestOK'
    <2>1. spent' \in [Budgets -> Nat]
        BY <1>1, PayOK
    <2>2. arrived \subseteq 1 .. sent /\ links \subseteq SUBSET Node
        BY DEF IInv, RestOK
    <2> QED BY <1>1, <1>2, <2>1, <2>2 DEF RestOK
<1> QED BY <1>10, <1>11 DEF IInv

\* A frame arrives.
LEMMA DeliverOK ==
    ASSUME IInv, NEW e \in net, NEW c \in Choice, Deliver(e, c)
    PROVE  IInv' /\ Forward
<1> DEFINE ids == 1 .. sent
           p == IF e.from = e.to THEN e.p ELSE [e.p EXCEPT !.ttl = @ - 1]
           g == RoutePacket(host[e.to], e.to, p, c)
<1>1. /\ sent' = sent /\ links' = links /\ Pay(Garbage(c))
      /\ Become(e.to, g, {e})
      /\ arrived' = IF p.dst = e.to /\ p.body.type = "DATA"
                    THEN arrived \cup {p.body.id} ELSE arrived
    BY DEF Deliver
<1>2. /\ e.to \in Node /\ e.p \in Datagram(ids)
      /\ e.from # e.to => e.p.ttl > 0
    BY DEF IInv, FramesOK, FrameOK
<1> HIDE DEF ids
<1>3. p \in Datagram(ids)
    <2>1. CASE e.from = e.to
        BY <1>2, <2>1
    <2>2. CASE e.from # e.to
        <3>1. e.p.ttl - 1 \in Nat
            BY <1>2, <2>2 DEF Datagram
        <3> QED BY <1>2, <2>2, <3>1 DEF Datagram
    <2> QED BY <2>1, <2>2
<1> HIDE DEF p
<1>4. Well(host[e.to], e.to, ids)
    BY <1>2 DEF IInv, HostsOK, HostOK, ids
<1>5. Keeps(host[e.to], g, e.to, ids)
    BY <1>2, <1>3, <1>4, RoutePacketKeeps
<1> HIDE DEF g
<1>6. HostsOK' /\ FramesOK' /\ Forward
    BY SMTT(30), <1>1, <1>2, <1>5, KeepingOK DEF ids
<1>7. p.body.type = "DATA" => p.body.id \in ids
    BY <1>3 DEF Datagram, Message
<1>8. RestOK'
    <2>1. spent' \in [Budgets -> Nat]
        BY <1>1, PayOK
    <2>2. /\ arrived \subseteq ids /\ links \subseteq SUBSET Node
          /\ sent \in 0 .. Len(Flows)
        BY DEF IInv, RestOK, ids
    <2> QED BY Zenon, <1>1, <1>7, <2>1, <2>2 DEF RestOK, ids
<1> QED BY <1>6, <1>8 DEF IInv

\* A frame is lost, and with link layer feedback its sender is told.
LEMMA LoseOK ==
    ASSUME IInv, NEW e \in net, NEW c \in Choice, Lose(e, c)
    PROVE  IInv' /\ Forward
<1> DEFINE n == e.from
           g == PacketFailed(host[n], n, e.p, c)
           B == Garbage(c) \cup IF Linked(e.from, e.to) THEN {"loss"} ELSE {}
<1>1. Pay(B) /\ UNCHANGED <<links, sent, arrived>>
    BY DEF Lose
<1>2. RestOK'
    <2> HIDE DEF B
    <2> QED BY <1>1, RestKept
<1>3. n \in Node /\ e.p \in Datagram(1 .. sent)
    BY DEF IInv, FramesOK, FrameOK
<1>4. CASE host[n].llfeedback /\ e.p.dst # None
    <2>1. Become(n, g, {e})
        BY <1>4 DEF Lose
    <2>2. e.p.dst \in Node
        BY <1>3, <1>4 DEF Datagram
    <2>3. Well(host[n], n, 1 .. sent)
        BY <1>3 DEF IInv, HostsOK, HostOK
    <2> HIDE DEF n
    <2>4. Proper(host[n], g, n, 1 .. sent)
        BY <1>3, <2>2, <2>3, PacketFailedProper
    <2> HIDE DEF g
    <2>5. g.llfeedback
        BY <1>4, <2>4 DEF Proper
    <2>6. HostsOK' /\ FramesOK' /\ Forward
        BY <1>1, <1>3, <2>1, <2>4, <2>5, BecomesOK
    <2> QED BY <1>2, <2>6 DEF IInv
<1>5. CASE ~ (host[n].llfeedback /\ e.p.dst # None)
    <2>1. net' = net \ {e} /\ host' = host
        BY <1>5 DEF Lose
    <2>2. HostsOK'
        BY <1>1, <2>1 DEF IInv, HostsOK
    <2>3. FramesOK'
        BY <1>1, <2>1 DEF IInv, FramesOK
    <2>4. Forward
        BY <2>1 DEF IInv, HostsOK, Host, Forward
    <2> QED BY <1>2, <2>2, <2>3, <2>4 DEF IInv
<1> QED BY <1>4, <1>5

\* Two hosts move.
LEMMA MoveOK ==
    ASSUME IInv, NEW a \in Node, NEW b \in Node, Move(a, b)
    PROVE  IInv' /\ Forward
<1>1. /\ Pay({"link"} \cup Race) /\ UNCHANGED <<host, net, sent, arrived>>
      /\ links' = IF {a, b} \in links THEN links \ {{a, b}}
                                      ELSE links \cup {{a, b}}
    BY DEF Move
<1>2. HostsOK' /\ FramesOK'
    BY <1>1 DEF IInv, HostsOK, FramesOK
<1>3. Forward
    BY <1>1 DEF IInv, HostsOK, Host, Forward
<1>4. RestOK'
    <2>1. spent' \in [Budgets -> Nat]
        BY <1>1, PayOK
    <2>2. links' \subseteq SUBSET Node
        BY <1>1 DEF IInv, RestOK
    <2> QED BY <1>1, <2>1, <2>2 DEF IInv, RestOK
<1> QED BY <1>2, <1>3, <1>4 DEF IInv

\* A handler that a timer of the host n calls.
LEMMA TimerOK ==
    ASSUME IInv, NEW n \in Node, NEW g, NEW B, Pay(B), Become(n, g, {}),
           UNCHANGED <<links, sent, arrived>>,
           Keeps(host[n], g, n, 1 .. sent)
    PROVE  IInv' /\ Forward
<1>1. HostsOK' /\ FramesOK' /\ Forward
    BY KeepingOK
<1>2. RestOK'
    BY RestKept
<1> QED BY <1>1, <1>2 DEF IInv

\* Every host is well between two steps.
LEMMA HostWell ==
    ASSUME IInv, NEW n \in Node
    PROVE  Well(host[n], n, 1 .. sent) /\ host[n] \in Host(1 .. sent)
BY DEF IInv, HostsOK, HostOK

\* seek_timer.
LEMMA SeekTimeoutOK ==
    ASSUME IInv, NEW n \in Node, NEW d \in Node, NEW c \in Choice,
           SeekTimeout(n, d, c)
    PROVE  IInv' /\ Forward
<1> DEFINE g == RouteDiscoveryTimeout(host[n], n, d, c)
<1>1. /\ Pay(Race \cup Garbage(c)) /\ Seeking(host[n], d)
      /\ Become(n, g, {}) /\ UNCHANGED <<links, sent, arrived>>
    BY DEF SeekTimeout
<1>2. Keeps(host[n], g, n, 1 .. sent)
    BY <1>1, HostWell, RouteDiscoveryTimeoutKeeps
<1> HIDE DEF g
<1> QED BY <1>1, <1>2, TimerOK

\* rt_timer.
LEMMA RtTimerOK ==
    ASSUME IInv, NEW n \in Node, NEW d \in Node, RtTimer(n, d)
    PROVE  IInv' /\ Forward
<1> DEFINE g == RouteTimeout(host[n], n, d)
<1>1. /\ Pay({"timeout"} \cup Race) /\ host[n].rt[d].state # "NONE"
      /\ Become(n, g, {}) /\ UNCHANGED <<links, sent, arrived>>
    BY DEF RtTimer
<1>2. Keeps(host[n], g, n, 1 .. sent)
    BY <1>1, HostWell, RouteTimeoutKeeps
<1> HIDE DEF g
<1> QED BY <1>1, <1>2, TimerOK

\* The hello_timer of a neighbour.
LEMMA NeighborTimerOK ==
    ASSUME IInv, NEW n \in Node, NEW d \in Node, NeighborTimer(n, d)
    PROVE  IInv' /\ Forward
<1> DEFINE g == HelloTimeout(host[n], n, d)
<1>1. /\ Pay({"timeout"} \cup Race) /\ host[n].rt[d].hello
      /\ Become(n, g, {}) /\ UNCHANGED <<links, sent, arrived>>
    BY DEF NeighborTimer
<1>2. Keeps(host[n], g, n, 1 .. sent)
    BY <1>1, HostWell, HelloTimeoutKeeps
<1> HIDE DEF g
<1> QED BY <1>1, <1>2, TimerOK

\* The host's own hello_timer.
LEMMA HelloTimerOK ==
    ASSUME IInv, NEW n \in Node, NEW c \in Choice, NEW s \in BOOLEAN,
           HelloTimer(n, c, s)
    PROVE  IInv' /\ Forward
<1> DEFINE g == IF s THEN [host[n] EXCEPT !.hello = FALSE]
                     ELSE HelloSend(host[n], n, c)
<1>1. /\ Pay({"hello"} \cup Race)
      /\ Become(n, g, {}) /\ UNCHANGED <<links, sent, arrived>>
    BY DEF HelloTimer
<1>2. Sent(host[n], g, n, 1 .. sent)
    <2>1. Sent(host[n], [host[n] EXCEPT !.hello = FALSE], n, 1 .. sent)
        BY Zenon, HostWell, NumbersWritten
    <2>2. Sent(host[n], HelloSend(host[n], n, c), n, 1 .. sent)
        BY HostWell, HelloSendSent
    <2> QED BY <2>1, <2>2
<1> HIDE DEF g
<1>3. Keeps(host[n], g, n, 1 .. sent)
    BY <1>2, HostWell, SentKeeps
<1> QED BY <1>1, <1>3, TimerOK

\* rreq_record_timeout().
LEMMA RecordTimeoutOK ==
    ASSUME IInv, NEW n \in Node, NEW r \in host[n].records, RecordTimeout(n, r)
    PROVE  IInv' /\ Forward
<1> DEFINE R == host[n].records \ {r}
           g == [host[n] EXCEPT !.records = R]
           k == [g EXCEPT !.out = {}]
<1>1. /\ Pay({"timeout"}) /\ UNCHANGED <<links, sent, arrived>>
      /\ host' = [host EXCEPT ![n] = g] /\ net' = net
    <2>1. host \in [Node -> Host(1 .. sent)]
        BY DEF IInv, HostsOK
    <2> QED BY <2>1 DEF RecordTimeout
<1>2. /\ Well(host[n], n, 1 .. sent) /\ host[n] \in Host(1 .. sent)
      /\ host[n].out = {} /\ R \in SUBSET (Node \X Nat)
    BY Zenon, HostWell DEF IInv, HostsOK, HostOK, Host
<1> HIDE DEF R
<1>3. Sent(host[n], g, n, 1 .. sent)
    BY Zenon, <1>2, NumbersWritten
<1>4. g = k /\ g.out = {}
    BY Zenon, <1>2 DEF Host
<1> HIDE DEF g
<1>5. Keeps(host[n], g, n, 1 .. sent)
    BY <1>2, <1>3, SentKeeps
<1>6. Become(n, g, {})
    <2>1. UNION {Frames(n, o) : o \in g.out} = {}
        BY <1>4
    <2> QED BY Zenon, <1>1, <1>4, <2>1 DEF Become
<1> QED BY <1>1, <1>5, <1>6, TimerOK

\* The timer of the packet queue.
LEMMA QueueTimerOK ==
    ASSUME IInv, NEW n \in Node, QueueTimer(n)
    PROVE  IInv' /\ Forward
<1> DEFINE g == PacketQueueGarbageCollect(host[n])
<1>1. /\ Pay({"timeout"} \cup Race) /\ Become(n, g, {})
      /\ UNCHANGED <<links, sent, arrived>>
    BY DEF QueueTimer
<1>2. Keeps(host[n], g, n, 1 .. sent)
    BY HostWell, PacketQueueGarbageCollectKeeps
<1> HIDE DEF g
<1> QED BY <1>1, <1>2, TimerOK

(***************************************************************************)
(* Theorems                                                                 *)
(***************************************************************************)
\* Every step keeps the invariant, and lets no host's sequence number and no
\* host's configuration go back.
LEMMA StepOK ==
    ASSUME IInv, [Next]_vars
    PROVE  IInv' /\ Forward
<1>1. CASE \E c \in Choice : AppSend(c)
    BY <1>1, AppSendOK
<1>2. CASE \E e \in net, c \in Choice : Deliver(e, c)
    BY <1>2, DeliverOK
<1>3. CASE \E e \in net, c \in Choice : Lose(e, c)
    BY <1>3, LoseOK
<1>4. CASE \E a, b \in Node : Move(a, b)
    BY <1>4, MoveOK
<1>5. CASE \E n, d \in Node, c \in Choice : SeekTimeout(n, d, c)
    BY <1>5, SeekTimeoutOK
<1>6. CASE \E n, d \in Node : RtTimer(n, d)
    BY <1>6, RtTimerOK
<1>7. CASE \E n, d \in Node : NeighborTimer(n, d)
    BY <1>7, NeighborTimerOK
<1>8. CASE \E n \in Node, c \in Choice, s \in BOOLEAN : HelloTimer(n, c, s)
    BY <1>8, HelloTimerOK
<1>9. CASE \E n \in Node : \E r \in host[n].records : RecordTimeout(n, r)
    BY <1>9, RecordTimeoutOK
<1>10. CASE \E n \in Node : QueueTimer(n)
    BY <1>10, QueueTimerOK
<1>11. CASE UNCHANGED vars
    <2>1. IInv'
        BY <1>11 DEF IInv, HostsOK, FramesOK, RestOK, vars
    <2>2. Forward
        BY <1>11 DEF IInv, HostsOK, Host, Forward, vars
    <2> QED BY <2>1, <2>2
<1> QED BY <1>1, <1>2, <1>3, <1>4, <1>5, <1>6, <1>7, <1>8, <1>9, <1>10, <1>11
        DEF Next

\* The invariant holds in every state of the network.
LEMMA Invariance == Spec => []IInv
<1>1. Init => IInv
    BY InitOK
<1>2. IInv /\ [Next]_vars => IInv'
    BY StepOK
<1> QED BY <1>1, <1>2, PTL DEF Spec

\* Tables, frames, buffers and budgets keep their types, no datagram is made
\* up, and PQ never holds more than MAX_QUEUE_LENGTH packets.
THEOREM TypeCorrect == Spec => []TypeOK
<1>1. IInv => TypeOK
    <2> SUFFICES ASSUME IInv PROVE TypeOK
        OBVIOUS
    <2>1. net \subseteq [from : Node, to : Node, p : Datagram(1 .. sent)]
        BY DEF IInv, FramesOK, FrameOK
    <2>2. \A n \in Node : /\ host[n].out = {}
                          /\ Len(host[n].queue) <= MAX_QUEUE_LENGTH
        BY DEF IInv, HostsOK, HostOK, Well
    <2> QED BY <2>1, <2>2 DEF IInv, HostsOK, RestOK, TypeOK
<1> QED BY <1>1, Invariance, PTL

\* Without link layer feedback no order of replies, errors and timers strands
\* a packet in PQ: there is always a search for its destination.
THEOREM QueuedIsSought == Spec => []QueuedMeansSeeking
<1>1. IInv => QueuedMeansSeeking
    BY DEF IInv, HostsOK, HostOK, Calm, QueuedMeansSeeking
<1> QED BY <1>1, Invariance, PTL

\* Without link layer feedback RT_REPAIR is on invalid routes only.
THEOREM RepairIsOfInvalid == Spec => []RepairMeansInvalid
<1>1. IInv => RepairMeansInvalid
    BY DEF IInv, HostsOK, HostOK, Calm, CalmEntry, RepairMeansInvalid
<1> QED BY <1>1, Invariance, PTL

\* No handler takes back a sequence number of the host.
THEOREM SeqnoNeverBack == Spec => OwnSeqnoAdvances
<1>1. IInv /\ [Next]_vars
          => [\A n \in Node : host'[n].seqno >= host[n].seqno]_vars
    BY StepOK DEF Forward
<1> QED BY <1>1, Invariance, PTL DEF Spec, OwnSeqnoAdvances

\* No host of the network uses link layer feedback.
NoFeedback == IInv /\ \A n \in Node : ~ host[n].llfeedback

\* llfeedback is read from the configuration and never written.
LEMMA FeedbackStays ==
    ASSUME Feedback \subseteq {FALSE}
    PROVE  Spec => []NoFeedback
<1>1. Init => NoFeedback
    <2> SUFFICES ASSUME Init PROVE \A n \in Node : ~ host[n].llfeedback
        BY InitOK DEF NoFeedback
    <2>1. PICK l \in Feedback : host = [n \in Node |-> InitHost(l)]
        BY DEF Init
    <2>2. InitHost(l).llfeedback = l /\ l = FALSE
        BY Zenon DEF InitHost
    <2> QED BY <2>1, <2>2
<1>2. NoFeedback /\ [Next]_vars => NoFeedback'
    BY StepOK DEF NoFeedback, Forward
<1> QED BY <1>1, <1>2, PTL DEF Spec

\* Without link layer feedback IP forwards where the routing table says:
\* rt_table_insert, rt_table_update and rt_table_invalidate never leave a
\* valid route with another gateway.
THEOREM KernelFollows ==
    ASSUME Feedback \subseteq {FALSE}
    PROVE  Spec => []KernelFollowsTable
<1>1. NoFeedback => KernelFollowsTable
    BY DEF NoFeedback, IInv, HostsOK, HostOK, Calm, KernelFollowsTable
<1> QED BY <1>1, FeedbackStays, PTL

\* Without link layer feedback whatever makes a route valid ends the search
\* for it.
THEOREM SeekingHasNoRoute ==
    ASSUME Feedback \subseteq {FALSE}
    PROVE  Spec => []SeekingMeansNoRoute
<1>1. NoFeedback => SeekingMeansNoRoute
    BY DEF NoFeedback, IInv, HostsOK, HostOK, Calm, SeekingMeansNoRoute
<1> QED BY <1>1, FeedbackStays, PTL

=============================================================================
