-------------------------- MODULE AODVHostProofs ----------------------------
(***************************************************************************)
(* What the handlers of an AODV-UU agent do to the host, for every table,    *)
(* message and choice: the routing table and the searches, route requests    *)
(* and replies, hellos, route errors and link breaks.                        *)
(*                                                                          *)
(* Each lemma states the effect of one operator of AODVRouting as a relation *)
(* between the host before and the host after: it stays well formed (Well),  *)
(* its own sequence number does not go back, and when the two tables, the    *)
(* searches and the packet queue agreed before (Calm) they agree after.      *)
(* AODVProofs adds the timers and puts the lemmas together for the network.  *)
(***************************************************************************)
EXTENDS AODVRouting, WellFoundedInduction, TLAPS

\* Every set of numbers that has a member has a least one.
LEMMA LeastNumber ==
    ASSUME NEW T, T \subseteq Nat, T # {}
    PROVE  \E x \in T : \A y \in T : x <= y
<1>0. OpToRel(<, Nat) = {ss \in Nat \X Nat : ss[1] < ss[2]}
    BY Zenon DEF OpToRel
<1>1. PICK x \in T : \A y \in T : ~ (<<y, x>> \in {ss \in Nat \X Nat : ss[1] < ss[2]})
    BY ZenonT(60), <1>0, NatLessThanWellFounded, WFMin
<1>2. ASSUME NEW y \in T PROVE x <= y
    <2>1. x \in Nat /\ y \in Nat
        OBVIOUS
    <2>2. ~ (y < x)
        <3>1. SUFFICES ASSUME y < x
                       PROVE  <<y, x>> \in {ss \in Nat \X Nat : ss[1] < ss[2]}
            BY <1>1
        <3> QED BY <2>1, <3>1
    <2> QED BY <2>1, <2>2
<1> QED BY <1>2

\* The equation of the recursive function in PacketsFor, up to length k.
Filters(f, q, D, k) ==
    f = [i \in 0 .. k |->
            IF i = 0 THEN <<>>
            ELSE IF q[i].dst \in D THEN Append(f[i - 1], q[i]) ELSE f[i - 1]]

\* The recursion of PacketsFor has a value for every queue: the equation of
\* its function can be solved up to every length.
LEMMA PacketsForDefined ==
    ASSUME NEW q, NEW D, NEW k \in Nat
    PROVE  \E f : Filters(f, q, D, k)
<1> DEFINE Body(f, i) == IF i = 0 THEN <<>>
                         ELSE IF q[i].dst \in D THEN Append(f[i - 1], q[i])
                         ELSE f[i - 1]
           T == {j \in Nat : ~ \E f : f = [i \in 0 .. j |-> Body(f, i)]}
<1>1. SUFFICES ASSUME T # {} PROVE FALSE
    <2>1. SUFFICES k \notin T
        BY Zenon DEF Filters
    <2> QED BY Zenon
<1>2. PICK j \in T : \A y \in T : j <= y
    BY Zenon, <1>1, LeastNumber
<1>3. CASE j = 0
    <2>1. [i \in 0 .. 0 |-> <<>>] = [i \in 0 .. 0 |->
               Body([m \in 0 .. 0 |-> <<>>], i)]
        OBVIOUS
    <2> QED BY Zenon, <1>3, <2>1
<1>4. CASE j # 0
    <2>1. j - 1 \in Nat /\ j - 1 \notin T
        <3>1. j \in Nat
            OBVIOUS
        <3> HIDE DEF T
        <3> QED BY <1>2, <1>4, <3>1
    <2>2. PICK g : g = [i \in 0 .. j - 1 |-> Body(g, i)]
        BY <2>1
    <2> DEFINE f == [i \in 0 .. j |-> IF i < j THEN g[i] ELSE Body(g, j)]
    <2>3. ASSUME NEW i \in 0 .. j PROVE f[i] = Body(f, i)
        <3>1. CASE i = 0
            <4>1. g[0] = <<>>
                BY <2>2, <2>1
            <4> QED BY <3>1, <4>1, <1>4
        <3>2. CASE i # 0 /\ i < j
            <4>1. i - 1 \in 0 .. j - 1 /\ i \in 0 .. j - 1
                BY <3>2, <2>1
            <4>2. g[i] = Body(g, i)
                BY Zenon, <4>1, <2>2
            <4>3. f[i - 1] = g[i - 1] /\ f[i] = g[i]
                BY <4>1, <3>2, <1>2
            <4> QED BY <4>2, <4>3, <3>2
        <3>3. CASE i = j
            <4>1. f[i - 1] = g[i - 1] /\ f[i] = Body(g, j)
                BY <3>3, <1>4, <2>1, <1>2
            <4> HIDE DEF f
            <4> QED BY <4>1, <3>3, <1>4
        <3> QED BY SMTT(30), <3>1, <3>2, <3>3
    <2>4. f = [i \in 0 .. j |-> Body(f, i)]
        <3> HIDE DEF Body
        <3> QED BY <2>3
    <2> HIDE DEF f, Body
    <2> QED BY <2>4
<1> QED BY <1>3, <1>4

\* What PacketsFor keeps is a part of the queue, and all of it goes to D.
LEMMA PacketsForType ==
    ASSUME NEW S, NEW q \in Seq(S), NEW D
    PROVE  /\ PacketsFor(q, D) \in Seq({p \in S : p.dst \in D})
           /\ Len(PacketsFor(q, D)) <= Len(q)
<1> DEFINE K == {p \in S : p.dst \in D}
           f == CHOOSE g : Filters(g, q, D, Len(q))
           T == {j \in 0 .. Len(q) : ~ (f[j] \in Seq(K) /\ Len(f[j]) <= j)}
<1>1. Len(q) \in Nat
    OBVIOUS
<1>2. Filters(f, q, D, Len(q))
    BY <1>1, PacketsForDefined
<1>3. PacketsFor(q, D) = f[Len(q)]
    BY DEF PacketsFor, Filters
<1> HIDE DEF f
<1>4. T = {}
    <2>1. SUFFICES ASSUME T # {} PROVE FALSE
        OBVIOUS
    <2>2. T \subseteq Nat
        BY <1>1
    <2>3. PICK j \in T : \A y \in T : j <= y
        <3> HIDE DEF T
        <3> QED BY Zenon, <2>1, <2>2, LeastNumber
    <2>4. j \in 0 .. Len(q) /\ ~ (f[j] \in Seq(K) /\ Len(f[j]) <= j)
        OBVIOUS
    <2>5. CASE j = 0
        <3>1. f[0] = <<>>
            BY <1>1, <1>2 DEF Filters
        <3> QED BY <2>4, <2>5, <3>1
    <2>6. CASE j # 0
        <3>1. j - 1 \in 0 .. Len(q) /\ j \in 1 .. Len(q)
            BY <1>1, <2>4, <2>6
        <3>2. j - 1 \notin T
            <4> HIDE DEF T
            <4> QED BY <2>2, <2>3
        <3>3. f[j - 1] \in Seq(K) /\ Len(f[j - 1]) <= j - 1
            BY <3>1, <3>2
        <3>4. f[j] = IF q[j].dst \in D THEN Append(f[j - 1], q[j])
                                       ELSE f[j - 1]
            BY Zenon, <1>2, <2>4, <2>6 DEF Filters
        <3>5. q[j] \in S
            BY <3>1
        <3> HIDE DEF T
        <3>6. CASE q[j].dst \in D
            <4>1. q[j] \in K
                BY <3>5, <3>6
            <4> HIDE DEF K
            <4>2. f[j] \in Seq(K) /\ Len(f[j]) = Len(f[j - 1]) + 1
                BY <3>3, <3>4, <3>6, <4>1
            <4> QED BY <2>4, <3>3, <4>2, <3>1, <1>1
        <3>7. CASE q[j].dst \notin D
            BY <2>4, <3>3, <3>4, <3>7, <3>1, <1>1
        <3> QED BY <3>6, <3>7
    <2> QED BY <2>5, <2>6
<1>5. f[Len(q)] \in Seq(K) /\ Len(f[Len(q)]) <= Len(q)
    BY <1>1, <1>4
<1> QED BY <1>3, <1>5

(***************************************************************************)
(* What a handler keeps                                                     *)
(***************************************************************************)
EntryOK(e) ==
    /\ e.state = "NONE" => e.seqno = 0
    /\ e.state # "NONE" => e.next \in Node /\ e.timer # "none"

\* The host n in the middle of a handler, with datagrams still to leave.
Well(h, n, ids) ==
    /\ h \in Host(ids)
    /\ \A d \in Node : EntryOK(h.rt[d])
    /\ Len(h.queue) <= MAX_QUEUE_LENGTH
    /\ \A o \in h.out : o.hop = n \/ o.ttl > 0

CalmEntry(e) ==
    /\ e.repair => e.state = "INVALID"
    /\ e.timer = "repair" => e.state = "INVALID"
    /\ e.hello => e.hcnt = 1

\* What holds between two handlers when there is no link layer feedback.
Calm(h) ==
    /\ \A d \in Node : CalmEntry(h.rt[d])
    /\ \A d \in Node : Valid(h.rt[d]) => h.ip[d] = h.rt[d].next
    /\ \A d \in Node : Seeking(h, d) => ~ Valid(h.rt[d])
    /\ \A i \in DOMAIN h.queue : /\ h.queue[i].dst \in Node
                                 /\ Seeking(h, h.queue[i].dst)

Keeps(h, g, n, ids) ==
    /\ Well(g, n, ids)
    /\ g.seqno >= h.seqno
    /\ g.llfeedback = h.llfeedback
    /\ Calm(h) => Calm(g)

\* g is h after it sent something.
Sent(h, g, n, ids) ==
    /\ Well(g, n, ids)
    /\ g.seqno = h.seqno /\ g.llfeedback = h.llfeedback
    /\ g.rt = h.rt /\ g.ip = h.ip /\ g.seek = h.seek /\ g.queue = h.queue

\* A host that only sent something is as it was for the other handlers.
LEMMA SentKeeps ==
    ASSUME NEW h, NEW g, NEW n, NEW ids, h \in Host(ids), Sent(h, g, n, ids)
    PROVE  Keeps(h, g, n, ids)
<1>1. g.seqno >= h.seqno
    BY DEF Sent, Host
<1>2. Calm(h) => Calm(g)
    BY DEF Sent, Calm, Seeking
<1> QED BY <1>1, <1>2 DEF Sent, Keeps

\* Two handlers one after the other keep what each of them keeps.
LEMMA KeepsTransitive ==
    ASSUME NEW h, NEW g, NEW k, NEW n, NEW ids, h \in Host(ids),
           Keeps(h, g, n, ids), Keeps(g, k, n, ids)
    PROVE  Keeps(h, k, n, ids)
<1>1. h.seqno \in Nat /\ g.seqno \in Nat /\ k.seqno \in Nat
    BY DEF Keeps, Well, Host
<1> QED BY <1>1 DEF Keeps

\* aodv_socket_send() only adds a datagram to what leaves.
LEMMA SendSent ==
    ASSUME NEW ids, NEW n \in Node, NEW h, Well(h, n, ids),
           NEW hop \in Node \cup {None}, NEW ttl \in Nat,
           NEW body \in Message(ids)
    PROVE  Sent(h, Send(h, n, hop, ttl, body), n, ids)
<1>1. CASE ttl = 0
    BY <1>1 DEF Send, Sent
<1>2. CASE ttl # 0
    <2> DEFINE o == [hop |-> hop, src |-> n, dst |-> hop, ttl |-> ttl,
                     body |-> body]
               g == [h EXCEPT !.out = h.out \cup {o}]
    <2>1. o \in Datagram(ids) /\ o.ttl > 0
        BY <1>2 DEF Datagram
    <2>2. h \in Host(ids)
        BY DEF Well
    <2> HIDE DEF o
    <2>3. g \in Host(ids)
        BY Zenon, <2>1, <2>2 DEF Host
    <2>4. /\ g.seqno = h.seqno /\ g.llfeedback = h.llfeedback /\ g.rt = h.rt
          /\ g.ip = h.ip /\ g.seek = h.seek /\ g.queue = h.queue
          /\ g.out = h.out \cup {o}
        BY <2>2 DEF Host
    <2>5. Send(h, n, hop, ttl, body) = g
        BY <1>2 DEF Send, o
    <2> HIDE DEF g
    <2>6. Well(g, n, ids)
        BY <2>1, <2>3, <2>4 DEF Well
    <2> QED BY <2>4, <2>5, <2>6 DEF Sent
<1> QED BY <1>1, <1>2

\* Handing queued packets back to IP only adds datagrams to what leaves.
LEMMA ToIPSent ==
    ASSUME NEW ids, NEW n \in Node, NEW h, Well(h, n, ids),
           NEW pkts, pkts \subseteq Datagram(ids)
    PROVE  Sent(h, ToIP(h, n, pkts), n, ids)
<1> DEFINE O == {[hop |-> n, src |-> p.src, dst |-> p.dst, ttl |-> p.ttl,
                  body |-> p.body] : p \in pkts}
           g == [h EXCEPT !.out = h.out \cup O]
<1>1. O \subseteq Datagram(ids) /\ \A o \in O : o.hop = n
    BY DEF Datagram
<1>2. h \in Host(ids)
    BY DEF Well
<1>3. ToIP(h, n, pkts) = g
    BY DEF ToIP
<1> HIDE DEF O
<1>4. g \in Host(ids)
    BY Zenon, <1>1, <1>2 DEF Host
<1>5. /\ g.seqno = h.seqno /\ g.llfeedback = h.llfeedback /\ g.rt = h.rt
      /\ g.ip = h.ip /\ g.seek = h.seek /\ g.queue = h.queue
      /\ g.out = h.out \cup O
    BY <1>2 DEF Host
<1> HIDE DEF g
<1>6. Well(g, n, ids)
    BY <1>1, <1>4, <1>5 DEF Well
<1> QED BY <1>3, <1>5, <1>6 DEF Sent

(***************************************************************************)
(* Routing table                                                            *)
(***************************************************************************)
\* Calm, but for a search for d that the new route has not ended yet.
CalmBut(h, d) ==
    /\ \A x \in Node : CalmEntry(h.rt[x])
    /\ \A x \in Node : Valid(h.rt[x]) => h.ip[x] = h.rt[x].next
    /\ \A x \in Node \ {d} : Seeking(h, x) => ~ Valid(h.rt[x])
    /\ \A i \in DOMAIN h.queue : /\ h.queue[i].dst \in Node
                                 /\ Seeking(h, h.queue[i].dst)

\* g is h without the search for d.
Released(h, g, n, ids, d) ==
    /\ Well(g, n, ids)
    /\ g.seqno = h.seqno /\ g.llfeedback = h.llfeedback
    /\ g.rt = h.rt /\ g.ip = h.ip
    /\ CalmBut(h, d) => Calm(g)

\* When a search is over, what waited for it leaves the queue.
LEMMA SearchOver ==
    ASSUME NEW ids, NEW n \in Node, NEW h, Well(h, n, ids), NEW d \in Node
    PROVE  Released(h, [h EXCEPT !.seek[d] = NoSeek,
                                 !.queue = PacketsFor(@, Node \ {d})],
                    n, ids, d)
<1> DEFINE Q == PacketsFor(h.queue, Node \ {d})
           K == {p \in Datagram(ids) : p.dst \in Node \ {d}}
           g == [h EXCEPT !.seek[d] = NoSeek, !.queue = Q]
<1>1. h \in Host(ids) /\ h.queue \in Seq(Datagram(ids))
    BY DEF Well, Host
<1>2. Q \in Seq(K) /\ Len(Q) <= Len(h.queue)
    BY Zenon, <1>1, PacketsForType
<1> HIDE DEF Q
<1>3. Q \in Seq(Datagram(ids)) /\ Len(Q) \in Nat /\ Len(h.queue) \in Nat
    <2>1. K \subseteq Datagram(ids)
        OBVIOUS
    <2> HIDE DEF K
    <2> QED BY <1>1, <1>2, <2>1
<1>4. NoSeek \in [ttl : Nat, reqs : Nat, seqno : Nat]
    BY DEF NoSeek
<1>5. g \in Host(ids)
    BY Zenon, <1>1, <1>3, <1>4 DEF Host
<1>6. /\ g.seqno = h.seqno /\ g.llfeedback = h.llfeedback /\ g.rt = h.rt
      /\ g.ip = h.ip /\ g.out = h.out /\ g.queue = Q
      /\ g.seek = [h.seek EXCEPT ![d] = NoSeek]
    BY <1>1 DEF Host
<1> HIDE DEF g
<1>7. Well(g, n, ids)
    <2>1. Len(Q) <= MAX_QUEUE_LENGTH
        BY <1>2, <1>3, ParamsAreNumbers DEF Well
    <2> QED BY <1>5, <1>6, <2>1 DEF Well
<1>8. ASSUME CalmBut(h, d) PROVE Calm(g)
    <2>1. h.seek \in [Node -> [ttl : Nat, reqs : Nat, seqno : Nat]]
        BY <1>1 DEF Host
    <2>2. \A x \in Node : Seeking(g, x) <=> (x # d /\ Seeking(h, x))
        BY <1>6, <2>1 DEF Seeking
    <2>3. \A i \in DOMAIN Q : Q[i].dst \in Node \ {d} /\ Seeking(h, Q[i].dst)
        <3> DEFINE R == {p \in Datagram(ids) : /\ p.dst \in Node
                                               /\ Seeking(h, p.dst)}
        <3>1. \A i \in 1 .. Len(h.queue) : h.queue[i] \in R
            BY <1>1, <1>8 DEF CalmBut
        <3>2. h.queue \in Seq(R)
            <4> HIDE DEF R
            <4> QED BY <1>1, <3>1
        <3>3. Q \in Seq({p \in R : p.dst \in Node \ {d}})
            BY <3>2, PacketsForType DEF Q
        <3> QED BY <3>3
    <2> QED BY <1>6, <1>8, <2>2, <2>3 DEF CalmBut, Calm
<1>9. Released(h, g, n, ids, d)
    BY <1>6, <1>7, <1>8 DEF Released
<1> QED BY <1>9 DEF g, Q

\* packet_queue_set_verdict() and seek_list_remove() for a destination that
\* has a route again.
LEMMA ReleaseKeeps ==
    ASSUME NEW ids, NEW n \in Node, NEW h, Well(h, n, ids), NEW d \in Node
    PROVE  Released(h, Release(h, n, d), n, ids, d)
<1>1. CASE ~ Seeking(h, d)
    BY <1>1 DEF Release, Released, CalmBut, Calm
<1>2. CASE Seeking(h, d)
    <2> DEFINE k == [h EXCEPT !.seek[d] = NoSeek,
                              !.queue = PacketsFor(@, Node \ {d})]
               P == {p \in Range(h.queue) : p.dst = d}
               g == ToIP(k, n, P)
    <2>1. Released(h, k, n, ids, d)
        BY Zenon, SearchOver
    <2>2. Release(h, n, d) = g
        BY <1>2 DEF Release
    <2>3. P \subseteq Datagram(ids)
        <3>1. h.queue \in Seq(Datagram(ids))
            BY DEF Well, Host
        <3> QED BY <3>1 DEF Range
    <2> HIDE DEF k, P
    <2>4. Sent(k, g, n, ids)
        BY <2>1, <2>3, ToIPSent DEF Released
    <2> HIDE DEF g
    <2>5. Calm(k) => Calm(g)
        BY <2>1, <2>4, SentKeeps DEF Keeps, Well, Released
    <2> QED BY <2>1, <2>2, <2>4, <2>5 DEF Sent, Released
<1> QED BY <1>1, <1>2

\* g is h with the entry e in the routing table and the gateway k in the IP
\* table for d, and whatever elsewhere.
Routed(h, g, n, ids, d, e, k) ==
    /\ Well(g, n, ids)
    /\ g.seqno = h.seqno /\ g.llfeedback = h.llfeedback
    /\ g.rt[d] = e /\ g.ip[d] = k
    /\ \A x \in Node \ {d} : g.rt[x] = h.rt[x] /\ g.ip[x] = h.ip[x]

Rewritten(h, g, n, ids, d, e, k) ==
    Routed(h, g, n, ids, d, e, k) /\ g.seek = h.seek /\ g.queue = h.queue

\* Both tables are written for one destination.
LEMMA BothWritten ==
    ASSUME NEW ids, NEW n \in Node, NEW h, Well(h, n, ids), NEW d \in Node,
           NEW e \in Entry, EntryOK(e), NEW k \in Node \cup {None}
    PROVE  Rewritten(h, [h EXCEPT !.rt[d] = e, !.ip[d] = k], n, ids, d, e, k)
<1> DEFINE g == [h EXCEPT !.rt[d] = e, !.ip[d] = k]
<1>1. /\ h \in Host(ids) /\ h.rt \in [Node -> Entry]
      /\ h.ip \in [Node -> Node \cup {None}]
    BY Zenon DEF Well, Host
<1>2. g \in Host(ids)
    BY Zenon, <1>1 DEF Host
<1>3. /\ g.seqno = h.seqno /\ g.llfeedback = h.llfeedback
      /\ g.rt = [h.rt EXCEPT ![d] = e] /\ g.ip = [h.ip EXCEPT ![d] = k]
      /\ g.seek = h.seek /\ g.queue = h.queue /\ g.out = h.out
    BY <1>1 DEF Host
<1> HIDE DEF g
<1>4. /\ g.rt[d] = e /\ g.ip[d] = k
      /\ \A x \in Node \ {d} : g.rt[x] = h.rt[x] /\ g.ip[x] = h.ip[x]
    BY <1>1, <1>3
<1>5. \A x \in Node : EntryOK(g.rt[x])
    BY <1>4 DEF Well
<1>6. Well(g, n, ids)
    BY <1>2, <1>3, <1>5 DEF Well
<1>7. Rewritten(h, g, n, ids, d, e, k)
    BY <1>3, <1>4, <1>6 DEF Rewritten, Routed
<1> QED BY <1>7 DEF g

\* Only the routing table is.
LEMMA RtWritten ==
    ASSUME NEW ids, NEW n \in Node, NEW h, Well(h, n, ids), NEW d \in Node,
           NEW e \in Entry, EntryOK(e)
    PROVE  Rewritten(h, [h EXCEPT !.rt[d] = e], n, ids, d, e, h.ip[d])
<1> DEFINE g == [h EXCEPT !.rt[d] = e]
<1>1. h \in Host(ids) /\ h.rt \in [Node -> Entry]
    BY DEF Well, Host
<1>2. g \in Host(ids)
    BY Zenon, <1>1 DEF Host
<1>3. /\ g.seqno = h.seqno /\ g.llfeedback = h.llfeedback
      /\ g.rt = [h.rt EXCEPT ![d] = e] /\ g.ip = h.ip
      /\ g.seek = h.seek /\ g.queue = h.queue /\ g.out = h.out
    BY <1>1 DEF Host
<1> HIDE DEF g
<1>4. g.rt[d] = e /\ \A x \in Node \ {d} : g.rt[x] = h.rt[x]
    BY <1>1, <1>3
<1>5. \A x \in Node : EntryOK(g.rt[x])
    BY <1>4 DEF Well
<1>6. Well(g, n, ids)
    BY <1>2, <1>3, <1>5 DEF Well
<1>7. Rewritten(h, g, n, ids, d, e, h.ip[d])
    BY <1>3, <1>4, <1>6 DEF Rewritten, Routed
<1> QED BY <1>7 DEF g

\* What else of Calm depends on the entry for d.
LEMMA RewrittenCalm ==
    ASSUME NEW ids, NEW n, NEW h, NEW g, NEW d \in Node, NEW e, NEW k,
           Rewritten(h, g, n, ids, d, e, k), Calm(h), CalmEntry(e),
           Valid(e) => k = e.next
    PROVE  /\ CalmBut(g, d)
           /\ (Seeking(h, d) => ~ Valid(e)) => Calm(g)
<1>1. /\ g.rt[d] = e /\ g.ip[d] = k /\ g.seek = h.seek /\ g.queue = h.queue
      /\ \A x \in Node \ {d} : g.rt[x] = h.rt[x] /\ g.ip[x] = h.ip[x]
    BY DEF Rewritten, Routed
<1>2. \A x : Seeking(g, x) <=> Seeking(h, x)
    BY <1>1 DEF Seeking
<1> QED BY <1>1, <1>2 DEF Calm, CalmBut

\* g is h with a route to d put into its table by a handler.
RoutePut(h, g, n, ids, d, next, hops, state) ==
    /\ Keeps(h, g, n, ids)
    /\ g.rt[d].state = state /\ g.rt[d].next = next /\ g.rt[d].hcnt = hops
    /\ \A x \in Node \ {d} : g.rt[x] = h.rt[x]

\* A valid route ends the search for its destination.
LEMMA ReleasedRoutePut ==
    ASSUME NEW ids, NEW n \in Node, NEW h, Well(h, n, ids), NEW d \in Node,
           NEW e, Valid(e), NEW k,
           Calm(h) => CalmEntry(e) /\ k = e.next,
           NEW f, Rewritten(h, f, n, ids, d, e, k)
    PROVE  RoutePut(h, Release(f, n, d), n, ids, d, e.next, e.hcnt, "VALID")
<1> DEFINE g == Release(f, n, d)
<1>1. h.seqno \in Nat
    BY DEF Well, Host
<1>2. Released(f, g, n, ids, d)
    BY ReleaseKeeps DEF Rewritten, Routed
<1>3. Calm(h) => CalmBut(f, d)
    BY RewrittenCalm
<1> HIDE DEF g
<1>4. Keeps(h, g, n, ids)
    BY <1>1, <1>2, <1>3 DEF Keeps, Released, Rewritten, Routed
<1>5. RoutePut(h, g, n, ids, d, e.next, e.hcnt, "VALID")
    BY <1>2, <1>4 DEF RoutePut, Released, Rewritten, Routed, Valid
<1> QED BY <1>5 DEF g

\* rt_table_insert().
LEMMA RtTableInsertKeeps ==
    ASSUME NEW ids, NEW n \in Node, NEW h, Well(h, n, ids), NEW d \in Node,
           NEW next \in Node, NEW hops \in Nat, NEW s \in Nat,
           NEW state \in {"VALID", "INVALID"}
    PROVE  RoutePut(h, RtTableInsert(h, n, d, next, hops, s, state), n, ids,
                    d, next, hops, state)
<1> DEFINE e == [state |-> state, seqno |-> s, next |-> next, hcnt |-> hops,
                 repair |-> FALSE, prec |-> {}, hello |-> FALSE,
                 timer |-> IF state = "VALID" THEN "expire" ELSE "delete"]
           f == [h EXCEPT !.rt[d] = e]
           k == [h EXCEPT !.rt[d] = e, !.ip[d] = next]
           g == RtTableInsert(h, n, d, next, hops, s, state)
<1>1. /\ e \in Entry /\ EntryOK(e) /\ CalmEntry(e)
      /\ e.state = state /\ e.next = next /\ e.hcnt = hops
    BY DEF Entry, EntryOK, CalmEntry
<1> HIDE DEF e
<1>2. CASE state = "VALID"
    <2>1. g = Release(k, n, d)
        BY <1>2 DEF RtTableInsert, e
    <2>2. Rewritten(h, k, n, ids, d, e, next)
        <3>1. next \in Node \cup {None}
            OBVIOUS
        <3>2. e \in Entry /\ EntryOK(e)
            BY <1>1
        <3> QED BY Zenon, <3>1, <3>2, BothWritten
    <2> HIDE DEF k, g
    <2> QED BY <1>1, <1>2, <2>1, <2>2, ReleasedRoutePut DEF Valid, g
<1>3. CASE state = "INVALID"
    <2>1. g = f
        BY <1>3 DEF RtTableInsert, e
    <2>2. Rewritten(h, f, n, ids, d, e, h.ip[d])
        BY Zenon, <1>1, RtWritten
    <2> HIDE DEF f, g
    <2>3. Calm(h) => Calm(f)
        BY <1>1, <1>3, <2>2, RewrittenCalm DEF Valid
    <2>4. h.seqno \in Nat
        BY DEF Well, Host
    <2>5. Keeps(h, f, n, ids)
        BY <2>2, <2>3, <2>4 DEF Rewritten, Routed, Keeps
    <2>6. RoutePut(h, f, n, ids, d, next, hops, state)
        BY <1>1, <2>2, <2>5 DEF Rewritten, Routed, RoutePut
    <2> QED BY <2>1, <2>6 DEF g
<1> QED BY <1>2, <1>3

\* rt_table_update().
LEMMA RtTableUpdateKeeps ==
    ASSUME NEW ids, NEW n \in Node, NEW h, Well(h, n, ids), NEW d \in Node,
           NEW next \in Node, NEW hops \in Nat \ {0}, NEW s \in Nat,
           h.rt[d].state # "NONE"
    PROVE  RoutePut(h, RtTableUpdate(h, n, d, next, hops, s), n, ids,
                    d, next, hops, "VALID")
<1> DEFINE e == h.rt[d]
           f == [e EXCEPT !.state = "VALID", !.seqno = s, !.next = next,
                          !.hcnt = hops, !.timer = "expire",
                          !.repair = @ /\ e.state = "VALID",
                          !.hello = @ /\ ~ (hops > 1 /\ e.hcnt = 1)]
           i == IF e.state = "INVALID" \/ e.next # next THEN next ELSE h.ip[d]
           k == [h EXCEPT !.rt[d] = f, !.ip[d] = i]
           g == RtTableUpdate(h, n, d, next, hops, s)
<1>1. e \in Entry /\ h.ip[d] \in Node \cup {None}
    BY DEF Well, Host
<1>2. g = Release(k, n, d)
    BY DEF RtTableUpdate
<1>3. f \in Entry
    <2> HIDE DEF e
    <2> QED BY Zenon, <1>1 DEF Entry
<1>4. /\ f.state = "VALID" /\ f.seqno = s /\ f.next = next /\ f.hcnt = hops
      /\ f.timer = "expire" /\ f.repair = (e.repair /\ e.state = "VALID")
      /\ f.hello = (e.hello /\ ~ (hops > 1 /\ e.hcnt = 1))
    <2> HIDE DEF e
    <2> QED BY <1>1 DEF Entry
<1>5. i \in Node \cup {None}
    BY <1>1
<1> HIDE DEF f, i
<1>6. EntryOK(f)
    BY <1>4 DEF EntryOK
<1>7. Rewritten(h, k, n, ids, d, f, i)
    BY Zenon, <1>3, <1>5, <1>6, BothWritten
<1>8. ASSUME Calm(h) PROVE CalmEntry(f) /\ i = next
    <2>1. CalmEntry(e) /\ (Valid(e) => h.ip[d] = e.next)
        BY <1>8 DEF Calm
    <2>2. e.state \in {"NONE", "VALID", "INVALID"} /\ e.hcnt \in Nat
        BY <1>1 DEF Entry
    <2>3. ~ f.repair
        BY Zenon, <1>4, <2>1 DEF CalmEntry
    <2>4. f.hello => f.hcnt = 1
        <3>1. SUFFICES ASSUME f.hello PROVE hops = 1
            BY <1>4
        <3>2. e.hello /\ ~ (hops > 1 /\ e.hcnt = 1)
            BY Zenon, <1>4, <3>1
        <3>3. ~ (hops > 1)
            BY <2>1, <3>2 DEF CalmEntry
        <3> QED BY <3>3
    <2>5. i = next
        BY <2>1, <2>2 DEF Valid, i
    <2> QED BY <1>4, <2>3, <2>4, <2>5 DEF CalmEntry
<1> HIDE DEF k
<1> QED BY <1>2, <1>4, <1>7, <1>8, ReleasedRoutePut DEF Valid

\* The insert or update that every handler of a message begins with.
LEMMA RtTablePutKeeps ==
    ASSUME NEW ids, NEW n \in Node, NEW h, Well(h, n, ids), NEW d \in Node,
           NEW next \in Node, NEW hops \in Nat \ {0}, NEW s \in Nat
    PROVE  RoutePut(h, RtTablePut(h, n, d, next, hops, s), n, ids,
                    d, next, hops, "VALID")
<1>1. CASE h.rt[d].state = "NONE"
    <2>1. RtTablePut(h, n, d, next, hops, s)
              = RtTableInsert(h, n, d, next, hops, s, "VALID")
        BY <1>1 DEF RtTablePut
    <2> QED BY <2>1, RtTableInsertKeeps
<1>2. CASE h.rt[d].state # "NONE"
    <2>1. RtTablePut(h, n, d, next, hops, s)
              = RtTableUpdate(h, n, d, next, hops, s)
        BY <1>2 DEF RtTablePut
    <2> QED BY <1>2, <2>1, RtTableUpdateKeeps
<1> QED BY <1>1, <1>2

\* neighbor_add().
LEMMA NeighborAddKeeps ==
    ASSUME NEW ids, NEW n \in Node, NEW h, Well(h, n, ids), NEW from \in Node
    PROVE  Keeps(h, NeighborAdd(h, n, from), n, ids)
<1>1. h.rt[from].seqno \in Nat /\ 1 \in Nat \ {0} /\ 0 \in Nat
    BY DEF Well, Host, Entry
<1>2. CASE h.rt[from].state = "NONE"
    <2>1. NeighborAdd(h, n, from)
              = RtTableInsert(h, n, from, from, 1, 0, "VALID")
        BY <1>2 DEF NeighborAdd
    <2>2. RoutePut(h, NeighborAdd(h, n, from), n, ids, from, from, 1, "VALID")
        BY <1>1, <2>1, RtTableInsertKeeps
    <2> QED BY <2>2 DEF RoutePut
<1>3. CASE h.rt[from].state # "NONE"
    <2>1. NeighborAdd(h, n, from)
              = RtTableUpdate(h, n, from, from, 1, h.rt[from].seqno)
        BY <1>3 DEF NeighborAdd
    <2>2. RoutePut(h, NeighborAdd(h, n, from), n, ids, from, from, 1, "VALID")
        BY <1>1, <1>3, <2>1, RtTableUpdateKeeps
    <2> QED BY <2>2 DEF RoutePut
<1> QED BY <1>2, <1>3

(***************************************************************************)
(* Hello messages and route requests                                        *)
(***************************************************************************)
\* g is h but for its numbers, its records and what it sent.
Advanced(h, g, n, ids) ==
    /\ Well(g, n, ids)
    /\ g.seqno >= h.seqno /\ g.llfeedback = h.llfeedback
    /\ g.rt = h.rt /\ g.ip = h.ip /\ g.seek = h.seek /\ g.queue = h.queue

\* New numbers and records disturb no route, search or packet.
LEMMA AdvancedKeeps ==
    ASSUME NEW h, NEW g, NEW n, NEW ids, Advanced(h, g, n, ids)
    PROVE  Keeps(h, g, n, ids)
<1>1. Calm(h) => Calm(g)
    BY DEF Advanced, Calm, Seeking
<1> QED BY <1>1 DEF Advanced, Keeps

\* Sending after an advance is an advance.
LEMMA AdvancedSent ==
    ASSUME NEW h, NEW f, NEW g, NEW n, NEW ids,
           Advanced(h, f, n, ids), Sent(f, g, n, ids)
    PROVE  Advanced(h, g, n, ids)
BY DEF Advanced, Sent

\* Only the numbers, the records or the hello timer are written.
LEMMA NumbersWritten ==
    ASSUME NEW ids, NEW n \in Node, NEW h, Well(h, n, ids)
    PROVE  /\ \A b \in BOOLEAN : Sent(h, [h EXCEPT !.hello = b], n, ids)
           /\ \A R \in SUBSET (Node \X Nat) :
                  Sent(h, [h EXCEPT !.records = R], n, ids)
           /\ \A s \in Nat : s >= h.seqno =>
                  Advanced(h, [h EXCEPT !.seqno = s], n, ids)
           /\ \A s \in Nat, i \in Nat : s >= h.seqno =>
                  Advanced(h, [h EXCEPT !.rreqId = i, !.seqno = s], n, ids)
<1>1. h \in Host(ids)
    BY DEF Well
<1>2. ASSUME NEW b \in BOOLEAN PROVE Sent(h, [h EXCEPT !.hello = b], n, ids)
    <2> DEFINE g == [h EXCEPT !.hello = b]
    <2>1. /\ g \in Host(ids) /\ g.out = h.out
          /\ g.seqno = h.seqno /\ g.llfeedback = h.llfeedback
          /\ g.rt = h.rt /\ g.ip = h.ip /\ g.seek = h.seek /\ g.queue = h.queue
        BY Zenon, <1>1 DEF Host
    <2> HIDE DEF g
    <2>2. Sent(h, g, n, ids)
        BY <2>1 DEF Sent, Well
    <2> QED BY <2>2 DEF g
<1>3. ASSUME NEW R \in SUBSET (Node \X Nat)
      PROVE  Sent(h, [h EXCEPT !.records = R], n, ids)
    <2> DEFINE g == [h EXCEPT !.records = R]
    <2>1. /\ g \in Host(ids) /\ g.out = h.out
          /\ g.seqno = h.seqno /\ g.llfeedback = h.llfeedback
          /\ g.rt = h.rt /\ g.ip = h.ip /\ g.seek = h.seek /\ g.queue = h.queue
        BY Zenon, <1>1 DEF Host
    <2> HIDE DEF g
    <2>2. Sent(h, g, n, ids)
        BY <2>1 DEF Sent, Well
    <2> QED BY <2>2 DEF g
<1>4. ASSUME NEW s \in Nat, s >= h.seqno
      PROVE  Advanced(h, [h EXCEPT !.seqno = s], n, ids)
    <2> DEFINE g == [h EXCEPT !.seqno = s]
    <2>1. /\ g \in Host(ids) /\ g.out = h.out
          /\ g.seqno = s /\ g.llfeedback = h.llfeedback
          /\ g.rt = h.rt /\ g.ip = h.ip /\ g.seek = h.seek /\ g.queue = h.queue
        BY Zenon, <1>1 DEF Host
    <2> HIDE DEF g
    <2>2. Advanced(h, g, n, ids)
        BY <1>4, <2>1 DEF Advanced, Well
    <2> QED BY <2>2 DEF g
<1>5. ASSUME NEW s \in Nat, NEW i \in Nat, s >= h.seqno
      PROVE  Advanced(h, [h EXCEPT !.rreqId = i, !.seqno = s], n, ids)
    <2> DEFINE g == [h EXCEPT !.rreqId = i, !.seqno = s]
    <2>1. /\ g \in Host(ids) /\ g.out = h.out
          /\ g.seqno = s /\ g.llfeedback = h.llfeedback
          /\ g.rt = h.rt /\ g.ip = h.ip /\ g.seek = h.seek /\ g.queue = h.queue
        BY Zenon, <1>1 DEF Host
    <2> HIDE DEF g
    <2>2. Advanced(h, g, n, ids)
        BY <1>5, <2>1 DEF Advanced, Well
    <2> QED BY <2>2 DEF g
<1> QED BY Zenon, <1>2, <1>3, <1>4, <1>5

\* Sending twice is sending.
LEMMA SentTransitive ==
    ASSUME NEW h, NEW f, NEW g, NEW n, NEW ids,
           Sent(h, f, n, ids), Sent(f, g, n, ids)
    PROVE  Sent(h, g, n, ids)
BY DEF Sent

\* hello_send().
LEMMA HelloSendSent ==
    ASSUME NEW ids, NEW n \in Node, NEW h, Well(h, n, ids), NEW c \in Choice
    PROVE  Sent(h, HelloSend(h, n, c), n, ids)
<1> DEFINE g == [h EXCEPT !.hello = TRUE]
           m == [type |-> "HELLO", seqno |-> h.seqno]
<1>1. Sent(h, g, n, ids)
    BY Zenon, NumbersWritten
<1>2. m \in Message(ids)
    BY DEF Well, Host, Message
<1>3. HelloSend(h, n, c) = IF c.quiet THEN g ELSE Send(g, n, None, 1, m)
    BY DEF HelloSend
<1> HIDE DEF g, m
<1>4. Sent(g, Send(g, n, None, 1, m), n, ids)
    <2>1. Well(g, n, ids) /\ None \in Node \cup {None} /\ 1 \in Nat
        BY <1>1 DEF Sent
    <2> QED BY <1>2, <2>1, SendSent
<1> QED BY <1>1, <1>3, <1>4, SentTransitive

\* Sending nothing is sending.
LEMMA WellSent ==
    ASSUME NEW ids, NEW n, NEW h, Well(h, n, ids)
    PROVE  Sent(h, h, n, ids)
BY DEF Sent

\* hello_start().
LEMMA HelloStartSent ==
    ASSUME NEW ids, NEW n \in Node, NEW h, Well(h, n, ids), NEW c \in Choice
    PROVE  Sent(h, HelloStart(h, n, c), n, ids)
BY HelloSendSent, WellSent DEF HelloStart

\* rreq_create() and its broadcast: the sequence number of the host goes up.
LEMMA RreqSendAdvanced ==
    ASSUME NEW ids, NEW n \in Node, NEW h, Well(h, n, ids), NEW c \in Choice,
           NEW d \in Node, NEW s \in Nat, NEW ttl \in Nat
    PROVE  Advanced(h, RreqSend(h, n, d, s, ttl, c), n, ids)
<1> DEFINE g == [h EXCEPT !.rreqId = h.rreqId + 1,
                          !.seqno = SeqnoIncr(h.seqno)]
           m == [type |-> "RREQ", orig |-> n, id |-> h.rreqId,
                 oseq |-> g.seqno, dest |-> d, dseq |-> s, hcnt |-> 0,
                 d |-> c.garbage]
<1>1. /\ h.rreqId \in Nat /\ h.rreqId + 1 \in Nat
      /\ SeqnoIncr(h.seqno) \in Nat /\ SeqnoIncr(h.seqno) >= h.seqno
    BY DEF Well, Host, SeqnoIncr
<1>2. Advanced(h, g, n, ids)
    BY Zenon, <1>1, NumbersWritten
<1>3. RreqSend(h, n, d, s, ttl, c) = Send(g, n, None, ttl, m)
    BY DEF RreqSend
<1> HIDE DEF g
<1>4. g.seqno \in Nat /\ c.garbage \in BOOLEAN
    BY <1>2 DEF Advanced, Well, Host, Choice
<1>5. m \in Message(ids)
    BY <1>1, <1>4 DEF Message
<1> HIDE DEF m
<1>6. Sent(g, Send(g, n, None, ttl, m), n, ids)
    <2>1. Well(g, n, ids) /\ None \in Node \cup {None}
        BY <1>2 DEF Advanced
    <2> QED BY <1>5, <2>1, SendSent
<1> QED BY <1>2, <1>3, <1>6, AdvancedSent

\* The routes go on as they are: a handler that keeps state and next hop of
\* every entry.
Steady(h, g, n, ids) ==
    /\ Keeps(h, g, n, ids)
    /\ \A x \in Node : /\ g.rt[x].state = h.rt[x].state
                       /\ g.rt[x].next = h.rt[x].next

\* Two handlers that leave state and next hop of every entry alone.
LEMMA SteadyTransitive ==
    ASSUME NEW h, NEW g, NEW k, NEW n, NEW ids, h \in Host(ids),
           Steady(h, g, n, ids), Steady(g, k, n, ids)
    PROVE  Steady(h, k, n, ids)
BY KeepsTransitive DEF Steady

\* Sending leaves the table alone.
LEMMA SentSteady ==
    ASSUME NEW h, NEW g, NEW n, NEW ids, h \in Host(ids), Sent(h, g, n, ids)
    PROVE  Steady(h, g, n, ids)
BY SentKeeps DEF Steady, Sent

\* A flag, a timer or the precursors of an entry are written.
LEMMA FlagWritten ==
    ASSUME NEW ids, NEW n \in Node, NEW h, Well(h, n, ids), NEW d \in Node,
           NEW e \in Entry, EntryOK(e),
           e.state = h.rt[d].state, e.next = h.rt[d].next,
           CalmEntry(h.rt[d]) => CalmEntry(e)
    PROVE  /\ Steady(h, [h EXCEPT !.rt[d] = e], n, ids)
           /\ Rewritten(h, [h EXCEPT !.rt[d] = e], n, ids, d, e, h.ip[d])
<1> DEFINE g == [h EXCEPT !.rt[d] = e]
<1>1. Rewritten(h, g, n, ids, d, e, h.ip[d])
    BY RtWritten
<1> HIDE DEF g
<1>2. ASSUME Calm(h) PROVE Calm(g)
    <2>1. CalmEntry(e) /\ (Valid(e) => h.ip[d] = e.next)
        BY <1>2 DEF Calm, Valid
    <2>2. Seeking(h, d) => ~ Valid(e)
        BY <1>2 DEF Calm, Valid
    <2> QED BY <1>1, <1>2, <2>1, <2>2, RewrittenCalm
<1>3. h.seqno \in Nat
    BY DEF Well, Host
<1>4. Keeps(h, g, n, ids)
    BY <1>1, <1>2, <1>3 DEF Keeps, Rewritten, Routed
<1>5. Steady(h, g, n, ids)
    BY <1>1, <1>4 DEF Steady, Rewritten, Routed
<1> QED BY <1>1, <1>5 DEF g

\* precursor_add().
LEMMA PrecursorAddSteady ==
    ASSUME NEW ids, NEW n \in Node, NEW h, Well(h, n, ids), NEW d \in Node,
           NEW k \in Node
    PROVE  Steady(h, PrecursorAdd(h, d, k), n, ids)
<1> DEFINE e == [h.rt[d] EXCEPT !.prec = h.rt[d].prec \cup {k}]
<1>1. h.rt[d] \in Entry /\ EntryOK(h.rt[d])
    BY DEF Well, Host
<1>2. e \in Entry
    BY <1>1 DEF Entry
<1>3. /\ e.state = h.rt[d].state /\ e.seqno = h.rt[d].seqno
      /\ e.next = h.rt[d].next /\ e.timer = h.rt[d].timer
      /\ e.repair = h.rt[d].repair /\ e.hello = h.rt[d].hello
      /\ e.hcnt = h.rt[d].hcnt
    BY <1>1 DEF Entry
<1>4. PrecursorAdd(h, d, k) = [h EXCEPT !.rt[d] = e]
    BY DEF PrecursorAdd
<1> HIDE DEF e
<1>5. EntryOK(e) /\ (CalmEntry(h.rt[d]) => CalmEntry(e))
    BY <1>1, <1>3 DEF EntryOK, CalmEntry
<1>6. Steady(h, [h EXCEPT !.rt[d] = e], n, ids)
    BY Zenon, <1>2, <1>3, <1>5, FlagWritten
<1> QED BY <1>4, <1>6

\* hello_process().
LEMMA HelloProcessKeeps ==
    ASSUME NEW ids, NEW n \in Node, NEW h, Well(h, n, ids), NEW from \in Node,
           NEW m, m.seqno \in Nat
    PROVE  Keeps(h, HelloProcess(h, n, from, m), n, ids)
<1> DEFINE g == IF h.rt[from].state = "NONE"
                THEN RtTableInsert(h, n, from, from, 1, m.seqno, "INVALID")
                ELSE RtTableUpdate(h, n, from, from, 1, m.seqno)
           e == [g.rt[from] EXCEPT !.hello = TRUE]
<1>1. \E s : RoutePut(h, g, n, ids, from, from, 1, s)
    <2>1. 1 \in Nat \ {0}
        OBVIOUS
    <2>2. CASE h.rt[from].state = "NONE"
        BY Zenon, <2>1, <2>2, RtTableInsertKeeps
    <2>3. CASE h.rt[from].state # "NONE"
        BY Zenon, <2>1, <2>3, RtTableUpdateKeeps
    <2> QED BY <2>2, <2>3
<1>2. HelloProcess(h, n, from, m) = [g EXCEPT !.rt[from] = e]
    BY DEF HelloProcess
<1> HIDE DEF g
<1>3. /\ Keeps(h, g, n, ids) /\ Well(g, n, ids) /\ h \in Host(ids)
      /\ g.rt[from] \in Entry /\ EntryOK(g.rt[from]) /\ g.rt[from].hcnt = 1
    <2>1. Keeps(h, g, n, ids) /\ g.rt[from].hcnt = 1
        BY <1>1 DEF RoutePut
    <2>2. Well(g, n, ids)
        BY <2>1 DEF Keeps
    <2> QED BY Zenon, <2>1, <2>2 DEF Well, Host
<1>4. e \in Entry
    BY Zenon, <1>3 DEF Entry
<1>5. /\ e.state = g.rt[from].state /\ e.seqno = g.rt[from].seqno
      /\ e.next = g.rt[from].next /\ e.timer = g.rt[from].timer
      /\ e.repair = g.rt[from].repair /\ e.hcnt = 1
    BY <1>3 DEF Entry
<1> HIDE DEF e
<1>6. EntryOK(e) /\ (CalmEntry(g.rt[from]) => CalmEntry(e))
    BY <1>3, <1>5 DEF EntryOK, CalmEntry
<1>7. Steady(g, [g EXCEPT !.rt[from] = e], n, ids)
    BY Zenon, <1>3, <1>4, <1>5, <1>6, FlagWritten
<1>8. Keeps(g, HelloProcess(h, n, from, m), n, ids)
    BY <1>2, <1>7 DEF Steady
<1> QED BY <1>3, <1>8, KeepsTransitive

(***************************************************************************)
(* Route replies and requests                                               *)
(***************************************************************************)
\* A gateway is written that no valid route has.
LEMMA GatewayAdded ==
    ASSUME NEW ids, NEW n \in Node, NEW h, Well(h, n, ids), NEW k \in Node
    PROVE  Steady(h, [h EXCEPT !.ip[k] = IF @ = None THEN k ELSE @], n, ids)
<1> DEFINE v == IF h.ip[k] = None THEN k ELSE h.ip[k]
           g == [h EXCEPT !.ip[k] = v]
<1>1. /\ h \in Host(ids) /\ h.ip \in [Node -> Node \cup {None}]
      /\ h.seqno \in Nat
    BY DEF Well, Host
<1>2. v \in Node \cup {None}
    BY <1>1
<1>3. [h EXCEPT !.ip[k] = IF @ = None THEN k ELSE @] = g
    OBVIOUS
<1>4. \A x \in Node : h.ip[x] # None \/ x # k => [h.ip EXCEPT ![k] = v][x] = h.ip[x]
    BY <1>1
<1> HIDE DEF v
<1>5. g \in Host(ids)
    BY Zenon, <1>1, <1>2 DEF Host
<1>6. /\ g.seqno = h.seqno /\ g.llfeedback = h.llfeedback /\ g.rt = h.rt
      /\ g.seek = h.seek /\ g.queue = h.queue /\ g.out = h.out
      /\ g.ip = [h.ip EXCEPT ![k] = v]
    BY <1>1 DEF Host
<1> HIDE DEF g
<1>7. Well(g, n, ids)
    BY <1>5, <1>6 DEF Well
<1>8. ASSUME Calm(h) PROVE Calm(g)
    <2>1. \A x \in Node : Valid(h.rt[x]) => h.ip[x] = h.rt[x].next
                                            /\ h.ip[x] # None
        BY <1>8, NoneIsNoNode DEF Calm, Well, EntryOK, Valid
    <2>2. \A x \in Node : Valid(g.rt[x]) => g.ip[x] = g.rt[x].next
        BY <1>4, <1>6, <2>1
    <2>3. \A x : Seeking(g, x) <=> Seeking(h, x)
        BY <1>6 DEF Seeking
    <2> QED BY <1>6, <1>8, <2>2, <2>3 DEF Calm
<1>9. Steady(h, g, n, ids)
    BY <1>1, <1>6, <1>7, <1>8 DEF Steady, Keeps
<1> QED BY <1>3, <1>9

\* rrep_send(): the precursors, the reply and the flag of its answer.
LEMMA RrepSendSteady ==
    ASSUME NEW ids, NEW n \in Node, NEW h, Well(h, n, ids), NEW c \in Choice,
           NEW r \in Node, h.rt[r].state # "NONE",
           NEW f \in Node \cup {None}, f # None => h.rt[f].state # "NONE",
           NEW hcnt \in Nat, NEW s \in Nat, NEW about \in Node
    PROVE  Steady(h, RrepSend(h, n, r, f, hcnt, s, about, c), n, ids)
<1> DEFINE hop == h.rt[r].next
           m == [type |-> "RREP", orig |-> r, dest |-> about, seqno |-> s,
                 hcnt |-> hcnt, a |-> c.garbage]
           g == [h EXCEPT !.ip[hop] = IF @ = None THEN hop ELSE @]
           k == Send(g, n, hop, MAXTTL, m)
           q == PrecursorAdd(k, f, hop)
           p == IF f = None THEN k ELSE PrecursorAdd(q, r, h.rt[f].next)
<1>1. RrepSend(h, n, r, f, hcnt, s, about, c) = HelloStart(p, n, c)
    BY DEF RrepSend
<1>2. hop \in Node /\ h \in Host(ids)
    BY DEF Well, EntryOK
<1>3. m \in Message(ids)
    BY DEF Message, Choice
<1>4. MAXTTL \in Nat
    BY ParamsAreNumbers
<1>5. f # None => h.rt[f].next \in Node
    BY DEF Well, EntryOK
<1> HIDE DEF hop, m
<1>6. Steady(h, g, n, ids)
    BY Zenon, <1>2, GatewayAdded
<1> HIDE DEF g
<1>7. Well(g, n, ids) /\ g \in Host(ids)
    BY <1>6 DEF Steady, Keeps, Well
<1>8. Steady(h, k, n, ids)
    <2>1. Sent(g, k, n, ids)
        BY <1>2, <1>3, <1>4, <1>7, SendSent
    <2>2. Steady(g, k, n, ids)
        BY <2>1, <1>7, SentSteady
    <2> QED BY <1>2, <1>6, <2>2, SteadyTransitive
<1> HIDE DEF k
<1>9. Steady(h, p, n, ids)
    <2>1. CASE f = None
        BY <1>8, <2>1
    <2>2. CASE f # None
        <3>1. Well(k, n, ids) /\ f \in Node
            BY <1>8, <2>2 DEF Steady, Keeps
        <3>2. Steady(k, q, n, ids)
            BY <1>2, <3>1, PrecursorAddSteady
        <3>3. Steady(h, q, n, ids)
            BY <1>2, <1>8, <3>2, SteadyTransitive
        <3> HIDE DEF q
        <3>4. Well(q, n, ids)
            BY <3>3 DEF Steady, Keeps
        <3>5. Steady(q, PrecursorAdd(q, r, h.rt[f].next), n, ids)
            BY <1>5, <2>2, <3>4, PrecursorAddSteady
        <3> QED BY <1>2, <2>2, <3>3, <3>5, SteadyTransitive
    <2> QED BY <2>1, <2>2
<1> HIDE DEF p
<1>10. Well(p, n, ids) /\ p \in Host(ids)
    BY <1>9 DEF Steady, Keeps, Well
<1>11. Steady(p, HelloStart(p, n, c), n, ids)
    BY <1>10, HelloStartSent, SentSteady
<1> QED BY <1>1, <1>2, <1>9, <1>11, SteadyTransitive

\* The larger of two numbers is a number and at least each of them.
LEMMA MaxOfTwo ==
    ASSUME NEW a \in Nat, NEW b \in Nat
    PROVE  Max({a, b}) \in Nat /\ Max({a, b}) >= a /\ Max({a, b}) >= b
<1>1. \E x \in {a, b} : \A y \in {a, b} : x >= y
    <2>1. CASE a >= b
        BY <2>1
    <2>2. CASE b >= a
        BY <2>2
    <2> QED BY <2>1, <2>2
<1>2. Max({a, b}) \in {a, b} /\ \A y \in {a, b} : Max({a, b}) >= y
    BY <1>1 DEF Max
<1> QED BY <1>2

Request == [type : {"RREQ"}, orig : Node, id : Nat, oseq : Nat, dest : Node,
            dseq : Nat, hcnt : Nat, d : BOOLEAN]

Reply == [type : {"RREP"}, orig : Node, dest : Node, seqno : Nat, hcnt : Nat,
          a : BOOLEAN]

\* A node with a fresh route answers for the destination.
LEMMA RreqAnswerSteady ==
    ASSUME NEW ids, NEW n \in Node, NEW h, Well(h, n, ids), NEW c \in Choice,
           NEW m \in Request, h.rt[m.dest].state # "NONE",
           h.rt[m.orig].state # "NONE"
    PROVE  Steady(h, RreqAnswer(h, n, m, c), n, ids)
<1> DEFINE fwd == h.rt[m.dest]
           rev == h.rt[m.orig]
           g == RrepSend(h, n, m.orig, m.dest, fwd.hcnt, fwd.seqno, m.dest, c)
           k == RrepSend(g, n, m.dest, m.orig, rev.hcnt, rev.seqno, m.orig, c)
<1>1. m.orig \in Node /\ m.dest \in Node
    BY DEF Request
<1>2. /\ fwd.hcnt \in Nat /\ fwd.seqno \in Nat /\ h \in Host(ids)
      /\ rev.hcnt \in Nat /\ rev.seqno \in Nat
    BY Zenon, <1>1 DEF Well, Host, Entry
<1>3. RreqAnswer(h, n, m, c) = k
    BY DEF RreqAnswer
<1> HIDE DEF fwd, rev
<1>4. Steady(h, g, n, ids)
    BY <1>1, <1>2, RrepSendSteady
<1> HIDE DEF g
<1>5. /\ Well(g, n, ids) /\ g.rt[m.dest].state # "NONE"
      /\ g.rt[m.orig].state # "NONE"
    BY <1>1, <1>4 DEF Steady, Keeps
<1>6. Steady(g, k, n, ids)
    BY <1>1, <1>2, <1>5, RrepSendSteady
<1> HIDE DEF k
<1> QED BY <1>2, <1>3, <1>4, <1>6, SteadyTransitive

\* rreq_forward().
LEMMA RreqForwardSent ==
    ASSUME NEW ids, NEW n \in Node, NEW h, Well(h, n, ids),
           NEW m \in Request, NEW ttl \in Nat
    PROVE  Sent(h, RreqForward(h, n, m, ttl), n, ids)
<1> DEFINE s == h.rt[m.dest].seqno
           v == Max({m.dseq, s})
           k == [m EXCEPT !.hcnt = m.hcnt + 1, !.dseq = v]
<1>1. m.dest \in Node /\ m.dseq \in Nat /\ m.hcnt \in Nat
    BY DEF Request
<1>2. s \in Nat
    BY <1>1 DEF Well, Host, Entry
<1>3. RreqForward(h, n, m, ttl) = IF ttl = 0 THEN h ELSE Send(h, n, None, ttl, k)
    BY DEF RreqForward
<1>4. v \in Nat /\ m.hcnt + 1 \in Nat
    BY <1>1, <1>2, MaxOfTwo
<1> HIDE DEF v
<1>5. k \in Request
    BY Zenon, <1>4 DEF Request
<1> HIDE DEF k
<1>6. k \in Message(ids)
    BY <1>5 DEF Message, Request
<1>7. Sent(h, Send(h, n, None, ttl, k), n, ids)
    BY <1>6, SendSent
<1> QED BY <1>3, <1>7, WellSent

\* The destination of a request answers it: its own number never goes back.
LEMMA RreqAtDestinationKeeps ==
    ASSUME NEW ids, NEW n \in Node, NEW h, Well(h, n, ids), NEW c \in Choice,
           NEW m \in Request, h.rt[m.orig].state # "NONE"
    PROVE  Keeps(h, RreqAtDestination(h, n, m, c), n, ids)
<1> DEFINE own == IF m.dseq = 0 THEN h.seqno
                  ELSE IF h.seqno = m.dseq THEN SeqnoIncr(h.seqno)
                  ELSE Max({h.seqno, m.dseq})
           g == [h EXCEPT !.seqno = own]
           k == RrepSend(g, n, m.orig, None, 0, own, n, c)
<1>1. m.orig \in Node /\ m.dseq \in Nat /\ h \in Host(ids) /\ h.seqno \in Nat
    BY Zenon DEF Request, Well, Host
<1>2. own \in Nat /\ own >= h.seqno
    <2>1. SeqnoIncr(h.seqno) \in Nat /\ SeqnoIncr(h.seqno) >= h.seqno
        BY <1>1 DEF SeqnoIncr
    <2>2. Max({h.seqno, m.dseq}) \in Nat /\ Max({h.seqno, m.dseq}) >= h.seqno
        BY <1>1, MaxOfTwo
    <2> QED BY <1>1, <2>1, <2>2
<1>3. RreqAtDestination(h, n, m, c) = k
    BY DEF RreqAtDestination
<1> HIDE DEF own
<1>4. Advanced(h, g, n, ids)
    BY Zenon, <1>2, NumbersWritten
<1> HIDE DEF g
<1>5. Well(g, n, ids) /\ g.rt[m.orig].state # "NONE" /\ Keeps(h, g, n, ids)
    BY <1>4, AdvancedKeeps DEF Advanced
<1>6. Steady(g, k, n, ids)
    BY <1>1, <1>2, <1>5, RrepSendSteady
<1>7. Keeps(g, k, n, ids)
    BY <1>6 DEF Steady
<1> QED BY <1>1, <1>3, <1>5, <1>7, KeepsTransitive

\* rreq_process().
LEMMA RreqProcessKeeps ==
    ASSUME NEW ids, NEW n \in Node, NEW h, Well(h, n, ids), NEW c \in Choice,
           NEW from \in Node, NEW m \in Request, NEW ttl \in Nat
    PROVE  Keeps(h, RreqProcess(h, n, from, m, ttl, c), n, ids)
<1>1. /\ m.orig \in Node /\ m.dest \in Node /\ m.oseq \in Nat /\ m.id \in Nat
      /\ m.hcnt + 1 \in Nat \ {0} /\ h \in Host(ids)
    BY DEF Request, Well
<1>2. CASE m.orig = n \/ <<m.orig, m.id>> \in h.records
    <2>1. Sent(h, h, n, ids)
        BY WellSent
    <2> QED BY <1>1, <1>2, <2>1, SentKeeps DEF RreqProcess
<1>3. CASE ~ (m.orig = n \/ <<m.orig, m.id>> \in h.records)
    <2> DEFINE g == [h EXCEPT !.records = h.records \cup {<<m.orig, m.id>>}]
               k == IF Fresher(g.rt[m.orig], m.oseq, m.hcnt + 1)
                    THEN RtTablePut(g, n, m.orig, from, m.hcnt + 1, m.oseq)
                    ELSE g
               fwd == k.rt[m.dest]
               p == IF m.dest = n THEN RreqAtDestination(k, n, m, c)
                    ELSE IF Valid(fwd) /\ ~ m.d /\ fwd.seqno # 0
                            /\ fwd.seqno >= m.dseq
                    THEN RreqAnswer(k, n, m, c)
                    ELSE RreqForward(k, n, m, ttl)
    <2>1. RreqProcess(h, n, from, m, ttl, c) = p
        BY <1>3 DEF RreqProcess
    <2>2. Sent(h, g, n, ids)
        <3>1. <<m.orig, m.id>> \in Node \X Nat
            BY <1>1
        <3>2. h.records \subseteq Node \X Nat
            BY <1>1 DEF Host
        <3>3. h.records \cup {<<m.orig, m.id>>} \in SUBSET (Node \X Nat)
            BY <3>1, <3>2
        <3> QED BY Zenon, <3>3, NumbersWritten
    <2> HIDE DEF g
    <2>3. Well(g, n, ids) /\ Keeps(h, g, n, ids)
        BY <1>1, <2>2, SentKeeps DEF Sent
    <2>4. Keeps(h, k, n, ids) /\ k.rt[m.orig].state # "NONE"
        <3>1. CASE Fresher(g.rt[m.orig], m.oseq, m.hcnt + 1)
            <4>1. RoutePut(g, k, n, ids, m.orig, from, m.hcnt + 1, "VALID")
                BY <1>1, <2>3, <3>1, RtTablePutKeeps
            <4> HIDE DEF k
            <4> QED BY <1>1, <2>3, <4>1, KeepsTransitive DEF RoutePut
        <3>2. CASE ~ Fresher(g.rt[m.orig], m.oseq, m.hcnt + 1)
            <4>1. k = g
                BY <3>2
            <4>2. g.rt[m.orig].state # "NONE"
                BY <1>1, <2>3, <3>2 DEF Fresher, Well, EntryOK
            <4> HIDE DEF k
            <4> QED BY <2>3, <4>1, <4>2
        <3> QED BY <3>1, <3>2
    <2> HIDE DEF k
    <2>5. Well(k, n, ids) /\ k \in Host(ids)
        BY <2>4 DEF Keeps, Well
    <2>6. CASE m.dest = n
        <3>1. Keeps(k, p, n, ids)
            BY <2>4, <2>5, <2>6, RreqAtDestinationKeeps
        <3> HIDE DEF p
        <3> QED BY <1>1, <2>1, <2>4, <3>1, KeepsTransitive
    <2>7. CASE /\ m.dest # n
               /\ Valid(fwd) /\ ~ m.d /\ fwd.seqno # 0 /\ fwd.seqno >= m.dseq
        <3>1. k.rt[m.dest].state # "NONE"
            BY <2>7 DEF Valid
        <3>2. Steady(k, RreqAnswer(k, n, m, c), n, ids)
            BY <2>4, <2>5, <3>1, RreqAnswerSteady
        <3>3. p = RreqAnswer(k, n, m, c)
            BY <2>7
        <3>4. Keeps(k, p, n, ids)
            BY <3>2, <3>3 DEF Steady
        <3> HIDE DEF p
        <3> QED BY <1>1, <2>1, <2>4, <3>4, KeepsTransitive
    <2>8. CASE /\ m.dest # n
               /\ ~ (Valid(fwd) /\ ~ m.d /\ fwd.seqno # 0 /\ fwd.seqno >= m.dseq)
        <3>1. p = RreqForward(k, n, m, ttl)
            BY <2>8
        <3>2. Sent(k, RreqForward(k, n, m, ttl), n, ids)
            BY <2>5, RreqForwardSent
        <3>3. Keeps(k, p, n, ids)
            BY <2>5, <3>1, <3>2, SentKeeps
        <3> HIDE DEF p
        <3> QED BY <1>1, <2>1, <2>4, <3>3, KeepsTransitive
    <2> QED BY <2>6, <2>7, <2>8
<1> QED BY <1>2, <1>3

\* rrep_forward(), with a valid route to the originator.
LEMMA RrepForwardSteady ==
    ASSUME NEW ids, NEW n \in Node, NEW h, Well(h, n, ids),
           NEW m \in Reply, NEW ttl \in Nat,
           h.rt[m.dest].state # "NONE", h.rt[m.orig].state # "NONE"
    PROVE  Steady(h, RrepForward(h, n, m, ttl), n, ids)
<1> DEFINE hop == h.rt[m.orig].next
           via == h.rt[m.dest].next
           far == h.rt[m.dest].hcnt
           b == [m EXCEPT !.hcnt = far, !.a = FALSE]
           g == Send(h, n, hop, ttl, b)
           k == PrecursorAdd(g, m.dest, hop)
           p == PrecursorAdd(k, m.orig, via)
<1>1. m.orig \in Node /\ m.dest \in Node /\ h \in Host(ids)
    BY DEF Reply, Well
<1>2. hop \in Node /\ via \in Node /\ far \in Nat
    BY Zenon, <1>1 DEF Well, Host, EntryOK, Entry
<1>3. RrepForward(h, n, m, ttl) = p
    BY DEF RrepForward
<1> HIDE DEF hop, via, far
<1>4. b \in Reply
    BY Zenon, <1>2 DEF Reply
<1> HIDE DEF b
<1>5. b \in Message(ids)
    BY <1>4 DEF Message, Reply
<1>6. Sent(h, g, n, ids)
    BY <1>2, <1>5, SendSent
<1> HIDE DEF g
<1>7. Steady(h, g, n, ids) /\ Well(g, n, ids)
    BY <1>1, <1>6, SentSteady DEF Sent
<1>8. Steady(g, k, n, ids)
    BY <1>1, <1>2, <1>7, PrecursorAddSteady
<1> HIDE DEF k
<1>9. Steady(h, k, n, ids) /\ Well(k, n, ids)
    <2>1. Steady(h, k, n, ids)
        BY Zenon, <1>1, <1>7, <1>8, SteadyTransitive
    <2>2. Well(k, n, ids)
        BY Zenon, <1>8 DEF Steady, Keeps
    <2> QED BY Zenon, <2>1, <2>2
<1>10. Steady(k, p, n, ids)
    BY <1>1, <1>2, <1>9, PrecursorAddSteady
<1> HIDE DEF p
<1> QED BY <1>1, <1>3, <1>9, <1>10, SteadyTransitive

\* A reply has reached who asked for it.
LEMMA RrepAtOriginatorSent ==
    ASSUME NEW ids, NEW n \in Node, NEW h, Well(h, n, ids), NEW m \in Reply,
           NEW before
    PROVE  Sent(h, RrepAtOriginator(h, n, m, before), n, ids)
<1> DEFINE u == <<m.dest, h.rt[m.dest].seqno>>
           b == [type |-> "RERR", n |-> TRUE, udest |-> {u}]
<1>1. u \in Node \X Nat
    BY Zenon DEF Reply, Well, Host, Entry
<1>2. \/ RrepAtOriginator(h, n, m, before) = h
      \/ RrepAtOriginator(h, n, m, before) = Send(h, n, None, 1, b)
    BY DEF RrepAtOriginator
<1> HIDE DEF u
<1>3. b \in Message(ids)
    BY <1>1 DEF Message
<1> HIDE DEF b
<1>4. Sent(h, Send(h, n, None, 1, b), n, ids)
    BY <1>3, SendSent
<1> QED BY <1>2, <1>4, WellSent

\* rrep_process().
LEMMA RrepProcessKeeps ==
    ASSUME NEW ids, NEW n \in Node, NEW h, Well(h, n, ids), NEW c \in Choice,
           NEW from \in Node, NEW m \in Reply, NEW ttl \in Nat
    PROVE  Keeps(h, RrepProcess(h, n, from, m, ttl, c), n, ids)
<1>1. /\ m.orig \in Node /\ m.dest \in Node /\ m.seqno \in Nat
      /\ m.hcnt + 1 \in Nat \ {0} /\ h \in Host(ids) /\ MAXTTL \in Nat
    BY ParamsAreNumbers DEF Reply, Well
<1>2. CASE m.dest = n \/ ~ Fresher(h.rt[m.dest], m.seqno, m.hcnt + 1)
    <2>1. Sent(h, h, n, ids)
        BY WellSent
    <2> QED BY <1>1, <1>2, <2>1, SentKeeps DEF RrepProcess
<1>3. CASE ~ (m.dest = n \/ ~ Fresher(h.rt[m.dest], m.seqno, m.hcnt + 1))
    <2> DEFINE g == RtTablePut(h, n, m.dest, from, m.hcnt + 1, m.seqno)
               b == [type |-> "RREP_ACK"]
               k == IF m.a THEN Send(g, n, from, MAXTTL, b) ELSE g
               p == IF m.orig = n THEN RrepAtOriginator(k, n, m, h.rt[m.dest])
                    ELSE IF Valid(k.rt[m.orig]) THEN RrepForward(k, n, m, ttl)
                    ELSE k
    <2>1. RrepProcess(h, n, from, m, ttl, c) = HelloStart(p, n, c)
        BY Zenon, <1>3 DEF RrepProcess
    <2>2. RoutePut(h, g, n, ids, m.dest, from, m.hcnt + 1, "VALID")
        BY <1>1, RtTablePutKeeps
    <2> HIDE DEF g
    <2>3. Keeps(h, g, n, ids) /\ Well(g, n, ids) /\ g.rt[m.dest].state = "VALID"
        BY <2>2 DEF RoutePut, Keeps
    <2>4. Sent(g, k, n, ids)
        <3>1. b \in Message(ids)
            BY DEF Message
        <3>2. Sent(g, Send(g, n, from, MAXTTL, b), n, ids)
            <4>1. from \in Node \cup {None}
                OBVIOUS
            <4> HIDE DEF b
            <4> QED BY <1>1, <2>3, <3>1, <4>1, SendSent
        <3>3. Sent(g, g, n, ids)
            BY <2>3, WellSent
        <3> QED BY <3>2, <3>3
    <2> HIDE DEF k
    <2>5. /\ Keeps(h, k, n, ids) /\ Well(k, n, ids) /\ k \in Host(ids)
          /\ k.rt[m.dest].state # "NONE"
        <3>1. Keeps(g, k, n, ids) /\ Well(k, n, ids) /\ k.rt = g.rt
            BY <2>3, <2>4, SentKeeps DEF Sent, Well
        <3> QED BY <1>1, <2>3, <3>1, KeepsTransitive DEF Well
    <2>6. Steady(k, p, n, ids)
        <3>1. CASE m.orig = n
            <4>1. Sent(k, RrepAtOriginator(k, n, m, h.rt[m.dest]), n, ids)
                BY <2>5, RrepAtOriginatorSent
            <4> QED BY <2>5, <3>1, <4>1, SentSteady
        <3>2. CASE m.orig # n /\ Valid(k.rt[m.orig])
            <4>1. k.rt[m.orig].state # "NONE"
                BY <3>2 DEF Valid
            <4>2. Steady(k, RrepForward(k, n, m, ttl), n, ids)
                BY <2>5, <4>1, RrepForwardSteady
            <4> QED BY <3>2, <4>2
        <3>3. CASE m.orig # n /\ ~ Valid(k.rt[m.orig])
            BY <2>5, <3>3, WellSent, SentSteady
        <3> QED BY <3>1, <3>2, <3>3
    <2> HIDE DEF p
    <2>7. Keeps(h, p, n, ids) /\ Well(p, n, ids) /\ p \in Host(ids)
        <3>1. Keeps(k, p, n, ids)
            BY <2>6 DEF Steady
        <3> QED BY Zenon, <1>1, <2>5, <3>1, KeepsTransitive DEF Keeps, Well
    <2>8. Keeps(p, HelloStart(p, n, c), n, ids)
        BY <2>7, HelloStartSent, SentKeeps
    <2> QED BY <1>1, <2>1, <2>7, <2>8, KeepsTransitive
<1> QED BY <1>2, <1>3

(***************************************************************************)
(* Route errors and link breaks                                             *)
(***************************************************************************)
LEMMA RerrSendSent ==
    ASSUME NEW ids, NEW n \in Node, NEW h, Well(h, n, ids),
           NEW lost, lost \subseteq Node, NEW nodelete \in BOOLEAN,
           NEW prec \in [Node -> SUBSET Node]
    PROVE  Sent(h, RerrSend(h, n, lost, nodelete, prec), n, ids)
<1> DEFINE U == {<<u, h.rt[u].seqno>> : u \in lost}
           b == [type |-> "RERR", n |-> nodelete, udest |-> U]
           p == prec[CHOOSE u \in lost : TRUE]
           only == IF Single(lost)
                   THEN IF Single(p)
                           /\ \A k \in p : h.rt[k].state # "NONE"
                        THEN CHOOSE k \in p : TRUE
                        ELSE None
                   ELSE None
<1>1. RerrSend(h, n, lost, nodelete, prec)
          = IF lost = {} THEN h ELSE Send(h, n, only, 1, b)
    BY DEF RerrSend
<1>2. U \subseteq Node \X Nat
    BY DEF Well, Host, Entry
<1> HIDE DEF U
<1>3. b \in Message(ids)
    BY <1>2 DEF Message
<1> HIDE DEF b
<1>4. CASE lost = {}
    BY <1>1, <1>4, WellSent
<1>5. CASE lost # {}
    <2>1. p \subseteq Node
        BY <1>5
    <2> HIDE DEF p
    <2>2. Single(p) => p # {}
        BY DEF Single
    <2>3. only \in Node \cup {None}
        BY <2>1, <2>2
    <2> HIDE DEF only
    <2>4. Sent(h, Send(h, n, only, 1, b), n, ids)
        BY <1>3, <2>3, SendSent
    <2> QED BY <1>1, <1>5, <2>4
<1> QED BY <1>4, <1>5

\* rt_table_invalidate() on one entry.
LEMMA InvalidatedEntry ==
    ASSUME NEW e \in Entry, e.next \in Node
    PROVE  /\ Invalidated(e) \in Entry /\ EntryOK(Invalidated(e))
           /\ CalmEntry(Invalidated(e)) /\ Invalidated(e).state = "INVALID"
<1> DEFINE f == Invalidated(e)
<1>1. SeqnoIncr(e.seqno) \in Nat
    BY DEF SeqnoIncr, Entry
<1>2. f \in Entry
    BY Zenon, <1>1 DEF Invalidated, Entry
<1>3. /\ f.state = "INVALID" /\ f.next = e.next /\ f.hello = FALSE
      /\ f.timer \in {"repair", "delete"}
    BY DEF Invalidated, Entry
<1> HIDE DEF f
<1>4. EntryOK(f) /\ CalmEntry(f)
    BY <1>3 DEF EntryOK, CalmEntry
<1> QED BY <1>2, <1>3, <1>4 DEF f

\* The precursors are purged.
LEMMA PurgedEntry ==
    ASSUME NEW e \in Entry, NEW P \in SUBSET Node
    PROVE  LET f == [e EXCEPT !.prec = P]
           IN  /\ f \in Entry /\ f.state = e.state /\ f.next = e.next
               /\ EntryOK(e) => EntryOK(f)
               /\ CalmEntry(e) => CalmEntry(f)
<1> DEFINE f == [e EXCEPT !.prec = P]
<1>1. f \in Entry
    BY DEF Entry
<1>2. /\ f.state = e.state /\ f.next = e.next /\ f.seqno = e.seqno
      /\ f.timer = e.timer /\ f.repair = e.repair /\ f.hello = e.hello
      /\ f.hcnt = e.hcnt
    BY DEF Entry
<1> HIDE DEF f
<1>3. (EntryOK(e) => EntryOK(f)) /\ (CalmEntry(e) => CalmEntry(f))
    BY <1>2 DEF EntryOK, CalmEntry
<1> QED BY <1>1, <1>2, <1>3 DEF f

\* Setting or clearing RT_REPAIR leaves the rest of an entry alone.
LEMMA RepairEntry ==
    ASSUME NEW e \in Entry, NEW b \in BOOLEAN
    PROVE  LET f == [e EXCEPT !.repair = b]
           IN  /\ f \in Entry /\ f.state = e.state /\ f.next = e.next
               /\ f.hcnt = e.hcnt /\ f.timer = e.timer /\ f.hello = e.hello
               /\ f.repair = b /\ f.seqno = e.seqno
BY DEF Entry

\* Both tables are written as a whole.
TablesWritten(h, g, n, ids, R, I) ==
    /\ Well(g, n, ids)
    /\ g.seqno = h.seqno /\ g.llfeedback = h.llfeedback
    /\ g.rt = R /\ g.ip = I /\ g.seek = h.seek /\ g.queue = h.queue

\* Writing both tables with proper entries leaves a proper host.
LEMMA AllWritten ==
    ASSUME NEW ids, NEW n \in Node, NEW h, Well(h, n, ids),
           NEW R \in [Node -> Entry], \A x \in Node : EntryOK(R[x]),
           NEW I \in [Node -> Node \cup {None}]
    PROVE  TablesWritten(h, [h EXCEPT !.rt = R, !.ip = I], n, ids, R, I)
<1> DEFINE g == [h EXCEPT !.rt = R, !.ip = I]
<1>1. h \in Host(ids)
    BY DEF Well
<1>2. g \in Host(ids)
    BY Zenon, <1>1 DEF Host
<1>3. /\ g.seqno = h.seqno /\ g.llfeedback = h.llfeedback
      /\ g.rt = R /\ g.ip = I
      /\ g.seek = h.seek /\ g.queue = h.queue /\ g.out = h.out
    BY <1>1 DEF Host
<1> HIDE DEF g
<1>4. Well(g, n, ids)
    BY <1>2, <1>3 DEF Well
<1>5. TablesWritten(h, g, n, ids, R, I)
    BY <1>3, <1>4 DEF TablesWritten
<1> QED BY <1>5 DEF g

\* Calm, but for a route to the neighbour d that is to be repaired and is
\* still valid.
Breaking(h, d) ==
    /\ \A x \in Node : /\ x # d => CalmEntry(h.rt[x])
                       /\ h.rt[x].hello => h.rt[x].hcnt = 1
                       /\ h.rt[x].timer = "repair" => h.rt[x].state = "INVALID"
                       /\ h.rt[x].repair =>
                              \/ h.rt[x].state = "INVALID"
                              \/ Valid(h.rt[x]) /\ h.rt[x].hcnt = 1
    /\ \A x \in Node : Valid(h.rt[x]) => h.ip[x] = h.rt[x].next
    /\ \A x \in Node : Seeking(h, x) => ~ Valid(h.rt[x])
    /\ \A i \in DOMAIN h.queue : /\ h.queue[i].dst \in Node
                                 /\ Seeking(h, h.queue[i].dst)

\* A calm host may lose the link to any neighbour.
LEMMA CalmBreaking ==
    ASSUME NEW h, NEW d \in Node, Calm(h)
    PROVE  Breaking(h, d)
BY DEF Calm, CalmEntry, Breaking

\* g is h with some routes gone: nothing becomes valid.
Broken(h, g, n, ids) ==
    /\ Well(g, n, ids)
    /\ g.seqno = h.seqno /\ g.llfeedback = h.llfeedback
    /\ g.seek = h.seek /\ g.queue = h.queue
    /\ \A x \in Node : Valid(g.rt[x]) => /\ Valid(h.rt[x])
                                         /\ g.rt[x].next = h.rt[x].next
                                         /\ g.ip[x] = h.ip[x]

\* rt_table_invalidate() takes one route out of both tables.
LEMMA RtTableInvalidateBroken ==
    ASSUME NEW ids, NEW n \in Node, NEW h, Well(h, n, ids), NEW d \in Node
    PROVE  LET g == RtTableInvalidate(h, d)
           IN  /\ Broken(h, g, n, ids)
               /\ ~ Valid(g.rt[d])
               /\ Valid(h.rt[d]) => CalmEntry(g.rt[d])
               /\ ~ Valid(h.rt[d]) => g.rt[d] = h.rt[d]
               /\ \A x \in Node \ {d} : g.rt[x] = h.rt[x]
<1> DEFINE g == RtTableInvalidate(h, d)
<1>1. CASE ~ Valid(h.rt[d])
    <2>1. g = h
        BY <1>1 DEF RtTableInvalidate
    <2> HIDE DEF g
    <2> QED BY <1>1, <2>1 DEF Broken, g
<1>2. CASE Valid(h.rt[d])
    <2> DEFINE e == Invalidated(h.rt[d])
    <2>1. h.rt[d] \in Entry /\ h.rt[d].next \in Node
        BY <1>2 DEF Well, Host, EntryOK, Valid
    <2>2. /\ e \in Entry /\ EntryOK(e) /\ CalmEntry(e)
          /\ e.state = "INVALID"
        BY <2>1, InvalidatedEntry
    <2>3. g = [h EXCEPT !.rt[d] = e, !.ip[d] = None]
        BY <1>2 DEF RtTableInvalidate
    <2> HIDE DEF e
    <2>4. e \in Entry /\ EntryOK(e) /\ None \in Node \cup {None}
        BY <2>2
    <2>5. Rewritten(h, [h EXCEPT !.rt[d] = e, !.ip[d] = None],
                    n, ids, d, e, None)
        BY Zenon, <2>4, BothWritten
    <2>6. Rewritten(h, g, n, ids, d, e, None)
        BY <2>3, <2>5
    <2> HIDE DEF g
    <2>7. ~ Valid(g.rt[d])
        BY <2>2, <2>6 DEF Rewritten, Routed, Valid
    <2>8. Broken(h, g, n, ids)
        BY <2>6, <2>7 DEF Rewritten, Routed, Broken
    <2> QED BY <1>2, <2>2, <2>6, <2>7, <2>8 DEF Rewritten, Routed, g
<1> QED BY <1>1, <1>2

\* neighbor_link_break().
LEMMA NeighborLinkBreakKeeps ==
    ASSUME NEW ids, NEW n \in Node, NEW h, Well(h, n, ids), NEW d \in Node
    PROVE  LET k == NeighborLinkBreak(h, n, d)
           IN  /\ Broken(h, k, n, ids)
               /\ Breaking(h, d) => Calm(k)
<1>1. CASE h.rt[d].hcnt # 1
    <2>1. NeighborLinkBreak(h, n, d) = h
        BY <1>1 DEF NeighborLinkBreak
    <2>2. Broken(h, h, n, ids)
        BY DEF Broken
    <2>3. ASSUME Breaking(h, d) PROVE Calm(h)
        BY <1>1, <2>3 DEF Breaking, Calm, CalmEntry
    <2> QED BY <2>1, <2>2, <2>3
<1>2. CASE h.rt[d].hcnt = 1
    <2> DEFINE g == RtTableInvalidate(h, d)
               repair == g.rt[d].repair
               via  == {u \in Node \ {d} : Valid(g.rt[u]) /\ g.rt[u].next = d}
               kept == {u \in via : repair /\ g.rt[u].hcnt <= MAX_REPAIR_TTL}
               gone == (via \ kept) \cup (IF repair THEN {} ELSE {d})
               prec == [u \in Node |-> g.rt[u].prec]
               new(u) == IF u \in via
                         THEN Invalidated([g.rt[u] EXCEPT
                                  !.repair = @ \/ u \in kept])
                         ELSE g.rt[u]
               R == [u \in Node |-> IF u \in gone
                                    THEN [new(u) EXCEPT !.prec = {}]
                                    ELSE new(u)]
               I == [u \in Node |-> IF u \in via THEN None ELSE g.ip[u]]
               f == [g EXCEPT !.rt = R, !.ip = I]
               lost == {u \in gone : prec[u] # {}}
               k == RerrSend(f, n, lost, FALSE, prec)
    <2>1. NeighborLinkBreak(h, n, d) = k
        BY <1>2 DEF NeighborLinkBreak
    <2>2. /\ Broken(h, g, n, ids)
          /\ ~ Valid(g.rt[d])
          /\ Valid(h.rt[d]) => CalmEntry(g.rt[d])
          /\ ~ Valid(h.rt[d]) => g.rt[d] = h.rt[d]
          /\ \A x \in Node \ {d} : g.rt[x] = h.rt[x]
        BY SMTT(30), RtTableInvalidateBroken
    <2> HIDE DEF g
    <2>3. /\ Well(g, n, ids) /\ g \in Host(ids)
          /\ g.rt \in [Node -> Entry] /\ g.ip \in [Node -> Node \cup {None}]
          /\ \A u \in Node : EntryOK(g.rt[u])
        BY Zenon, <2>2 DEF Broken, Well, Host
    <2>4. prec \in [Node -> SUBSET Node] /\ lost \subseteq Node
        BY <2>3 DEF Entry
    <2>5. ASSUME NEW u \in via
          PROVE  /\ new(u) \in Entry /\ EntryOK(new(u)) /\ CalmEntry(new(u))
                 /\ new(u).state = "INVALID"
        <3> DEFINE b == g.rt[u].repair \/ u \in kept
                   e == [g.rt[u] EXCEPT !.repair = b]
        <3>1. /\ u \in Node /\ g.rt[u] \in Entry /\ g.rt[u].next \in Node
            BY <2>3 DEF Valid, EntryOK
        <3>2. b \in BOOLEAN
            OBVIOUS
        <3>3. new(u) = Invalidated(e)
            OBVIOUS
        <3> HIDE DEF b, new
        <3>4. e \in Entry /\ e.next \in Node
            BY <3>1, <3>2, RepairEntry
        <3> HIDE DEF e
        <3> QED BY <3>3, <3>4, InvalidatedEntry
    <2>6. ASSUME NEW u \in Node \ via
          PROVE  new(u) = g.rt[u]
        BY <2>6
    <2>7. ASSUME NEW u \in Node
          PROVE  new(u) \in Entry /\ EntryOK(new(u))
        <3> HIDE DEF via, new
        <3> QED BY <2>3, <2>5, <2>6
    <2> HIDE DEF new, lost, prec
    <2>8. ASSUME NEW u \in Node
          PROVE  /\ R[u] \in Entry /\ EntryOK(R[u])
                 /\ R[u].state = new(u).state /\ R[u].next = new(u).next
                 /\ CalmEntry(new(u)) => CalmEntry(R[u])
        <3>1. new(u) \in Entry /\ EntryOK(new(u)) /\ {} \in SUBSET Node
            BY <2>7
        <3>2. R[u] = IF u \in gone THEN [new(u) EXCEPT !.prec = {}] ELSE new(u)
            OBVIOUS
        <3> HIDE DEF R, gone
        <3> QED BY <3>1, <3>2, PurgedEntry
    <2>9. R \in [Node -> Entry] /\ I \in [Node -> Node \cup {None}]
        <3>1. R = [u \in Node |-> R[u]]
            OBVIOUS
        <3>2. I \in [Node -> Node \cup {None}]
            BY <2>3
        <3> HIDE DEF R, I
        <3> QED BY <2>8, <3>1, <3>2
    <2>10. \A u \in Node : I[u] = IF u \in via THEN None ELSE g.ip[u]
        OBVIOUS
    <2> HIDE DEF R, I
    <2>11. TablesWritten(g, f, n, ids, R, I)
        BY Zenon, <2>3, <2>8, <2>9, AllWritten
    <2> HIDE DEF f
    <2>12. Sent(f, k, n, ids)
        BY Zenon, <2>4, <2>11, RerrSendSent DEF TablesWritten
    <2> HIDE DEF k
    <2>13. /\ Well(k, n, ids) /\ k.rt = R /\ k.ip = I
           /\ k.seqno = h.seqno /\ k.llfeedback = h.llfeedback
           /\ k.seek = h.seek /\ k.queue = h.queue
        BY <2>2, <2>11, <2>12 DEF TablesWritten, Sent, Broken
    <2>14. ASSUME NEW u \in Node, Valid(R[u])
           PROVE  /\ u # d /\ u \notin via /\ Valid(h.rt[u])
                  /\ R[u].next = h.rt[u].next /\ I[u] = h.ip[u]
        <3>1. u \notin via
            BY <2>5, <2>8, <2>14 DEF Valid
        <3>2. Valid(g.rt[u]) /\ R[u].next = g.rt[u].next
            BY <2>6, <2>8, <2>14, <3>1 DEF Valid
        <3> HIDE DEF via
        <3> QED BY <2>2, <2>10, <3>1, <3>2 DEF Broken
    <2>15. Broken(h, k, n, ids)
        BY <2>13, <2>14 DEF Broken
    <2>16. ASSUME Breaking(h, d) PROVE Calm(k)
        <3>1. ASSUME NEW u \in Node PROVE CalmEntry(R[u])
            <4>1. CASE u \in via
                BY <2>5, <2>8, <4>1
            <4>2. CASE u = d
                <5>1. u \notin via
                    BY <4>2
                <5>2. CalmEntry(g.rt[u])
                    BY Zenon, <2>2, <2>16, <4>2 DEF Breaking, CalmEntry
                <5> HIDE DEF via
                <5> QED BY <2>6, <2>8, <5>1, <5>2
            <4>3. CASE u \notin via /\ u # d
                <5> HIDE DEF via
                <5>1. CalmEntry(g.rt[u])
                    BY <2>2, <2>16, <4>3 DEF Breaking
                <5> QED BY <2>6, <2>8, <4>3, <5>1
            <4> QED BY <4>1, <4>2, <4>3
        <3>2. \A u \in Node : Valid(R[u]) => I[u] = R[u].next
            BY <2>14, <2>16 DEF Breaking
        <3>3. \A x : Seeking(k, x) <=> Seeking(h, x)
            BY <2>13 DEF Seeking
        <3>4. \A u \in Node : Seeking(k, u) => ~ Valid(R[u])
            BY Zenon, <2>14, <2>16, <3>3 DEF Breaking
        <3> HIDE DEF via
        <3> QED BY Zenon, <2>13, <2>16, <3>1, <3>2, <3>3, <3>4 DEF Calm, Breaking
    <2> QED BY <2>1, <2>15, <2>16
<1> QED BY <1>1, <1>2

RouteError == [type : {"RERR"}, n : BOOLEAN, udest : SUBSET (Node \X Nat)]

\* A route gone is nothing Calm depends on.
LEMMA BrokenKeeps ==
    ASSUME NEW ids, NEW n, NEW h, h \in Host(ids), NEW g,
           Broken(h, g, n, ids),
           Calm(h) => \A x \in Node : CalmEntry(g.rt[x])
    PROVE  Keeps(h, g, n, ids)
<1>1. \A x : Seeking(g, x) <=> Seeking(h, x)
    BY DEF Broken, Seeking
<1>2. Calm(h) => Calm(g)
    BY <1>1 DEF Broken, Calm
<1>3. g.seqno >= h.seqno
    BY SMTT(30) DEF Broken, Host
<1> QED BY <1>2, <1>3 DEF Broken, Keeps

\* The number of an entry is overwritten.
LEMMA NumberedEntry ==
    ASSUME NEW e \in Entry, e.state # "NONE", NEW s \in Nat
    PROVE  LET f == [e EXCEPT !.seqno = s]
           IN  /\ f \in Entry /\ f.state = e.state /\ f.next = e.next
               /\ EntryOK(e) => EntryOK(f)
               /\ CalmEntry(e) => CalmEntry(f)
<1> DEFINE f == [e EXCEPT !.seqno = s]
<1>1. f \in Entry
    BY DEF Entry
<1>2. /\ f.state = e.state /\ f.next = e.next /\ f.timer = e.timer
      /\ f.repair = e.repair /\ f.hello = e.hello /\ f.hcnt = e.hcnt
    BY DEF Entry
<1> HIDE DEF f
<1>3. (EntryOK(e) => EntryOK(f)) /\ (CalmEntry(e) => CalmEntry(f))
    BY <1>2 DEF EntryOK, CalmEntry
<1> QED BY <1>1, <1>2, <1>3 DEF f

\* rerr_process().
LEMMA RerrProcessKeeps ==
    ASSUME NEW ids, NEW n \in Node, NEW h, Well(h, n, ids), NEW from \in Node,
           NEW m \in RouteError
    PROVE  Keeps(h, RerrProcess(h, n, from, m), n, ids)
<1> DEFINE hit  == {u \in m.udest : Valid(h.rt[u[1]]) /\ h.rt[u[1]].next = from}
           dest == {u[1] : u \in hit}
           num(d) == (CHOOSE u \in hit : u[1] = d)[2]
           prec == [d \in Node |-> h.rt[d].prec]
           told == {d \in dest : prec[d] # {} /\ ~ h.rt[d].repair}
           R == [d \in Node |->
                    IF d \notin dest THEN h.rt[d]
                    ELSE IF m.n THEN [h.rt[d] EXCEPT !.seqno = num(d)]
                    ELSE [Invalidated(h.rt[d]) EXCEPT !.seqno = num(d),
                                                      !.prec = {}]]
           I == [d \in Node |-> IF d \in dest /\ ~ m.n THEN None ELSE h.ip[d]]
           g == [h EXCEPT !.rt = R, !.ip = I]
           k == RerrSend(g, n, told, m.n, prec)
<1>1. RerrProcess(h, n, from, m) = k
    BY DEF RerrProcess
<1>2. /\ h \in Host(ids) /\ h.rt \in [Node -> Entry]
      /\ h.ip \in [Node -> Node \cup {None}]
      /\ \A d \in Node : EntryOK(h.rt[d])
    BY Zenon DEF Well, Host
<1>3. m.n \in BOOLEAN /\ m.udest \subseteq Node \X Nat
    BY DEF RouteError
<1>4. ASSUME NEW d \in dest
      PROVE  d \in Node /\ num(d) \in Nat /\ Valid(h.rt[d])
    <2>1. PICK u \in hit : d = u[1]
        BY <1>4
    <2>2. (CHOOSE v \in hit : v[1] = d) \in hit
        BY <2>1
    <2>3. \A v \in hit : v[1] \in Node /\ v[2] \in Nat /\ Valid(h.rt[v[1]])
        BY <1>3
    <2> HIDE DEF hit
    <2> QED BY <2>1, <2>2, <2>3
<1>5. prec \in [Node -> SUBSET Node] /\ told \subseteq Node
    <2>1. prec \in [Node -> SUBSET Node]
        BY <1>2 DEF Entry
    <2> HIDE DEF dest, prec
    <2> QED BY <1>4, <2>1
<1> HIDE DEF hit, dest, num, prec, told
<1>6. ASSUME NEW d \in Node
      PROVE  /\ R[d] \in Entry /\ EntryOK(R[d])
             /\ CalmEntry(h.rt[d]) => CalmEntry(R[d])
             /\ Valid(R[d]) => /\ Valid(h.rt[d]) /\ R[d].next = h.rt[d].next
                               /\ I[d] = h.ip[d]
    <2>1. CASE d \notin dest
        BY <1>2, <2>1
    <2>2. CASE d \in dest /\ m.n
        <3> DEFINE f == [h.rt[d] EXCEPT !.seqno = num(d)]
        <3>1. R[d] = f /\ I[d] = h.ip[d]
            BY <2>2
        <3>2. h.rt[d] \in Entry /\ h.rt[d].state # "NONE" /\ num(d) \in Nat
            BY <1>2, <1>4, <2>2 DEF Valid
        <3>3. /\ f \in Entry /\ f.state = h.rt[d].state
              /\ f.next = h.rt[d].next /\ EntryOK(f)
              /\ CalmEntry(h.rt[d]) => CalmEntry(f)
            BY <1>2, <3>2, NumberedEntry
        <3> HIDE DEF f, R, I
        <3> QED BY <3>1, <3>3 DEF Valid
    <2>3. CASE d \in dest /\ ~ m.n
        <3> DEFINE e == Invalidated(h.rt[d])
                   s == num(d)
                   f == [e EXCEPT !.seqno = s]
                   p == [f EXCEPT !.prec = {}]
        <3>1. R[d] = p
            BY <2>3
        <3>2. h.rt[d] \in Entry /\ h.rt[d].next \in Node /\ s \in Nat
            BY <1>2, <1>4, <2>3 DEF Valid, EntryOK
        <3>3. e \in Entry /\ EntryOK(e) /\ CalmEntry(e) /\ e.state = "INVALID"
            BY <3>2, InvalidatedEntry
        <3> HIDE DEF e, s
        <3>4. /\ f \in Entry /\ EntryOK(f) /\ CalmEntry(f)
              /\ f.state = "INVALID"
            BY <3>2, <3>3, NumberedEntry
        <3> HIDE DEF f
        <3>5. /\ p \in Entry /\ EntryOK(p) /\ CalmEntry(p)
              /\ p.state = "INVALID"
            <4>1. {} \in SUBSET Node
                OBVIOUS
            <4> QED BY <3>4, <4>1, PurgedEntry
        <3> HIDE DEF p, R
        <3> QED BY <3>1, <3>5 DEF Valid
    <2> QED BY <2>1, <2>2, <2>3
<1>7. R \in [Node -> Entry] /\ I \in [Node -> Node \cup {None}]
    <2>1. R = [d \in Node |-> R[d]]
        OBVIOUS
    <2>2. I \in [Node -> Node \cup {None}]
        BY <1>2
    <2> HIDE DEF R, I
    <2> QED BY <1>6, <2>1, <2>2
<1> HIDE DEF R, I
<1>8. TablesWritten(h, g, n, ids, R, I)
    BY Zenon, <1>6, <1>7, AllWritten
<1> HIDE DEF g
<1>9. Sent(g, k, n, ids)
    BY <1>3, <1>5, <1>8, RerrSendSent DEF TablesWritten
<1> HIDE DEF k
<1>10. /\ Well(k, n, ids) /\ k.rt = R /\ k.ip = I
       /\ k.seqno = h.seqno /\ k.llfeedback = h.llfeedback
       /\ k.seek = h.seek /\ k.queue = h.queue
    BY <1>8, <1>9 DEF TablesWritten, Sent
<1>11. Broken(h, k, n, ids)
    BY <1>6, <1>10 DEF Broken
<1>12. ASSUME Calm(h) PROVE \A d \in Node : CalmEntry(k.rt[d])
    BY <1>6, <1>10, <1>12 DEF Calm
<1>13. Keeps(h, k, n, ids)
    BY <1>2, <1>11, <1>12, BrokenKeeps
<1> QED BY <1>1, <1>13

\* aodv_socket_process_packet().
LEMMA ProcessPacketKeeps ==
    ASSUME NEW ids, NEW n \in Node, NEW h, Well(h, n, ids), NEW c \in Choice,
           NEW from \in Node, NEW m \in Message(ids), m.type # "DATA",
           NEW ttl \in Nat
    PROVE  Keeps(h, ProcessPacket(h, n, from, m, ttl, c), n, ids)
<1>1. h \in Host(ids)
    BY DEF Well
<1>2. CASE from = n
    BY <1>1, <1>2, WellSent, SentKeeps DEF ProcessPacket
<1>3. CASE from # n /\ m.type = "HELLO"
    <2>1. m.seqno \in Nat
        BY <1>3 DEF Message
    <2>2. ProcessPacket(h, n, from, m, ttl, c) = HelloProcess(h, n, from, m)
        BY <1>3 DEF ProcessPacket
    <2> QED BY <2>1, <2>2, HelloProcessKeeps
<1>4. CASE from # n /\ m.type # "HELLO"
    <2> DEFINE g == NeighborAdd(h, n, from)
    <2>1. Keeps(h, g, n, ids)
        BY NeighborAddKeeps
    <2>2. ProcessPacket(h, n, from, m, ttl, c) =
              CASE m.type = "RREQ" -> RreqProcess(g, n, from, m, ttl, c)
                [] m.type = "RREP" -> RrepProcess(g, n, from, m, ttl, c)
                [] m.type = "RERR" -> RerrProcess(g, n, from, m)
                [] m.type = "RREP_ACK" -> g
        BY Zenon, <1>4 DEF ProcessPacket
    <2> HIDE DEF g
    <2>3. Well(g, n, ids) /\ g \in Host(ids)
        BY <2>1 DEF Keeps, Well
    <2>4. \/ m.type = "RREQ" /\ m \in Request
          \/ m.type = "RREP" /\ m \in Reply
          \/ m.type = "RERR" /\ m \in RouteError
          \/ m.type = "RREP_ACK"
        BY <1>4 DEF Message, Request, Reply, RouteError
    <2>5. CASE m.type = "RREQ" /\ m \in Request
        <3>1. ProcessPacket(h, n, from, m, ttl, c)
                  = RreqProcess(g, n, from, m, ttl, c)
            BY <2>2, <2>5
        <3>2. Keeps(g, RreqProcess(g, n, from, m, ttl, c), n, ids)
            BY <2>3, <2>5, RreqProcessKeeps
        <3> QED BY <1>1, <2>1, <3>1, <3>2, KeepsTransitive
    <2>6. CASE m.type = "RREP" /\ m \in Reply
        <3>1. ProcessPacket(h, n, from, m, ttl, c)
                  = RrepProcess(g, n, from, m, ttl, c)
            BY <2>2, <2>6
        <3>2. Keeps(g, RrepProcess(g, n, from, m, ttl, c), n, ids)
            BY <2>3, <2>6, RrepProcessKeeps
        <3> QED BY <1>1, <2>1, <3>1, <3>2, KeepsTransitive
    <2>7. CASE m.type = "RERR" /\ m \in RouteError
        <3>1. ProcessPacket(h, n, from, m, ttl, c)
                  = RerrProcess(g, n, from, m)
            BY <2>2, <2>7
        <3>2. Keeps(g, RerrProcess(g, n, from, m), n, ids)
            BY <2>3, <2>7, RerrProcessKeeps
        <3> QED BY <1>1, <2>1, <3>1, <3>2, KeepsTransitive
    <2>8. CASE m.type = "RREP_ACK"
        BY <2>1, <2>2, <2>8
    <2> QED BY <2>4, <2>5, <2>6, <2>7, <2>8
<1> QED BY <1>2, <1>3, <1>4

=============================================================================
