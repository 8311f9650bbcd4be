-------------------------------- MODULE AODV --------------------------------
(***************************************************************************)
(* A wireless network of AODV-UU hosts: the agents of AODVRouting, the part  *)
(* of IP (networklayer/ipv4/IP.cc) that hands them datagrams without a       *)
(* route, and links that come and go.                                       *)
(*                                                                          *)
(* Frames in flight are a set: the random delay the code puts before every  *)
(* broadcast reorders them. A broadcast reaches who is in range when it is   *)
(* sent. With llfeedback the MAC tells the sender of a unicast that did not  *)
(* arrive.                                                                  *)
(***************************************************************************)
EXTENDS AODVRouting

CONSTANTS Feedback,    \* the values the parameter llfeedback may have
          Topologies,  \* the sets of pairs of hosts that may be in range
          Flows,       \* the <<source, destination>> of each datagram in turn
          DataTTL,     \* time to live of a data datagram
          Limit        \* how often each of the faults below may happen

VARIABLES host, net, links,
          sent, arrived,   \* how many datagrams left, and which arrived
          spent            \* how often each fault happened

vars == <<host, net, links, sent, arrived, spent>>

Budgets == {"loss", "timeout", "hello", "link", "race", "garbage", "any"}

ASSUME NetworkIsWellFormed ==
    /\ \A l \in UNION Topologies : l \subseteq Node /\ Cardinality(l) = 2
    /\ Flows \in Seq({f \in Node \X Node : f[1] # f[2]})
    /\ DataTTL \in Nat \ {0}
    /\ Feedback \subseteq BOOLEAN
    /\ Limit \in [Budgets -> Nat]

Control == {"RREQ", "RREP", "RERR", "HELLO", "RREP_ACK"}

Linked(a, b) == a = b \/ {a, b} \in links

\* A step that is bounded by the budgets B and by the one for all of them.
Pay(B) ==
    LET due == IF B = {} THEN {} ELSE B \cup {"any"}
    IN  /\ \A b \in due : spent[b] < Limit[b]
        /\ spent' = [b \in Budgets |-> spent[b] + IF b \in due THEN 1 ELSE 0]

\* Timers and movements take seconds, frames milliseconds: the two meet at
\* most Limit.race times.
Race == IF net = {} THEN {} ELSE {"race"}

Garbage(c) == IF c.garbage THEN {"garbage"} ELSE {}

(***************************************************************************)
(* IP                                                                       *)
(***************************************************************************)
\* IP::routePacket: local delivery, the gateway of the routing table, or a
\* MANET_ROUTE_NOROUTE to the agent, which handles it in the same instant.
RoutePacket(h, n, p, c) ==
    IF p.dst \in {n, None}
    THEN IF p.body.type \in Control
         THEN ProcessPacket(h, n, p.src, p.body, p.ttl, c)
         ELSE h
    ELSE IF h.ip[p.dst] = None THEN NoRouteFor(h, n, p, c)
    ELSE IF p.ttl = 0 THEN h
    ELSE [h EXCEPT !.out = @ \cup {[p EXCEPT !.hop = h.ip[p.dst]]}]

Frames(n, o) ==
    {[from |-> n, to |-> m, p |-> o] :
        m \in IF o.hop = None THEN {k \in Node : {k, n} \in links}
                              ELSE {o.hop}}

\* The host n becomes h and what h sends is in flight, without the frames
\* in used.
Become(n, h, used) ==
    \E g \in {h} :
        /\ host' = [host EXCEPT ![n] = [g EXCEPT !.out = {}]]
        /\ net' = (net \ used) \cup UNION {Frames(n, o) : o \in g.out}

(***************************************************************************)
(* Actions                                                                  *)
(***************************************************************************)
Init ==
    /\ \E l \in Feedback : host = [n \in Node |-> InitHost(l)]
    /\ net = {}
    /\ links \in Topologies
    /\ sent = 0 /\ arrived = {}
    /\ spent = [b \in Budgets |-> 0]

\* The application whose turn it is sends a datagram.
AppSend(c) ==
    /\ sent < Len(Flows)
    /\ Pay(Race \cup Garbage(c))
    /\ sent' = sent + 1
    /\ LET f == Flows[sent']
           p == [hop |-> f[1], src |-> f[1], dst |-> f[2], ttl |-> DataTTL,
                 body |-> [type |-> "DATA", id |-> sent']]
       IN  Become(f[1], RoutePacket(host[f[1]], f[1], p, c), {})
    /\ UNCHANGED <<links, arrived>>

\* IP takes a frame from the interface, which costs it one of its hops, or a
\* datagram back from the agent.
Deliver(e, c) ==
    /\ Linked(e.from, e.to)
    /\ Pay(Garbage(c))
    /\ LET p == IF e.from = e.to THEN e.p ELSE [e.p EXCEPT !.ttl = @ - 1]
       IN  /\ Become(e.to, RoutePacket(host[e.to], e.to, p, c), {e})
           /\ arrived' = IF p.dst = e.to /\ p.body.type = "DATA"
                         THEN arrived \cup {p.body.id} ELSE arrived
    /\ UNCHANGED <<links, sent>>

\* A frame is lost: out of range, or by a collision.
Lose(e, c) ==
    /\ e.from # e.to
    /\ Pay(Garbage(c) \cup IF Linked(e.from, e.to) THEN {"loss"} ELSE {})
    /\ IF host[e.from].llfeedback /\ e.p.dst # None
       THEN Become(e.from, PacketFailed(host[e.from], e.from, e.p, c), {e})
       ELSE net' = net \ {e} /\ UNCHANGED host
    /\ UNCHANGED <<links, sent, arrived>>

\* Two hosts move into or out of range.
Move(a, b) ==
    /\ Pay({"link"} \cup Race)
    /\ a # b
    /\ links' = IF {a, b} \in links THEN links \ {{a, b}}
                                    ELSE links \cup {{a, b}}
    /\ UNCHANGED <<host, net, sent, arrived>>

SeekTimeout(n, d, c) ==
    /\ Pay(Race \cup Garbage(c))
    /\ Seeking(host[n], d)
    /\ Become(n, RouteDiscoveryTimeout(host[n], n, d, c), {})
    /\ UNCHANGED <<links, sent, arrived>>

\* rt_timer. The code keeps the timer of an entry that is sought ahead of the
\* next seek_timer.
RtTimer(n, d) ==
    /\ Pay({"timeout"} \cup Race)
    /\ host[n].rt[d].state # "NONE" /\ ~ Seeking(host[n], d)
    /\ Become(n, RouteTimeout(host[n], n, d), {})
    /\ UNCHANGED <<links, sent, arrived>>

NeighborTimer(n, d) ==
    /\ Pay({"timeout"} \cup Race)
    /\ host[n].rt[d].hello
    /\ Become(n, HelloTimeout(host[n], n, d), {})
    /\ UNCHANGED <<links, sent, arrived>>

\* hello_timer: the next hello, or none any more when the host forwarded
\* nothing for ACTIVE_ROUTE_TIMEOUT.
HelloTimer(n, c, stop) ==
    /\ Pay({"hello"} \cup Race)
    /\ host[n].hello
    /\ Become(n, IF stop THEN [host[n] EXCEPT !.hello = FALSE]
                         ELSE HelloSend(host[n], n, c), {})
    /\ UNCHANGED <<links, sent, arrived>>

\* rreq_record_timeout: PATH_DISCOVERY_TIME after the request came, when no
\* copy of it is on its way any more.
RecordTimeout(n, r) ==
    /\ Pay({"timeout"})
    /\ \A e \in net : e.p.body.type = "RREQ" => <<e.p.body.orig, e.p.body.id>> # r
    /\ host' = [host EXCEPT ![n].records = @ \ {r}]
    /\ UNCHANGED <<net, links, sent, arrived>>

\* packet_queue_timeout.
QueueTimer(n) ==
    /\ Pay({"timeout"} \cup Race)
    /\ Become(n, PacketQueueGarbageCollect(host[n]), {})
    /\ UNCHANGED <<links, sent, arrived>>

Next ==
    \/ \E c \in Choice : AppSend(c)
    \/ \E e \in net, c \in Choice : Deliver(e, c)
    \/ \E e \in net, c \in Choice : Lose(e, c)
    \/ \E a, b \in Node : Move(a, b)
    \/ \E n, d \in Node, c \in Choice : SeekTimeout(n, d, c)
    \/ \E n, d \in Node : RtTimer(n, d)
    \/ \E n, d \in Node : NeighborTimer(n, d)
    \/ \E n \in Node, c \in Choice, s \in BOOLEAN : HelloTimer(n, c, s)
    \/ \E n \in Node : \E r \in host[n].records : RecordTimeout(n, r)
    \/ \E n \in Node : QueueTimer(n)

Spec == Init /\ [][Next]_vars

\* The network does not stand still while a frame is in flight or a search
\* has its timer running. Nothing else has to happen.
Proceed ==
    \/ \E e \in net, c \in Choice : Deliver(e, c)
    \/ \E e \in net, c \in Choice : ~ Linked(e.from, e.to) /\ Lose(e, c)
    \/ \E n, d \in Node, c \in Choice : SeekTimeout(n, d, c)

FairSpec == Spec /\ WF_vars(Proceed)

(***************************************************************************)
(* Properties                                                               *)
(***************************************************************************)
\* Every host's table, every frame in flight and every budget is of its type,
\* the data in buffers and frames has been sent, and the packet buffer keeps
\* to its bound.
TypeOK ==
    /\ host \in [Node -> Host(1 .. sent)]
    /\ net \subseteq [from : Node, to : Node, p : Datagram(1 .. sent)]
    /\ links \subseteq SUBSET Node
    /\ sent \in 0 .. Len(Flows) /\ arrived \subseteq 1 .. sent
    /\ \A n \in Node : /\ host[n].out = {}
                       /\ Len(host[n].queue) <= MAX_QUEUE_LENGTH
    /\ spent \in [Budgets -> Nat]

\* No circle of valid routes: whoever follows the next_hop fields of the
\* routing tables towards a destination never comes back to a host.
LoopFree ==
    \A d \in Node : \A S \in SUBSET (Node \ {d}) :
        S # {} => \E n \in S : \/ ~ Valid(host[n].rt[d])
                               \/ host[n].rt[d].next \notin S

\* IP forwards where the agent's table says: rt_table_insert, rt_table_update
\* and rt_table_invalidate write the two tables at different places and under
\* different conditions, and never leave a valid route with another gateway.
KernelFollowsTable ==
    \A n, d \in Node :
        Valid(host[n].rt[d]) => host[n].ip[d] = host[n].rt[d].next

\* Without link layer feedback a buffered datagram waits for a search that
\* goes on: no order of replies, errors and timers strands it in PQ.
QueuedMeansSeeking ==
    \A n \in Node : ~ host[n].llfeedback =>
        \A i \in DOMAIN host[n].queue :
            Seeking(host[n], host[n].queue[i].dst)

\* A search goes on only while there is no route: whatever makes the route
\* valid, be it only a message overheard, also ends the search.
SeekingMeansNoRoute ==
    \A n, d \in Node : Seeking(host[n], d) => ~ Valid(host[n].rt[d])

\* Without link layer feedback RT_REPAIR is on no valid route: it goes with
\* the reply that repairs the route and with the timeout that gives it up.
RepairMeansInvalid ==
    \A n, d \in Node : ~ host[n].llfeedback /\ host[n].rt[d].repair =>
        host[n].rt[d].state = "INVALID"

\* A host never takes back a sequence number of its own, whatever numbers the
\* requests for it carry.
OwnSeqnoAdvances == [][\A n \in Node : host'[n].seqno >= host[n].seqno]_vars

Faultless == \A b \in Budgets : spent[b] = 0

\* Every search ends, by a route or by its last retry.
SearchEnds == <>[](\A n, d \in Node : ~ Seeking(host[n], d))

Connected ==
    \A S \in SUBSET Node \ {{}, Node} :
        \E x \in S, y \in Node \ S : {x, y} \in links

\* In a connected network that loses nothing every datagram arrives, whatever
\* the order in which the copies of the floods come in.
DataArrives ==
    (sent = Len(Flows)) ~>
        (arrived = DOMAIN Flows \/ ~ Faultless \/ ~ Connected)
=============================================================================
