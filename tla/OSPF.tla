-------------------------------- MODULE OSPF --------------------------------
(***************************************************************************)
(* OSPF routers joined by point-to-point links that keep the order of what  *)
(* they carry and may lose some of it.                                      *)
(*                                                                          *)
(* Packets take milliseconds. The acknowledgement and ageing timers of a    *)
(* second fire when no packet is under way, the timers of five seconds and   *)
(* more when those have nothing left to do; each exception is a race the     *)
(* budget pays for. A hello, an update and a request that would change       *)
(* nothing where they arrive are left out.                                  *)
(***************************************************************************)
EXTENDS OSPFHandlers

CONSTANTS Links,      \* the pairs of routers that are joined
          Adjacent,   \* whether they start with all adjacencies Full
          Databases,  \* the databases the routers may start with
          Limit       \* how often each of the faults below may happen

VARIABLES router, chan, seed,
          spent       \* how often each fault happened

vars == <<router, chan, seed, spent>>

Budgets == {"loss", "dead", "refresh", "race", "any"}

Neighbors(r) == {n \in Router : {r, n} \in Links}

ASSUME LinksAreWellFormed ==
    /\ \A l \in Links : l \subseteq Router /\ Cardinality(l) = 2
    /\ \A d \in Databases, r \in Router :
          /\ d[r][r].seq > 0
          /\ d[r][r].links = IF Adjacent THEN Neighbors(r) ELSE {}
          /\ Adjacent => \A n \in Router : d[r] = d[n]
    /\ Limit \in [Budgets -> Nat]

\* A step that is bounded by the budgets B and by the one for all of them.
Pay(B) ==
    LET due == IF B = {} THEN {} ELSE B \cup {"any"}
    IN  /\ \A b \in due : spent[b] < Limit[b]
        /\ spent' = [b \in Budgets |-> spent[b] + IF b \in due THEN 1 ELSE 0]

Quiet == \A r \in Router : \A n \in Neighbors(r) : chan[r][n] = <<>>

Settled ==
    /\ Quiet
    /\ \A r \in Router :
          /\ router[r].fresh = {}
          /\ \A n \in Neighbors(r) :
                /\ router[r].nb[n].acks = {}
                /\ \A k \in Key : router[r].nb[n].sent[k] = 0

Short == IF Quiet THEN {} ELSE {"race"}
Long == IF Settled THEN {} ELSE {"race"}

\* The router r becomes R, and what R sends is under way, without the first
\* packet from n if used.
Become(r, R, used) ==
    \E S \in {R} :
        /\ router' = [router EXCEPT ![r] =
               [S EXCEPT !.out = [n \in Neighbors(r) |-> <<>>], !.seed = 0]]
        /\ seed' = S.seed
        /\ chan' = [f \in Router |-> [t \in Neighbors(f) |->
               CASE f = r -> chan[f][t] \o S.out[t]
                 [] f # r /\ t = r /\ f \in used -> Tail(chan[f][t])
                 [] OTHER -> chan[f][t]]]

\* The record the handlers of r work on.
Here(r) == [router[r] EXCEPT !.seed = seed]

\* What a completed exchange leaves of the records.
FullNeighbor(r, n) ==
    LET number == 2 * IF r < n THEN r ELSE n
    IN  [InitNeighbor EXCEPT
            !.state = "Full", !.inited = TRUE, !.master = (r > n),
            !.ddSeq = IF r > n THEN number + 1 ELSE number,
            !.lastRx = [i |-> FALSE, m |-> FALSE, ms |-> (n > r), seq |-> number]]

Init ==
    /\ \E d \in Databases :
          router = [r \in Router |->
              [id |-> r, db |-> d[r], fresh |-> {}, err |-> FALSE, seed |-> 0,
               out |-> [n \in Neighbors(r) |-> <<>>],
               nb |-> [n \in Neighbors(r) |-> IF Adjacent THEN FullNeighbor(r, n)
                                                          ELSE InitNeighbor]]]
    /\ chan = [r \in Router |-> [n \in Neighbors(r) |-> <<>>]]
    /\ seed = IF Adjacent THEN 2 * Cardinality(Links) ELSE 0
    /\ spent = [b \in Budgets |-> 0]

Deliver(r, n) ==
    /\ chan[n][r] # <<>>
    /\ Pay({})
    /\ Become(r, ProcessPacket(Here(r), n, Head(chan[n][r])), {n})

Lose(r, n) ==
    /\ chan[n][r] # <<>>
    /\ Pay({"loss"})
    /\ chan' = [chan EXCEPT ![n][r] = Tail(@)]
    /\ UNCHANGED <<router, seed>>

\* The hellos that change the state of the neighbour: the first, one that
\* brings the news of a two-way link, one that takes it back.
HelloTimer(r, n) ==
    /\ LET mine == router[r].nb[n].state
           its == router[n].nb[r].state
       IN  \/ its = "Down"
           \/ its = "Init" /\ mine # "Down"
           \/ its \notin {"Down", "Init"} /\ mine = "Down"
    /\ Pay(Long)
    /\ Become(r, SendHelloPacket(Here(r), n), {})

AcknowledgementTimer(r, n) ==
    /\ router[r].nb[n].acks # {}
    /\ Pay(Short)
    /\ Become(r, SendDelayedAcknowledgements(Here(r), n), {})

DatabaseAgeTimer(r) ==
    /\ \/ router[r].fresh # {}
       \/ \E n \in Neighbors(r), k \in Key : router[r].nb[n].sent[k] > 0
    /\ Pay(Short)
    /\ Become(r, AgeDatabase(Here(r), FALSE), {})

\* The own LSA reaches LS_REFRESH_TIME.
RefreshTimer(r) ==
    /\ Pay(Long \cup {"refresh"})
    /\ Become(r, AgeDatabase(Here(r), TRUE), {})

DDTimer(r, n) ==
    /\ router[r].nb[n].ddTimer
    /\ Pay(Long)
    /\ Become(r, DDRetransmissionTimer(Here(r), n), {})

UpdateTimer(r, n) ==
    /\ router[r].nb[n].updTimer /\ router[r].nb[n].rxmt # <<>>
    /\ Pay(Long)
    /\ Become(r, UpdateRetransmissionTimer(Here(r), n), {})

RequestTimer(r, n) ==
    /\ router[r].nb[n].reqTimer /\ router[r].nb[n].requests # <<>>
    /\ Pay(Long)
    /\ Become(r, RequestRetransmissionTimer(Here(r), n), {})

\* RouterDeadInterval without a hello: the fault a link or a router has.
DeadTimer(r, n) ==
    /\ router[r].nb[n].state # "Down"
    /\ Pay(Long \cup {"dead"})
    /\ Become(r, InactivityTimer(Here(r), n), {})

Proceed ==
    \/ \E r \in Router : DatabaseAgeTimer(r)
    \/ \E r \in Router : \E n \in Neighbors(r) :
          \/ Deliver(r, n) \/ HelloTimer(r, n) \/ AcknowledgementTimer(r, n)
          \/ DDTimer(r, n) \/ UpdateTimer(r, n) \/ RequestTimer(r, n)

Next ==
    \/ Proceed
    \/ \E r \in Router : RefreshTimer(r)
    \/ \E r \in Router : \E n \in Neighbors(r) : Lose(r, n) \/ DeadTimer(r, n)

Spec == Init /\ [][Next]_vars

Hellos == \E r \in Router : \E n \in Neighbors(r) : HelloTimer(r, n)

\* Packets arrive and timers fire, the periodic hello timer among them however
\* often a faster timer fires in between.
FairSpec == Spec /\ WF_vars(Proceed) /\ SF_vars(Hellos)

(***************************************************************************)
(* Properties                                                               *)
(***************************************************************************)
Adjacencies == {<<r, n>> \in Router \X Router : {r, n} \in Links}

Full(r, n) == State(router[r], n) = "Full"

NoDuplicates(list) ==
    \A i, j \in DOMAIN list : list[i].key = list[j].key => i = j

\* The state has its type. The retransmission list and the request list name
\* an LSA once, though AddToRequestList does not look, and only a neighbour
\* whose exchange has begun has any. Nothing is left to be asked of one that is
\* Full.
TypeOK ==
    /\ seed \in Nat /\ spent \in [Budgets -> Nat]
    /\ \A r \in Router, k \in Key :
          router[r].db[k] \in [key : {k}, seq : Nat, links : SUBSET Router]
    /\ \A <<r, n>> \in Adjacencies :
          LET b == router[r].nb[n] IN
          /\ b.state \in {"Down", "Init", "ExchangeStart"} \cup Exchanging
          /\ b.ddSeq \in Nat /\ b.sent \in [Key -> 0..2]
          /\ NoDuplicates(b.rxmt) /\ NoDuplicates(b.requests)
          /\ b.state \notin Exchanging => b.rxmt = <<>> /\ b.requests = <<>>
          /\ b.state = "Full" => b.requests = <<>>
          /\ \A i \in DOMAIN chan[r][n] :
                chan[r][n][i].type \in {"hello", "dd", "lsr", "lsu", "lsack"}

\* No timer is scheduled while it is pending, which would end the simulation,
\* and the flags by which Interface::FloodLSA and the database description
\* handler decide whether to start one tell whether it is pending: a flag left
\* behind would keep a retransmission from ever being scheduled again.
TimersKnown ==
    \A <<r, n>> \in Adjacencies :
        LET b == router[r].nb[n] IN
        /\ ~ router[r].err
        /\ b.updActive = b.updTimer /\ b.reqActive = b.reqTimer

\* The router LSA in the router's own database lists its Full neighbours,
\* however a neighbour became Full or ceased to be: also inside the flooding of
\* another LSA.
OwnLSACurrent ==
    \A r \in Router : router[r].db[r].links = FullNeighbors(router[r])

Instances ==
    {router[r].db[k] : r \in Router, k \in Key}
    \cup UNION {Range(router[a[1]].nb[a[2]].rxmt) : a \in Adjacencies}
    \cup UNION {Range(m.lsas) : m \in {p \in UNION {Range(chan[a[1]][a[2]]) :
                                                      a \in Adjacencies} :
                                         p.type = "lsu"}}

\* LSAs are compared by their sequence number alone: two instances of an LSA
\* with the same number, in databases, lists and packets, have the same links,
\* and none is newer than the one its originator has.
InstancesAgree ==
    \A l \in Instances :
        /\ \A m \in Instances : l.key = m.key /\ l.seq = m.seq => l = m
        /\ l.key \in Router => l.seq <= router[l.key].db[l.key].seq

\* Reliable flooding: while two neighbours are Full, an own LSA the other does
\* not have yet is on the retransmission list, whatever was lost, acknowledged
\* late or dropped as too early. Of an LSA that is passed on this is not true:
\* the handler of an update takes it off the lists it has just been put on.
KeptUntilHeld ==
    \A <<r, n>> \in Adjacencies :
        Full(r, n) /\ Full(n, r) /\ router[r].db[r].seq > router[n].db[r].seq =>
            OnList(router[r].nb[n].rxmt, r)

\* No step replaces an instance in a database by an older one.
InstancesAdvance ==
    [][\A r \in Router, k \in Key :
          router'[r].db[k].seq >= router[r].db[k].seq]_vars

Synchronised ==
    /\ \A <<r, n>> \in Adjacencies : Full(r, n)
    /\ \A r, n \in Router : router[r].db = router[n].db

\* The neighbour is in Exchange and no packet and no timer will change that:
\* NegotiationDone has cleared the timer of the database descriptions.
StuckInExchange ==
    /\ spent["loss"] > 0 /\ Settled
    /\ \E <<r, n>> \in Adjacencies :
          State(router[r], n) = "Exchange" /\ ~ router[r].nb[n].ddTimer

\* Once faults end, all adjacencies become Full and the databases the same, and
\* stay so. The one exception the code makes: a database description lost in
\* Exchange is not sent again. Nothing else, no lost hello, request, update or
\* acknowledgement, no neighbour declared dead and no timer that fires too
\* early, keeps two routers from synchronising or from staying synchronised.
Converges == <>[]Synchronised \/ <>[]StuckInExchange

=============================================================================
