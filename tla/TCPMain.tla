------------------------------- MODULE TCPMain -------------------------------
(***************************************************************************)
(* The TCP module of one host: its two connection maps, the ephemeral      *)
(* ports, and the sockets that its connections move between.  Of a         *)
(* TCPConnection object the model keeps what TCP.cc uses of it: connId,    *)
(* the socket pair, the fork and active flags, the phase of its state      *)
(* machine, and whether snd_mss and rcv_wnd have been configured.  An      *)
(* address and a port of a remote host are always given or                 *)
(* left blank together, so that they are one value, a remote socket.       *)
(***************************************************************************)
EXTENDS Integers, FiniteSets

CONSTANTS Objects,      \* the TCPConnection objects
          LocalAddrs,   \* the addresses of this host
          Remotes,      \* sockets of other hosts
          Ports,        \* the local ports in use
          PortStart,    \* EPHEMERAL_PORTRANGE_START
          PortEnd,      \* EPHEMERAL_PORTRANGE_END, one above the last one
          MaxConnId,    \* bound on ev.getUniqueNumber()
          Unspecified,  \* IPvXAddress()
          Blank,        \* no remote address, remote port -1
          None          \* no entry in a map, no connection

EphemeralPorts == PortStart .. PortEnd - 1

ASSUME MainAssumption ==
  /\ Unspecified \notin LocalAddrs /\ Blank \notin Remotes /\ None \notin Objects
  /\ PortStart \in Nat /\ PortEnd \in Nat /\ PortStart < PortEnd
  /\ Ports \subseteq Nat /\ EphemeralPorts \subseteq Ports
  /\ MaxConnId \in Nat

SockPairs == [laddr : LocalAddrs \cup {Unspecified}, lport : Ports, remote : Remotes \cup {Blank}]

ConnIds == 0 .. MaxConnId

\* "NONE" is an object that does not exist; SYNCHRONIZED stands for all states
\* after SYN_SENT and SYN_RCVD.
Phases == {"NONE", "LISTEN", "SYN_SENT", "SYN_RCVD", "SYNCHRONIZED"}

VARIABLES phase, connId, pair, fork, active, configured, \* functions of Objects
          tcpAppConnMap,      \* of ConnIds
          tcpConnMap,         \* of SockPairs
          usedEphemeralPorts, \* of EphemeralPorts: the multiset
          lastEphemeralPort,
          uniqueNumber,       \* ev.getUniqueNumber()
          error               \* the error() or ASSERT that stopped the simulation

objectVars == <<phase, connId, pair, fork, active, configured>>
mainVars == <<objectVars, tcpAppConnMap, tcpConnMap, usedEphemeralPorts,
              lastEphemeralPort, uniqueNumber, error>>

SockPair(la, lp, r) == [laddr |-> la, lport |-> lp, remote |-> r]

MainInit ==
  /\ phase = [o \in Objects |-> "NONE"]
  /\ connId = [o \in Objects |-> 0]
  /\ pair = [o \in Objects |-> SockPair(Unspecified, PortStart, Blank)]
  /\ fork = [o \in Objects |-> FALSE]
  /\ active = [o \in Objects |-> FALSE]
  /\ configured = [o \in Objects |-> FALSE]
  /\ tcpAppConnMap = [id \in ConnIds |-> None]
  /\ tcpConnMap = [k \in SockPairs |-> None]
  /\ usedEphemeralPorts = [p \in EphemeralPorts |-> 0]
  /\ lastEphemeralPort = PortStart
  /\ uniqueNumber = 0
  /\ error = "none"

Exists(o) == phase[o] # "NONE"

(***************************************************************************)
(* The maps.                                                               *)
(***************************************************************************)
\* Most specific first: the full socket pair, the local address missing, the
\* remote socket blank, both.
findConnForSegment(la, lp, r) ==
  LET at(k) == tcpConnMap[k]
  IN IF at(SockPair(la, lp, r)) # None THEN at(SockPair(la, lp, r))
     ELSE IF at(SockPair(Unspecified, lp, r)) # None THEN at(SockPair(Unspecified, lp, r))
     ELSE IF at(SockPair(la, lp, Blank)) # None THEN at(SockPair(la, lp, Blank))
     ELSE at(SockPair(Unspecified, lp, Blank))

\* The search goes round the range, from the port after the last one allocated.
Candidate(k) == PortStart + ((lastEphemeralPort - PortStart + k) % (PortEnd - PortStart))

isFreePort(p) == usedEphemeralPorts[p] = 0

IsNextFree(p) ==
  \E k \in 1 .. PortEnd - PortStart :
    /\ p = Candidate(k)
    /\ isFreePort(p)
    /\ \A j \in 1 .. k - 1 : ~ isFreePort(Candidate(j))

\* For a mutant: points at the port to try next, which may be PortEnd.
rememberNextPort(lp) == lastEphemeralPort' = lp + 1

rememberPort(lp) == lastEphemeralPort' = lp

\* addSockPair(): the ports of the range are counted, whoever chose them.
markUsed(used, lp) == IF lp \in EphemeralPorts THEN [used EXCEPT ![lp] = @ + 1] ELSE used

\* For a mutant: usedEphemeralPorts.erase(conn->localPort), which the comment in
\* removeConnection() warns of.
unmarkAll(used, lp) == IF lp \in EphemeralPorts THEN [used EXCEPT ![lp] = 0] ELSE used

\* removeConnection(): erases one occurrence.
unmark(used, lp) ==
  IF lp \in EphemeralPorts /\ used[lp] > 0 THEN [used EXCEPT ![lp] = @ - 1] ELSE used

\* For a mutant: the old key stays in the map.
rekeyKeepingOld(map, o, new) == [map EXCEPT ![new] = o]

\* updateSockPair(): it takes away the old key and does not look at what the new
\* one maps to.
rekey(map, o, new) == [[map EXCEPT ![pair[o]] = None] EXCEPT ![new] = o]

(***************************************************************************)
(* Commands of the application. The socket has a new connId.               *)
(***************************************************************************)
\* OPEN_ACTIVE and OPEN_PASSIVE on a new connection object o, from here on.
Open(o, key, ph, isActive, isFork) ==
  /\ phase' = [phase EXCEPT ![o] = ph]
  /\ connId' = [connId EXCEPT ![o] = uniqueNumber + 1]
  /\ pair' = [pair EXCEPT ![o] = key]
  /\ fork' = [fork EXCEPT ![o] = isFork]
  /\ active' = [active EXCEPT ![o] = isActive]
  /\ configured' = [configured EXCEPT ![o] = TRUE]
  /\ uniqueNumber' = uniqueNumber + 1
  /\ tcpAppConnMap' = [tcpAppConnMap EXCEPT ![uniqueNumber + 1] = o]
  /\ tcpConnMap' = [tcpConnMap EXCEPT ![key] = o]
  /\ usedEphemeralPorts' = markUsed(usedEphemeralPorts, key.lport)
  /\ error' = error

CanOpen(o) == error = "none" /\ ~ Exists(o) /\ uniqueNumber < MaxConnId

OpenActive(o) ==
  \E la \in LocalAddrs \cup {Unspecified}, lp \in Ports, r \in Remotes :
    /\ CanOpen(o)
    /\ tcpConnMap[SockPair(la, lp, r)] = None
    /\ Open(o, SockPair(la, lp, r), "SYN_SENT", TRUE, FALSE)
    /\ UNCHANGED lastEphemeralPort

OpenActiveEphemeral(o) ==
  \E la \in LocalAddrs \cup {Unspecified}, lp \in EphemeralPorts, r \in Remotes :
    /\ CanOpen(o)
    /\ IsNextFree(lp)
    /\ tcpConnMap[SockPair(la, lp, r)] = None
    /\ Open(o, SockPair(la, lp, r), "SYN_SENT", TRUE, FALSE)
    /\ rememberPort(lp)

OpenPassive(o) ==
  \E la \in LocalAddrs \cup {Unspecified}, lp \in Ports, isFork \in BOOLEAN :
    /\ CanOpen(o)
    /\ tcpConnMap[SockPair(la, lp, Blank)] = None
    /\ Open(o, SockPair(la, lp, Blank), "LISTEN", FALSE, isFork)
    /\ UNCHANGED lastEphemeralPort

\* "Address already in use", or no ephemeral port is left.
OpenFails(o) ==
  /\ CanOpen(o)
  /\ \/ \E la \in LocalAddrs \cup {Unspecified}, lp \in Ports, r \in Remotes \cup {Blank} :
          tcpConnMap[SockPair(la, lp, r)] # None /\ error' = "open: address already in use"
     \/ /\ \A p \in EphemeralPorts : ~ IsNextFree(p)
        /\ error' = "ephemeral port range exhausted"
  /\ UNCHANGED <<objectVars, tcpAppConnMap, tcpConnMap, usedEphemeralPorts,
                 lastEphemeralPort, uniqueNumber>>

(***************************************************************************)
(* Segments. o is the connection that findConnForSegment() returns.        *)
(***************************************************************************)
ArrivesAt(o, seg) ==
  /\ error = "none"
  /\ seg \in [laddr : LocalAddrs, lport : Ports, remote : Remotes]
  /\ findConnForSegment(seg.laddr, seg.lport, seg.remote) = o

updateSockPair(o, seg) ==
  /\ tcpConnMap' = rekey(tcpConnMap, o, seg)
  /\ pair' = [pair EXCEPT ![o] = seg]

\* A SYN for a listener that does not fork (listenOnce()).
SynInListen(o, seg) ==
  /\ ArrivesAt(o, seg)
  /\ phase[o] = "LISTEN" /\ ~ fork[o]
  /\ updateSockPair(o, seg)
  /\ phase' = [phase EXCEPT ![o] = "SYN_RCVD"]
  /\ UNCHANGED <<connId, fork, active, configured, tcpAppConnMap, usedEphemeralPorts,
                 lastEphemeralPort, uniqueNumber, error>>

\* cloneListeningConnection(): the socket the clone n of o listens on.
clonePair(o) == SockPair(pair[o].laddr, pair[o].lport, Blank)

\* For a mutant: the fork copies nothing from the parameters of the module.
cloneUnconfigured(o, n) == [configured EXCEPT ![n] = FALSE]

\* cloneListeningConnection() creates a state block for the clone and then
\* configures its own one.
cloneConfiguration(o, n) == [configured EXCEPT ![n] = FALSE, ![o] = TRUE]

\* For a mutant: it is the clone that gets the new connId.
keepConnIds(o, n) ==
  /\ uniqueNumber' = uniqueNumber + 1
  /\ connId' = [connId EXCEPT ![n] = uniqueNumber + 1]
  /\ tcpAppConnMap' = [tcpAppConnMap EXCEPT ![uniqueNumber + 1] = n]

\* For a mutant: the old connId is erased last.
eraseOldConnId(o, n) ==
  /\ uniqueNumber' = uniqueNumber + 1
  /\ connId' = [connId EXCEPT ![o] = uniqueNumber + 1, ![n] = connId[o]]
  /\ tcpAppConnMap' = [tcpAppConnMap EXCEPT ![uniqueNumber + 1] = o, ![connId[o]] = None]

\* addForkedConnection(): conn gets a new connId, the clone n lives on with the old.
swapConnIds(o, n) ==
  /\ uniqueNumber' = uniqueNumber + 1
  /\ connId' = [connId EXCEPT ![o] = uniqueNumber + 1, ![n] = connId[o]]
  /\ tcpAppConnMap' = [tcpAppConnMap EXCEPT ![uniqueNumber + 1] = o, ![connId[o]] = n]

SynInForkingListen(o, n, seg) ==
  /\ ArrivesAt(o, seg)
  /\ phase[o] = "LISTEN" /\ fork[o]
  /\ ~ Exists(n) /\ uniqueNumber < MaxConnId
  /\ rekey(tcpConnMap, o, seg)[clonePair(o)] = None
  /\ tcpConnMap' = [rekey(tcpConnMap, o, seg) EXCEPT ![clonePair(o)] = n]
  /\ pair' = [pair EXCEPT ![o] = seg, ![n] = clonePair(o)]
  /\ usedEphemeralPorts' = markUsed(usedEphemeralPorts, pair[o].lport)
  /\ swapConnIds(o, n)
  /\ phase' = [phase EXCEPT ![o] = "SYN_RCVD", ![n] = "LISTEN"]
  /\ fork' = [fork EXCEPT ![n] = TRUE]
  /\ active' = [active EXCEPT ![n] = FALSE]
  /\ configured' = cloneConfiguration(o, n)
  /\ UNCHANGED <<lastEphemeralPort, error>>

\* addSockPair() finds the clone's socket taken.
ForkFails(o, seg) ==
  /\ ArrivesAt(o, seg)
  /\ phase[o] = "LISTEN" /\ fork[o]
  /\ rekey(tcpConnMap, o, seg)[clonePair(o)] # None
  /\ error' = "fork: address already in use"
  /\ UNCHANGED <<objectVars, tcpAppConnMap, tcpConnMap, usedEphemeralPorts,
                 lastEphemeralPort, uniqueNumber>>

\* A SYN, with or without ACK: the connection learns its local address.
SynInSynSent(o, seg) ==
  /\ ArrivesAt(o, seg)
  /\ phase[o] = "SYN_SENT"
  /\ updateSockPair(o, seg)
  /\ \E ph \in {"SYN_RCVD", "SYNCHRONIZED"} : phase' = [phase EXCEPT ![o] = ph]
  /\ UNCHANGED <<connId, fork, active, configured, tcpAppConnMap, usedEphemeralPorts,
                 lastEphemeralPort, uniqueNumber, error>>

(***************************************************************************)
(* What a connection does of itself, as far as it shows here.              *)
(***************************************************************************)
Goto(o, from, to) ==
  /\ error = "none"
  /\ phase[o] = from
  /\ phase' = [phase EXCEPT ![o] = to]
  /\ UNCHANGED <<connId, pair, fork, configured, tcpAppConnMap, tcpConnMap,
                 usedEphemeralPorts, lastEphemeralPort, uniqueNumber, error>>

\* The ACK of the SYN, or CLOSE, in SYN_RCVD.
LeaveSynRcvd(o) == Goto(o, "SYN_RCVD", "SYNCHRONIZED") /\ UNCHANGED active

\* RST or CONN-ESTAB timeout in SYN_RCVD, after a passive open: the maps keep the
\* socket pair of the peer.
ReturnToListen(o) == ~ active[o] /\ Goto(o, "SYN_RCVD", "LISTEN") /\ UNCHANGED active

\* SEND in LISTEN makes it an active open; sendSyn() wants a foreign socket.
SendInListen(o) ==
  /\ pair[o].remote # Blank
  /\ Goto(o, "LISTEN", "SYN_SENT")
  /\ active' = [active EXCEPT ![o] = TRUE]

SendInListenFails(o) ==
  /\ error = "none"
  /\ phase[o] = "LISTEN" /\ pair[o].remote = Blank
  /\ error' = "foreign socket unspecified"
  /\ UNCHANGED <<objectVars, tcpAppConnMap, tcpConnMap, usedEphemeralPorts,
                 lastEphemeralPort, uniqueNumber>>

\* The state machine reached CLOSED: removeConnection().
Remove(o) ==
  /\ error = "none"
  /\ Exists(o)
  /\ tcpAppConnMap' = [tcpAppConnMap EXCEPT ![connId[o]] = None]
  /\ tcpConnMap' = [tcpConnMap EXCEPT ![pair[o]] = None]
  /\ usedEphemeralPorts' = unmark(usedEphemeralPorts, pair[o].lport)
  /\ phase' = [phase EXCEPT ![o] = "NONE"]
  /\ connId' = [connId EXCEPT ![o] = 0]
  /\ pair' = [pair EXCEPT ![o] = SockPair(Unspecified, PortStart, Blank)]
  /\ fork' = [fork EXCEPT ![o] = FALSE]
  /\ active' = [active EXCEPT ![o] = FALSE]
  /\ configured' = [configured EXCEPT ![o] = FALSE]
  /\ UNCHANGED <<lastEphemeralPort, uniqueNumber, error>>

SegmentArrives(o, seg) ==
  \/ SynInListen(o, seg)
  \/ \E n \in Objects : SynInForkingListen(o, n, seg)
  \/ ForkFails(o, seg)
  \/ SynInSynSent(o, seg)

MainNext ==
  \E o \in Objects :
    \/ OpenActive(o) \/ OpenActiveEphemeral(o) \/ OpenPassive(o) \/ OpenFails(o)
    \/ \E seg \in SockPairs : SegmentArrives(o, seg)
    \/ LeaveSynRcvd(o) \/ ReturnToListen(o) \/ Remove(o)
    \/ SendInListen(o) \/ SendInListenFails(o)

MainSpec == MainInit /\ [][MainNext]_mainVars

(***************************************************************************)
(* Properties.                                                             *)
(***************************************************************************)
\* The variables have their types; in particular lastEphemeralPort never leaves the
\* range in which getEphemeralPort() searches from it.
MainTypeOK ==
  /\ phase \in [Objects -> Phases]
  /\ connId \in [Objects -> ConnIds]
  /\ pair \in [Objects -> SockPairs]
  /\ fork \in [Objects -> BOOLEAN] /\ active \in [Objects -> BOOLEAN]
  /\ configured \in [Objects -> BOOLEAN]
  /\ tcpAppConnMap \in [ConnIds -> Objects \cup {None}]
  /\ tcpConnMap \in [SockPairs -> Objects \cup {None}]
  /\ usedEphemeralPorts \in [EphemeralPorts -> Nat]
  /\ lastEphemeralPort \in EphemeralPorts
  /\ uniqueNumber \in ConnIds

\* tcpConnMap and the socket pairs kept in the connections agree, both ways:
\* updateSockPair() never overwrites the entry of another connection, though it does
\* not look, and removeConnection() leaves no entry that points at a deleted object.
SockPairsAgree ==
  /\ \A o \in Objects : Exists(o) => tcpConnMap[pair[o]] = o
  /\ \A k \in SockPairs : tcpConnMap[k] # None =>
       Exists(tcpConnMap[k]) /\ pair[tcpConnMap[k]] = k

\* The same of tcpAppConnMap and the connIds, which a fork exchanges.
ConnIdsAgree ==
  /\ \A o \in Objects : Exists(o) => tcpAppConnMap[connId[o]] = o
  /\ \A id \in ConnIds : tcpAppConnMap[id] # None =>
       Exists(tcpAppConnMap[id]) /\ connId[tcpAppConnMap[id]] = id

\* The ASSERTs at the top of processTCPSegment(): the connection that
\* findConnForSegment() returns is one for the segment's sockets.
SegmentsFindTheirConnection ==
  \A la \in LocalAddrs, lp \in Ports, r \in Remotes :
    LET o == findConnForSegment(la, lp, r)
    IN o # None => /\ Exists(o)
                   /\ pair[o].laddr # Unspecified => pair[o].laddr = la /\ pair[o].lport = lp
                   /\ pair[o].remote # Blank => pair[o].remote = r

\* usedEphemeralPorts counts the connections on every port of the range, so that a
\* port is given out again only when the last of them is gone.
PortsCounted ==
  \A p \in EphemeralPorts :
    usedEphemeralPorts[p] = Cardinality({o \in Objects : Exists(o) /\ pair[o].lport = p})

\* snd_mss and rcv_wnd of a connection beyond LISTEN come from the parameters,
\* although cloneListeningConnection() leaves those of the clone at -1: the clone
\* itself forks before it answers a SYN.
ConfiguredBeyondListen ==
  \A o \in Objects : Exists(o) /\ phase[o] # "LISTEN" => configured[o]

\* A SYN that a forking listener takes leaves another one in its place: the
\* application's connId listens on, on the same socket.
ListenerStays ==
  [][\A o \in Objects :
       phase[o] = "LISTEN" /\ fork[o] /\ pair[o].remote = Blank /\ phase'[o] = "SYN_RCVD" =>
         \E n \in Objects : /\ phase'[n] = "LISTEN" /\ fork'[n]
                            /\ pair'[n] = pair[o] /\ tcpConnMap'[pair[o]] = n
                            /\ connId'[n] = connId[o] /\ tcpAppConnMap'[connId[o]] = n]_mainVars
=============================================================================
