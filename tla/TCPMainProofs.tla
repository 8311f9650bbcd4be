---------------------------- MODULE TCPMainProofs ----------------------------
(***************************************************************************)
(* Theorems about the connection maps of TCPMain, for every number of      *)
(* connection objects, addresses, ports and connIds.                       *)
(***************************************************************************)
EXTENDS TCPMain, FiniteSetTheorems, TLAPS

USE MainAssumption DEF EphemeralPorts, ConnIds

\* addSockPair() and removeConnection() keep the counts natural numbers.
LEMMA PortCounts ==
  ASSUME NEW used \in [EphemeralPorts -> Nat], NEW lp \in Ports
  PROVE  /\ markUsed(used, lp) \in [EphemeralPorts -> Nat]
         /\ unmark(used, lp) \in [EphemeralPorts -> Nat]
BY DEF markUsed, unmark

\* updateSockPair() keeps tcpConnMap a map of socket pairs to objects.
LEMMA RekeyType ==
  ASSUME MainTypeOK, NEW o \in Objects, NEW k \in SockPairs
  PROVE  rekey(tcpConnMap, o, k) \in [SockPairs -> Objects \cup {None}]
BY ZenonT(30) DEF MainTypeOK, rekey

\* A SockPair of valid parts is a key of tcpConnMap.
LEMMA SockPairType ==
  ASSUME NEW la \in LocalAddrs \cup {Unspecified}, NEW lp \in Ports,
         NEW r \in Remotes \cup {Blank}
  PROVE  /\ SockPair(la, lp, r) \in SockPairs
         /\ SockPair(la, lp, r).laddr = la
         /\ SockPair(la, lp, r).lport = lp
         /\ SockPair(la, lp, r).remote = r
BY DEF SockPair, SockPairs

\* An open keeps the types.
LEMMA OpenType ==
  ASSUME MainTypeOK, NEW o \in Objects, NEW key \in SockPairs, NEW ph \in Phases,
         NEW isActive \in BOOLEAN, NEW isFork \in BOOLEAN,
         CanOpen(o), Open(o, key, ph, isActive, isFork), lastEphemeralPort' \in EphemeralPorts
  PROVE  MainTypeOK'
<1>1. key.lport \in Ports
  BY DEF SockPairs
<1>2. uniqueNumber + 1 \in ConnIds
  BY DEF MainTypeOK, CanOpen
<1>3. usedEphemeralPorts' \in [EphemeralPorts -> Nat]
  BY <1>1, PortCounts, ZenonT(30) DEF MainTypeOK, Open
<1> QED
  BY <1>2, <1>3 DEF MainTypeOK, Open

\* The types hold initially.
LEMMA InitType == MainInit => MainTypeOK
<1>1. PortStart \in Ports
  OBVIOUS
<1> QED
  BY <1>1, SockPairType DEF MainInit, MainTypeOK, Phases

\* Every step of TCP keeps the types.
LEMMA NextType == MainTypeOK /\ [MainNext]_mainVars => MainTypeOK'
<1> SUFFICES ASSUME MainTypeOK, [MainNext]_mainVars PROVE MainTypeOK'
  OBVIOUS
<1>1. CASE UNCHANGED mainVars
  BY <1>1 DEF MainTypeOK, mainVars, objectVars
<1>2. ASSUME NEW o \in Objects, OpenActive(o) PROVE MainTypeOK'
  <2>1. PICK la \in LocalAddrs \cup {Unspecified}, lp \in Ports, r \in Remotes :
          /\ CanOpen(o)
          /\ Open(o, SockPair(la, lp, r), "SYN_SENT", TRUE, FALSE)
          /\ UNCHANGED lastEphemeralPort
    BY <1>2, ZenonT(30) DEF OpenActive
  <2> QED
    BY <2>1, SockPairType, OpenType, ZenonT(30) DEF Phases, MainTypeOK
<1>3. ASSUME NEW o \in Objects, OpenActiveEphemeral(o) PROVE MainTypeOK'
  <2>1. PICK la \in LocalAddrs \cup {Unspecified}, lp \in EphemeralPorts, r \in Remotes :
          /\ CanOpen(o)
          /\ Open(o, SockPair(la, lp, r), "SYN_SENT", TRUE, FALSE)
          /\ lastEphemeralPort' = lp
    BY <1>3, ZenonT(30) DEF OpenActiveEphemeral, rememberPort
  <2> QED
    BY <2>1, SockPairType, OpenType, ZenonT(30) DEF Phases
<1>4. ASSUME NEW o \in Objects, OpenPassive(o) PROVE MainTypeOK'
  <2>1. PICK la \in LocalAddrs \cup {Unspecified}, lp \in Ports, isFork \in BOOLEAN :
          /\ CanOpen(o)
          /\ Open(o, SockPair(la, lp, Blank), "LISTEN", FALSE, isFork)
          /\ UNCHANGED lastEphemeralPort
    BY <1>4, ZenonT(30) DEF OpenPassive
  <2>2. SockPair(la, lp, Blank) \in SockPairs /\ "LISTEN" \in Phases
    BY SockPairType DEF Phases
  <2>3. lastEphemeralPort' \in EphemeralPorts
    BY <2>1 DEF MainTypeOK
  <2> QED
    BY <2>1, <2>2, <2>3, OpenType, ZenonT(30)
<1>5. ASSUME NEW o \in Objects, OpenFails(o) \/ SendInListenFails(o) PROVE MainTypeOK'
  BY <1>5, ZenonT(30) DEF OpenFails, SendInListenFails, MainTypeOK, objectVars
<1>6. ASSUME NEW o \in Objects, NEW seg \in SockPairs, SynInListen(o, seg) \/ SynInSynSent(o, seg)
      PROVE MainTypeOK'
  <2>1. tcpConnMap' \in [SockPairs -> Objects \cup {None}]
    BY <1>6, RekeyType DEF SynInListen, SynInSynSent, updateSockPair
  <2>2. pair' \in [Objects -> SockPairs]
    BY <1>6 DEF SynInListen, SynInSynSent, updateSockPair, MainTypeOK
  <2>3. phase' \in [Objects -> Phases]
    <3>1. CASE SynInListen(o, seg)
      BY <3>1 DEF SynInListen, MainTypeOK, Phases
    <3>2. CASE SynInSynSent(o, seg)
      BY <3>2 DEF SynInSynSent, MainTypeOK, Phases
    <3> QED
      BY <1>6, <3>1, <3>2
  <2> QED
    BY <1>6, <2>1, <2>2, <2>3 DEF SynInListen, SynInSynSent, MainTypeOK
<1>7. ASSUME NEW o \in Objects, NEW n \in Objects, NEW seg \in SockPairs,
             SynInForkingListen(o, n, seg)
      PROVE MainTypeOK'
  <2>0. /\ pair[o].lport \in Ports
        /\ pair[o].laddr \in LocalAddrs \cup {Unspecified}
    BY DEF MainTypeOK, SockPairs
  <2>1. clonePair(o) \in SockPairs /\ pair[o].lport \in Ports
    BY <2>0, SockPairType DEF clonePair
  <2>2. tcpConnMap' \in [SockPairs -> Objects \cup {None}]
    BY <1>7, <2>1, RekeyType DEF SynInForkingListen
  <2>3. usedEphemeralPorts' \in [EphemeralPorts -> Nat]
    BY <1>7, <2>1, PortCounts, ZenonT(30) DEF SynInForkingListen, MainTypeOK
  <2>4. uniqueNumber + 1 \in ConnIds
    BY <1>7 DEF SynInForkingListen, MainTypeOK
  <2>5. /\ uniqueNumber' \in ConnIds
        /\ connId' \in [Objects -> ConnIds]
        /\ tcpAppConnMap' \in [ConnIds -> Objects \cup {None}]
    BY <1>7, <2>4, ZenonT(30) DEF SynInForkingListen, swapConnIds, MainTypeOK
  <2> QED
    BY <1>7, <2>1, <2>2, <2>3, <2>5, ZenonT(30)
       DEF SynInForkingListen, cloneConfiguration, MainTypeOK, Phases
<1>8. ASSUME NEW o \in Objects, NEW seg \in SockPairs, ForkFails(o, seg) PROVE MainTypeOK'
  BY <1>8, ZenonT(30) DEF ForkFails, MainTypeOK, objectVars
<1>9. ASSUME NEW o \in Objects, LeaveSynRcvd(o) \/ ReturnToListen(o) \/ SendInListen(o)
      PROVE MainTypeOK'
  BY <1>9, ZenonT(30) DEF LeaveSynRcvd, ReturnToListen, SendInListen, Goto, MainTypeOK, Phases
<1>10. ASSUME NEW o \in Objects, Remove(o) PROVE MainTypeOK'
  <2>1. pair[o].lport \in Ports
    BY DEF MainTypeOK, SockPairs
  <2>2. usedEphemeralPorts' \in [EphemeralPorts -> Nat]
    BY <1>10, <2>1, PortCounts, ZenonT(30) DEF Remove, MainTypeOK
  <2> QED
    BY <1>10, <2>2, SockPairType DEF Remove, MainTypeOK, Phases
<1> QED
  BY <1>1, <1>2, <1>3, <1>4, <1>5, <1>6, <1>7, <1>8, <1>9, <1>10 DEF MainNext, SegmentArrives

\* Type correctness; the search of getEphemeralPort() starts within the range.
THEOREM MainTypeCorrect == MainSpec => []MainTypeOK
BY InitType, NextType, PTL DEF MainSpec

(***************************************************************************)
(* tcpConnMap.                                                             *)
(***************************************************************************)
\* The keys that findConnForSegment() tries, from the exact one to the wildcards.
LEMMA SegmentKey ==
  ASSUME NEW seg \in [laddr : LocalAddrs, lport : Ports, remote : Remotes]
  PROVE  /\ seg \in SockPairs
         /\ SockPair(seg.laddr, seg.lport, seg.remote) = seg
BY DEF SockPair, SockPairs

\* The connection that a segment finds is registered under one of the four keys
\* that are tried, and no other connection has the segment's full socket pair.
LEMMA FoundConnection ==
  ASSUME MainTypeOK, SockPairsAgree, NEW o \in Objects, NEW seg \in SockPairs,
         ArrivesAt(o, seg)
  PROVE  /\ Exists(o)
         /\ pair[o].lport = seg.lport
         /\ tcpConnMap[seg] \in {None, o}
         /\ seg.remote # Blank
<1> DEFINE k1 == SockPair(seg.laddr, seg.lport, seg.remote)
           k2 == SockPair(Unspecified, seg.lport, seg.remote)
           k3 == SockPair(seg.laddr, seg.lport, Blank)
           k4 == SockPair(Unspecified, seg.lport, Blank)
<1>1. /\ seg.laddr \in LocalAddrs /\ seg.lport \in Ports /\ seg.remote \in Remotes
      /\ k1 = seg
  BY SegmentKey DEF ArrivesAt
<1>2. /\ k2 \in SockPairs /\ k2.lport = seg.lport
      /\ k3 \in SockPairs /\ k3.lport = seg.lport
      /\ k4 \in SockPairs /\ k4.lport = seg.lport
  <2>1. /\ seg.laddr \in LocalAddrs \cup {Unspecified}
        /\ Unspecified \in LocalAddrs \cup {Unspecified}
        /\ seg.remote \in Remotes \cup {Blank} /\ Blank \in Remotes \cup {Blank}
    BY <1>1
  <2>2. k2 \in SockPairs /\ k2.lport = seg.lport
    BY <1>1, <2>1 DEF SockPair, SockPairs
  <2>3. k3 \in SockPairs /\ k3.lport = seg.lport
    BY <1>1, <2>1 DEF SockPair, SockPairs
  <2>4. k4 \in SockPairs /\ k4.lport = seg.lport
    BY <1>1, <2>1 DEF SockPair, SockPairs
  <2> QED
    BY <2>2, <2>3, <2>4
<1>3. /\ o = tcpConnMap[k1] \/ tcpConnMap[k1] = None
      /\ \E k \in {k1, k2, k3, k4} : tcpConnMap[k] = o
  BY DEF ArrivesAt, findConnForSegment
<1>4. PICK k \in SockPairs : k.lport = seg.lport /\ tcpConnMap[k] = o
  BY <1>1, <1>2, <1>3
<1>5. Exists(o) /\ pair[o] = k
  BY <1>4 DEF SockPairsAgree
<1> QED
  BY <1>1, <1>3, <1>4, <1>5

\* An open adds a free key, so that tcpConnMap keeps agreeing with the connections.
LEMMA OpenAgrees ==
  ASSUME MainTypeOK, SockPairsAgree, NEW o \in Objects, NEW key \in SockPairs,
         NEW ph \in Phases \ {"NONE"}, NEW isActive, NEW isFork,
         CanOpen(o), tcpConnMap[key] = None, Open(o, key, ph, isActive, isFork)
  PROVE  SockPairsAgree'
BY DEF MainTypeOK, SockPairsAgree, CanOpen, Open, Exists

\* updateSockPair() for a connection that a segment has found.
LEMMA RekeyAgrees ==
  ASSUME MainTypeOK, SockPairsAgree, NEW o \in Objects, NEW seg \in SockPairs,
         ArrivesAt(o, seg), updateSockPair(o, seg),
         NEW ph \in Phases \ {"NONE"}, phase' = [phase EXCEPT ![o] = ph]
  PROVE  SockPairsAgree'
<1>1. Exists(o) /\ tcpConnMap[seg] \in {None, o}
  BY FoundConnection
<1>2. pair[o] \in SockPairs /\ tcpConnMap[pair[o]] = o
  BY <1>1 DEF MainTypeOK, SockPairsAgree
<1>3. \A x \in Objects : phase'[x] # "NONE" <=> Exists(x)
  BY <1>1 DEF Exists, MainTypeOK
<1>4. \A k \in SockPairs : tcpConnMap'[k] = IF k = seg THEN o
                                            ELSE IF k = pair[o] THEN None ELSE tcpConnMap[k]
  BY <1>2 DEF updateSockPair, rekey, MainTypeOK
<1>5. \A x \in Objects : pair'[x] = IF x = o THEN seg ELSE pair[x]
  BY DEF updateSockPair, MainTypeOK
<1>6. ASSUME NEW x \in Objects, phase'[x] # "NONE" PROVE tcpConnMap'[pair'[x]] = x
  <2>1. Exists(x) /\ tcpConnMap[pair[x]] = x /\ pair[x] \in SockPairs
    BY <1>3, <1>6 DEF SockPairsAgree, MainTypeOK
  <2>2. CASE x # o
    <3>1. pair[x] # seg /\ pair[x] # pair[o]
      BY <1>1, <1>2, <2>1, <2>2
    <3> QED
      BY <1>4, <1>5, <2>1, <2>2, <3>1
  <2> QED
    BY <1>4, <1>5, <2>2
<1>7. ASSUME NEW k \in SockPairs, tcpConnMap'[k] # None
      PROVE  phase'[tcpConnMap'[k]] # "NONE" /\ pair'[tcpConnMap'[k]] = k
  <2>1. CASE k = seg
    BY <1>1, <1>3, <1>4, <1>5, <2>1
  <2>2. CASE k # seg
    <3>1. k # pair[o] /\ tcpConnMap'[k] = tcpConnMap[k] /\ tcpConnMap[k] # None
      BY <1>4, <1>7, <2>2
    <3>2. tcpConnMap[k] \in Objects /\ Exists(tcpConnMap[k]) /\ pair[tcpConnMap[k]] = k
      BY <3>1 DEF SockPairsAgree, MainTypeOK
    <3>3. tcpConnMap[k] # o
      BY <3>1, <3>2
    <3> QED
      BY <1>3, <1>5, <3>1, <3>2, <3>3
  <2> QED
    BY <2>1, <2>2
<1> QED
  BY <1>6, <1>7 DEF SockPairsAgree, Exists

\* addForkedConnection(): the same, and the clone takes a key that is free.
LEMMA ForkAgrees ==
  ASSUME MainTypeOK, SockPairsAgree, NEW o \in Objects, NEW n \in Objects,
         NEW seg \in SockPairs, SynInForkingListen(o, n, seg)
  PROVE  SockPairsAgree'
<1> DEFINE cp == clonePair(o)
<1>1. Exists(o) /\ tcpConnMap[seg] \in {None, o} /\ seg.remote # Blank
  BY FoundConnection DEF SynInForkingListen
<1>2. pair[o] \in SockPairs /\ tcpConnMap[pair[o]] = o
  BY <1>1 DEF MainTypeOK, SockPairsAgree
<1>3. cp \in SockPairs /\ cp # seg
  BY <1>1, <1>2 DEF clonePair, SockPair, SockPairs
<1>4. n # o
  BY <1>1 DEF SynInForkingListen
<1>5. \A x \in Objects : phase'[x] # "NONE" <=> x = n \/ Exists(x)
  BY <1>1 DEF SynInForkingListen, Exists, MainTypeOK
<1>6. \A k \in SockPairs : rekey(tcpConnMap, o, seg)[k] =
        IF k = seg THEN o ELSE IF k = pair[o] THEN None ELSE tcpConnMap[k]
  BY <1>2 DEF rekey, MainTypeOK
<1>7. \A k \in SockPairs : tcpConnMap'[k] = IF k = cp THEN n ELSE rekey(tcpConnMap, o, seg)[k]
  BY <1>3, RekeyType DEF SynInForkingListen
<1>8. \A x \in Objects : pair'[x] = IF x = n THEN cp ELSE IF x = o THEN seg ELSE pair[x]
  BY <1>4 DEF SynInForkingListen, MainTypeOK
<1>9. cp = pair[o] \/ tcpConnMap[cp] = None
  BY <1>3, <1>6 DEF SynInForkingListen
<1>10. ASSUME NEW x \in Objects, phase'[x] # "NONE" PROVE tcpConnMap'[pair'[x]] = x
  <2>1. CASE x = n
    BY <1>3, <1>7, <1>8, <2>1
  <2>2. CASE x = o
    BY <1>3, <1>4, <1>6, <1>7, <1>8, <2>2
  <2>3. CASE x # n /\ x # o
    <3>1. tcpConnMap[pair[x]] = x /\ pair[x] \in SockPairs
      BY <1>5, <1>10, <2>3 DEF SockPairsAgree, MainTypeOK
    <3>2. pair[x] # seg /\ pair[x] # pair[o] /\ pair[x] # cp
      BY <1>1, <1>2, <1>9, <2>3, <3>1
    <3> QED
      BY <1>6, <1>7, <1>8, <2>3, <3>1, <3>2
  <2> QED
    BY <2>1, <2>2, <2>3
<1>11. ASSUME NEW k \in SockPairs, tcpConnMap'[k] # None
       PROVE  phase'[tcpConnMap'[k]] # "NONE" /\ pair'[tcpConnMap'[k]] = k
  <2>1. CASE k = cp
    BY <1>5, <1>7, <1>8, <2>1
  <2>2. CASE k = seg
    BY <1>1, <1>3, <1>4, <1>5, <1>6, <1>7, <1>8, <2>2
  <2>3. CASE k # cp /\ k # seg
    <3>1. k # pair[o] /\ tcpConnMap'[k] = tcpConnMap[k] /\ tcpConnMap[k] # None
      BY <1>6, <1>7, <1>11, <2>3
    <3>2. tcpConnMap[k] \in Objects /\ Exists(tcpConnMap[k]) /\ pair[tcpConnMap[k]] = k
      BY <3>1 DEF SockPairsAgree, MainTypeOK
    <3>3. tcpConnMap[k] # o /\ tcpConnMap[k] # n
      BY <3>1, <3>2 DEF SynInForkingListen
    <3> QED
      BY <1>5, <1>8, <3>1, <3>2, <3>3
  <2> QED
    BY <2>1, <2>2, <2>3
<1> QED
  BY <1>10, <1>11 DEF SockPairsAgree, Exists

\* removeConnection() erases the key of the connection and no other.
LEMMA RemoveAgrees ==
  ASSUME MainTypeOK, SockPairsAgree, NEW o \in Objects, Remove(o)
  PROVE  SockPairsAgree'
<1>1. pair[o] \in SockPairs /\ tcpConnMap[pair[o]] = o
  BY DEF Remove, MainTypeOK, SockPairsAgree
<1>2. \A k \in SockPairs : tcpConnMap'[k] = IF k = pair[o] THEN None ELSE tcpConnMap[k]
  BY DEF Remove, MainTypeOK
<1>3. \A x \in Objects : x # o => pair'[x] = pair[x] /\ phase'[x] = phase[x]
  BY DEF Remove, MainTypeOK
<1>4. phase'[o] = "NONE"
  BY DEF Remove, MainTypeOK
<1>5. ASSUME NEW x \in Objects, phase'[x] # "NONE" PROVE tcpConnMap'[pair'[x]] = x
  <2>1. x # o /\ Exists(x)
    BY <1>3, <1>4, <1>5 DEF Exists
  <2>2. tcpConnMap[pair[x]] = x /\ pair[x] \in SockPairs
    BY <2>1 DEF SockPairsAgree, MainTypeOK
  <2> QED
    BY <1>1, <1>2, <1>3, <2>1, <2>2
<1>6. ASSUME NEW k \in SockPairs, tcpConnMap'[k] # None
      PROVE  phase'[tcpConnMap'[k]] # "NONE" /\ pair'[tcpConnMap'[k]] = k
  <2>1. k # pair[o] /\ tcpConnMap'[k] = tcpConnMap[k]
    BY <1>2, <1>6
  <2>2. tcpConnMap[k] \in Objects /\ Exists(tcpConnMap[k]) /\ pair[tcpConnMap[k]] = k
    BY <1>6, <2>1 DEF SockPairsAgree, MainTypeOK
  <2> QED
    BY <1>3, <2>1, <2>2 DEF Exists
<1> QED
  BY <1>5, <1>6 DEF SockPairsAgree, Exists

\* Every step of TCP keeps tcpConnMap and the connections in agreement.
LEMMA NextAgrees ==
  ASSUME MainTypeOK, SockPairsAgree, [MainNext]_mainVars
  PROVE  SockPairsAgree'
<1>1. CASE UNCHANGED mainVars
  BY <1>1 DEF SockPairsAgree, Exists, mainVars, objectVars
<1>2. ASSUME NEW o \in Objects, OpenActive(o) \/ OpenActiveEphemeral(o) PROVE SockPairsAgree'
  <2>1. PICK la \in LocalAddrs \cup {Unspecified}, lp \in Ports, r \in Remotes :
          /\ CanOpen(o) /\ tcpConnMap[SockPair(la, lp, r)] = None
          /\ Open(o, SockPair(la, lp, r), "SYN_SENT", TRUE, FALSE)
    BY <1>2, ZenonT(30) DEF OpenActive, OpenActiveEphemeral
  <2> QED
    BY <2>1, SockPairType, OpenAgrees, ZenonT(30) DEF Phases
<1>3. ASSUME NEW o \in Objects, OpenPassive(o) PROVE SockPairsAgree'
  <2>1. PICK la \in LocalAddrs \cup {Unspecified}, lp \in Ports, isFork \in BOOLEAN :
          /\ CanOpen(o) /\ tcpConnMap[SockPair(la, lp, Blank)] = None
          /\ Open(o, SockPair(la, lp, Blank), "LISTEN", FALSE, isFork)
    BY <1>3, ZenonT(30) DEF OpenPassive
  <2>2. SockPair(la, lp, Blank) \in SockPairs /\ "LISTEN" \in Phases \ {"NONE"}
    BY SockPairType DEF Phases
  <2> QED
    BY <2>1, <2>2, OpenAgrees, ZenonT(30)
<1>4. ASSUME NEW o \in Objects, NEW seg \in SockPairs, SynInListen(o, seg) PROVE SockPairsAgree'
  BY <1>4, RekeyAgrees, ZenonT(30) DEF SynInListen, Phases
<1>5. ASSUME NEW o \in Objects, NEW seg \in SockPairs, SynInSynSent(o, seg) PROVE SockPairsAgree'
  <2>1. PICK ph \in {"SYN_RCVD", "SYNCHRONIZED"} : phase' = [phase EXCEPT ![o] = ph]
    BY <1>5, ZenonT(30) DEF SynInSynSent
  <2>2. ph \in Phases \ {"NONE"}
    BY DEF Phases
  <2> QED
    BY <1>5, <2>1, <2>2, RekeyAgrees, ZenonT(30) DEF SynInSynSent
<1>6. ASSUME NEW o \in Objects, LeaveSynRcvd(o) \/ ReturnToListen(o) \/ SendInListen(o)
      PROVE SockPairsAgree'
  <2>1. \A x \in Objects : phase'[x] # "NONE" <=> phase[x] # "NONE"
    BY <1>6 DEF LeaveSynRcvd, ReturnToListen, SendInListen, Goto, MainTypeOK
  <2>2. pair' = pair /\ tcpConnMap' = tcpConnMap
    BY <1>6 DEF LeaveSynRcvd, ReturnToListen, SendInListen, Goto
  <2> QED
    BY <2>1, <2>2 DEF SockPairsAgree, Exists, MainTypeOK
<1>7. ASSUME NEW o \in Objects, NEW seg \in SockPairs, ForkFails(o, seg) PROVE SockPairsAgree'
  BY <1>7, ZenonT(30) DEF ForkFails, objectVars, SockPairsAgree, Exists
<1>8. ASSUME NEW o \in Objects, OpenFails(o) \/ SendInListenFails(o) PROVE SockPairsAgree'
  BY <1>8, ZenonT(30) DEF OpenFails, SendInListenFails, objectVars, SockPairsAgree, Exists
<1> QED
  BY <1>1, <1>2, <1>3, <1>4, <1>5, <1>6, <1>7, <1>8, ForkAgrees, RemoveAgrees
     DEF MainNext, SegmentArrives

\* The maps are empty at first.
LEMMA InitAgrees == MainInit => SockPairsAgree
BY DEF MainInit, SockPairsAgree, Exists

\* tcpConnMap and the connections' socket pairs agree in every reachable state.
THEOREM ConnMapConsistent == MainSpec => []SockPairsAgree
<1>1. MainTypeOK /\ SockPairsAgree /\ [MainNext]_mainVars => SockPairsAgree'
  BY NextAgrees
<1> QED
  BY <1>1, InitAgrees, MainTypeCorrect, PTL DEF MainSpec

\* No ASSERT at the top of processTCPSegment() fails.
THEOREM SegmentsMatch == MainSpec => []SegmentsFindTheirConnection
<1>1. MainTypeOK /\ SockPairsAgree => SegmentsFindTheirConnection
  <2> SUFFICES ASSUME MainTypeOK, SockPairsAgree,
                      NEW la \in LocalAddrs, NEW lp \in Ports, NEW r \in Remotes,
                      findConnForSegment(la, lp, r) # None
               PROVE  LET o == findConnForSegment(la, lp, r)
                      IN /\ Exists(o)
                         /\ pair[o].laddr # Unspecified => pair[o].laddr = la /\ pair[o].lport = lp
                         /\ pair[o].remote # Blank => pair[o].remote = r
    BY ZenonT(30) DEF SegmentsFindTheirConnection
  <2>1. \A a \in {la, Unspecified}, x \in {r, Blank} :
          /\ SockPair(a, lp, x) \in SockPairs
          /\ SockPair(a, lp, x).laddr = a
          /\ SockPair(a, lp, x).lport = lp
          /\ SockPair(a, lp, x).remote = x
    BY DEF SockPair, SockPairs
  <2>2. PICK a \in {la, Unspecified}, x \in {r, Blank} :
          findConnForSegment(la, lp, r) = tcpConnMap[SockPair(a, lp, x)]
    BY DEF findConnForSegment
  <2>3. /\ Exists(tcpConnMap[SockPair(a, lp, x)])
        /\ pair[tcpConnMap[SockPair(a, lp, x)]] = SockPair(a, lp, x)
    BY <2>1, <2>2 DEF SockPairsAgree
  <2> QED
    BY <2>1, <2>2, <2>3
<1> QED
  BY <1>1, MainTypeCorrect, ConnMapConsistent, PTL

(***************************************************************************)
(* tcpAppConnMap. A new connId is above all that are in use.               *)
(***************************************************************************)
ConnIdsIssued == \A o \in Objects : connId[o] <= uniqueNumber

ConnIdInv == ConnIdsAgree /\ ConnIdsIssued

\* The entries of the next connId to be issued.
LEMMA NextConnIdFree ==
  ASSUME MainTypeOK, ConnIdInv, uniqueNumber < MaxConnId
  PROVE  /\ uniqueNumber + 1 \in ConnIds
         /\ tcpAppConnMap[uniqueNumber + 1] = None
         /\ \A o \in Objects : connId[o] # uniqueNumber + 1
<1>1. uniqueNumber + 1 \in ConnIds
  BY DEF MainTypeOK
<1>2. \A o \in Objects : connId[o] # uniqueNumber + 1
  BY DEF MainTypeOK, ConnIdInv, ConnIdsIssued
<1> QED
  BY <1>1, <1>2 DEF MainTypeOK, ConnIdInv, ConnIdsAgree

\* An open takes a connection id that no connection has.
LEMMA OpenConnIds ==
  ASSUME MainTypeOK, ConnIdInv, NEW o \in Objects, NEW key, NEW ph \in Phases \ {"NONE"},
         NEW isActive, NEW isFork, CanOpen(o), Open(o, key, ph, isActive, isFork)
  PROVE  ConnIdInv'
<1>1. /\ uniqueNumber + 1 \in ConnIds
      /\ tcpAppConnMap[uniqueNumber + 1] = None
  BY NextConnIdFree DEF CanOpen
<1>2. ConnIdsAgree'
  BY <1>1 DEF MainTypeOK, ConnIdInv, ConnIdsAgree, CanOpen, Open, Exists
<1>3. ConnIdsIssued'
  BY DEF MainTypeOK, ConnIdInv, ConnIdsIssued, Open
<1> QED
  BY <1>2, <1>3 DEF ConnIdInv

\* addForkedConnection() exchanges the ids of the listener and its clone.
LEMMA ForkConnIds ==
  ASSUME MainTypeOK, ConnIdInv, NEW o \in Objects, NEW n \in Objects, NEW seg,
         SynInForkingListen(o, n, seg)
  PROVE  ConnIdInv'
<1> DEFINE id == uniqueNumber + 1
<1>1. /\ id \in ConnIds /\ tcpAppConnMap[id] = None
      /\ \A x \in Objects : connId[x] # id
  BY NextConnIdFree DEF SynInForkingListen
<1>2. Exists(o) /\ ~ Exists(n) /\ n # o /\ connId[o] \in ConnIds
  BY DEF SynInForkingListen, Exists, MainTypeOK
<1>3. tcpAppConnMap[connId[o]] = o
  BY <1>2 DEF ConnIdInv, ConnIdsAgree
<1>4. \A x \in Objects : phase'[x] # "NONE" <=> x = n \/ Exists(x)
  BY <1>2 DEF SynInForkingListen, Exists, MainTypeOK
<1>5. \A x \in Objects : connId'[x] = IF x = n THEN connId[o] ELSE IF x = o THEN id ELSE connId[x]
  BY <1>2 DEF SynInForkingListen, swapConnIds, MainTypeOK
<1>6. \A i \in ConnIds : tcpAppConnMap'[i] =
        IF i = connId[o] THEN n ELSE IF i = id THEN o ELSE tcpAppConnMap[i]
  BY <1>1, <1>2 DEF SynInForkingListen, swapConnIds, MainTypeOK
<1>7. ASSUME NEW x \in Objects, phase'[x] # "NONE" PROVE tcpAppConnMap'[connId'[x]] = x
  <2>1. CASE x = n
    BY <1>2, <1>5, <1>6, <2>1
  <2>2. CASE x = o
    BY <1>1, <1>2, <1>5, <1>6, <2>2
  <2>3. CASE x # n /\ x # o
    <3>1. tcpAppConnMap[connId[x]] = x /\ connId[x] \in ConnIds
      BY <1>4, <1>7, <2>3 DEF ConnIdInv, ConnIdsAgree, MainTypeOK
    <3>2. connId[x] # connId[o] /\ connId[x] # id
      BY <1>1, <1>3, <2>3, <3>1
    <3> QED
      BY <1>5, <1>6, <2>3, <3>1, <3>2
  <2> QED
    BY <2>1, <2>2, <2>3
<1>8. ASSUME NEW i \in ConnIds, tcpAppConnMap'[i] # None
      PROVE  phase'[tcpAppConnMap'[i]] # "NONE" /\ connId'[tcpAppConnMap'[i]] = i
  <2>1. CASE i = connId[o]
    BY <1>4, <1>5, <1>6, <2>1
  <2>2. CASE i = id
    BY <1>1, <1>2, <1>4, <1>5, <1>6, <2>2
  <2>3. CASE i # connId[o] /\ i # id
    <3>1. tcpAppConnMap'[i] = tcpAppConnMap[i] /\ tcpAppConnMap[i] # None
      BY <1>6, <1>8, <2>3
    <3>2. tcpAppConnMap[i] \in Objects /\ Exists(tcpAppConnMap[i])
          /\ connId[tcpAppConnMap[i]] = i
      BY <3>1 DEF ConnIdInv, ConnIdsAgree, MainTypeOK
    <3>3. tcpAppConnMap[i] # o /\ tcpAppConnMap[i] # n
      BY <1>2, <2>3, <3>2
    <3> QED
      BY <1>4, <1>5, <3>1, <3>2, <3>3
  <2> QED
    BY <2>1, <2>2, <2>3
<1>9. ConnIdsAgree'
  BY <1>7, <1>8 DEF ConnIdsAgree, Exists
<1>10. uniqueNumber' = uniqueNumber + 1
  BY DEF SynInForkingListen, swapConnIds
<1>11. ConnIdsIssued'
  <2>1. /\ uniqueNumber \in Nat
        /\ \A x \in Objects : connId[x] \in Nat /\ connId[x] <= uniqueNumber
    BY DEF MainTypeOK, ConnIdInv, ConnIdsIssued
  <2>2. \A x \in Objects : connId'[x] <= uniqueNumber + 1
    BY <1>5, <2>1
  <2> QED
    BY <1>10, <2>2 DEF ConnIdsIssued
<1> QED
  BY <1>9, <1>11 DEF ConnIdInv

\* removeConnection() frees the id.
LEMMA RemoveConnIds ==
  ASSUME MainTypeOK, ConnIdInv, NEW o \in Objects, Remove(o)
  PROVE  ConnIdInv'
<1>1. connId[o] \in ConnIds /\ tcpAppConnMap[connId[o]] = o
  BY DEF Remove, MainTypeOK, ConnIdInv, ConnIdsAgree
<1>2. \A i \in ConnIds : tcpAppConnMap'[i] = IF i = connId[o] THEN None ELSE tcpAppConnMap[i]
  BY DEF Remove, MainTypeOK
<1>3. \A x \in Objects : /\ x # o => connId'[x] = connId[x] /\ phase'[x] = phase[x]
                         /\ x = o => connId'[x] = 0 /\ phase'[x] = "NONE"
  BY SMTT(30) DEF Remove, MainTypeOK
<1>4. ASSUME NEW x \in Objects, phase'[x] # "NONE" PROVE tcpAppConnMap'[connId'[x]] = x
  <2>1. x # o /\ Exists(x)
    BY <1>3, <1>4 DEF Exists
  <2>2. tcpAppConnMap[connId[x]] = x /\ connId[x] \in ConnIds
    BY <2>1 DEF ConnIdInv, ConnIdsAgree, MainTypeOK
  <2> QED
    BY <1>1, <1>2, <1>3, <2>1, <2>2
<1>5. ASSUME NEW i \in ConnIds, tcpAppConnMap'[i] # None
      PROVE  phase'[tcpAppConnMap'[i]] # "NONE" /\ connId'[tcpAppConnMap'[i]] = i
  <2>1. i # connId[o] /\ tcpAppConnMap'[i] = tcpAppConnMap[i]
    BY <1>2, <1>5
  <2>2. tcpAppConnMap[i] \in Objects /\ Exists(tcpAppConnMap[i]) /\ connId[tcpAppConnMap[i]] = i
    BY <1>5, <2>1 DEF ConnIdInv, ConnIdsAgree, MainTypeOK
  <2> QED
    BY <1>3, <2>1, <2>2 DEF Exists
<1>6. ConnIdsAgree'
  BY <1>4, <1>5 DEF ConnIdsAgree, Exists
<1>7. ConnIdsIssued'
  <2>1. uniqueNumber' = uniqueNumber /\ uniqueNumber \in Nat
    BY DEF Remove, MainTypeOK
  <2>2. \A x \in Objects : connId'[x] <= uniqueNumber
    BY <1>3, <2>1 DEF ConnIdInv, ConnIdsIssued
  <2> QED
    BY <2>1, <2>2 DEF ConnIdsIssued
<1> QED
  BY <1>6, <1>7 DEF ConnIdInv

\* Every step of TCP keeps tcpAppConnMap and the connections in agreement.
LEMMA NextConnIds ==
  ASSUME MainTypeOK, ConnIdInv, [MainNext]_mainVars
  PROVE  ConnIdInv'
<1>1. CASE UNCHANGED mainVars
  BY <1>1 DEF ConnIdInv, ConnIdsAgree, ConnIdsIssued, Exists, mainVars, objectVars
<1>2. ASSUME NEW o \in Objects, OpenActive(o) \/ OpenActiveEphemeral(o) PROVE ConnIdInv'
  BY <1>2, OpenConnIds, ZenonT(30) DEF OpenActive, OpenActiveEphemeral, Phases
<1>3. ASSUME NEW o \in Objects, OpenPassive(o) PROVE ConnIdInv'
  BY <1>3, OpenConnIds, ZenonT(30) DEF OpenPassive, Phases
<1>4. ASSUME NEW o \in Objects, NEW seg \in SockPairs,
             \/ SynInListen(o, seg) \/ SynInSynSent(o, seg)
             \/ LeaveSynRcvd(o) \/ ReturnToListen(o) \/ SendInListen(o)
      PROVE ConnIdInv'
  <2>1. \A x \in Objects : phase'[x] # "NONE" <=> phase[x] # "NONE"
    BY <1>4, SMTT(30) DEF SynInListen, SynInSynSent, LeaveSynRcvd, ReturnToListen,
                          SendInListen, Goto, MainTypeOK
  <2>2. connId' = connId /\ tcpAppConnMap' = tcpAppConnMap /\ uniqueNumber' = uniqueNumber
    BY <1>4 DEF SynInListen, SynInSynSent, LeaveSynRcvd, ReturnToListen, SendInListen, Goto
  <2> QED
    BY <2>1, <2>2 DEF ConnIdInv, ConnIdsAgree, ConnIdsIssued, Exists, MainTypeOK
<1>5. ASSUME NEW o \in Objects, LeaveSynRcvd(o) \/ ReturnToListen(o) \/ SendInListen(o)
      PROVE ConnIdInv'
  <2>1. pair[o] \in SockPairs
    BY SMTT(30) DEF MainTypeOK
  <2> QED
    BY <1>4, <1>5, <2>1
<1>6. ASSUME NEW o \in Objects, NEW seg \in SockPairs, ForkFails(o, seg) PROVE ConnIdInv'
  BY <1>6, ZenonT(30) DEF ForkFails, objectVars, ConnIdInv, ConnIdsAgree, ConnIdsIssued, Exists
<1>7. ASSUME NEW o \in Objects, OpenFails(o) \/ SendInListenFails(o) PROVE ConnIdInv'
  BY <1>7, ZenonT(30) DEF OpenFails, SendInListenFails, objectVars, ConnIdInv,
                          ConnIdsAgree, ConnIdsIssued, Exists
<1> QED
  BY <1>1, <1>2, <1>3, <1>4, <1>5, <1>6, <1>7, ForkConnIds, RemoveConnIds, SMTT(30)
     DEF MainNext, SegmentArrives

\* tcpAppConnMap and the connections' connIds agree in every reachable state,
\* through any number of forks.
THEOREM AppConnMapConsistent == MainSpec => []ConnIdsAgree
<1>1. MainInit => ConnIdInv
  BY DEF MainInit, ConnIdInv, ConnIdsAgree, ConnIdsIssued, Exists
<1>2. MainTypeOK /\ ConnIdInv /\ [MainNext]_mainVars => ConnIdInv'
  BY NextConnIds
<1>3. ConnIdInv => ConnIdsAgree
  BY DEF ConnIdInv
<1> QED
  BY <1>1, <1>2, <1>3, MainTypeCorrect, PTL DEF MainSpec

(***************************************************************************)
(* The clone of a listener.                                                *)
(***************************************************************************)
\* Only a listener that will fork before it takes a SYN lacks its configuration.
ConfiguredUnlessClone ==
  \A o \in Objects :
    Exists(o) /\ (phase[o] # "LISTEN" \/ ~ fork[o] \/ pair[o].remote # Blank) => configured[o]

\* Every step keeps the state variables configured where they are used.
LEMMA NextConfigured ==
  ASSUME MainTypeOK, ConfiguredUnlessClone, SockPairsAgree, [MainNext]_mainVars
  PROVE  ConfiguredUnlessClone'
<1>1. CASE UNCHANGED mainVars
  BY <1>1 DEF ConfiguredUnlessClone, Exists, mainVars, objectVars
<1>2. ASSUME NEW o \in Objects, NEW key, NEW ph, NEW isActive, NEW isFork,
             Open(o, key, ph, isActive, isFork)
      PROVE ConfiguredUnlessClone'
  BY <1>2 DEF Open, ConfiguredUnlessClone, Exists, MainTypeOK
<1>3. ASSUME NEW o \in Objects,
             OpenActive(o) \/ OpenActiveEphemeral(o) \/ OpenPassive(o)
      PROVE ConfiguredUnlessClone'
  BY <1>2, <1>3, ZenonT(30) DEF OpenActive, OpenActiveEphemeral, OpenPassive
<1>4. ASSUME NEW o \in Objects, NEW seg \in SockPairs, SynInListen(o, seg) \/ SynInSynSent(o, seg)
      PROVE ConfiguredUnlessClone'
  <2>1. Exists(o)
    BY <1>4 DEF SynInListen, SynInSynSent, Exists
  <2>2. configured[o]
    BY <1>4, <2>1 DEF SynInListen, SynInSynSent, ConfiguredUnlessClone
  <2>3. \A x \in Objects : x # o => phase'[x] = phase[x] /\ pair'[x] = pair[x]
    BY <1>4 DEF SynInListen, SynInSynSent, updateSockPair, MainTypeOK
  <2>4. fork' = fork /\ configured' = configured
    BY <1>4 DEF SynInListen, SynInSynSent
  <2> QED
    BY <2>2, <2>3, <2>4 DEF ConfiguredUnlessClone, Exists
<1>5. ASSUME NEW o \in Objects, NEW n \in Objects, NEW seg \in SockPairs,
             SynInForkingListen(o, n, seg)
      PROVE ConfiguredUnlessClone'
  <2>1. n # o
    BY <1>5 DEF SynInForkingListen, Exists
  <2>2. configured'[o]
    BY <1>5, <2>1 DEF SynInForkingListen, cloneConfiguration, MainTypeOK
  <2>3. clonePair(o).remote = Blank
    BY DEF clonePair, SockPair
  <2>4. phase'[n] = "LISTEN" /\ fork'[n] /\ pair'[n] = clonePair(o)
    BY <1>5, <2>1 DEF SynInForkingListen, MainTypeOK
  <2>5. \A x \in Objects : x # o /\ x # n =>
          /\ phase'[x] = phase[x] /\ pair'[x] = pair[x]
          /\ fork'[x] = fork[x] /\ configured'[x] = configured[x]
    BY <1>5 DEF SynInForkingListen, cloneConfiguration, MainTypeOK
  <2> QED
    BY <2>2, <2>3, <2>4, <2>5 DEF ConfiguredUnlessClone, Exists
<1>6. ASSUME NEW o \in Objects, LeaveSynRcvd(o) \/ ReturnToListen(o) \/ SendInListen(o)
      PROVE ConfiguredUnlessClone'
  <2>1. configured[o]
    BY <1>6 DEF LeaveSynRcvd, ReturnToListen, SendInListen, Goto, ConfiguredUnlessClone, Exists
  <2>2. \A x \in Objects : x # o => phase'[x] = phase[x]
    BY <1>6, SMTT(30) DEF LeaveSynRcvd, ReturnToListen, SendInListen, Goto, MainTypeOK
  <2>3. pair' = pair /\ fork' = fork /\ configured' = configured
    BY <1>6 DEF LeaveSynRcvd, ReturnToListen, SendInListen, Goto
  <2> QED
    BY <2>1, <2>2, <2>3 DEF ConfiguredUnlessClone, Exists
<1>7. ASSUME NEW o \in Objects, Remove(o) PROVE ConfiguredUnlessClone'
  BY <1>7, SMTT(30) DEF Remove, ConfiguredUnlessClone, Exists, MainTypeOK
<1>8. ASSUME NEW o \in Objects, NEW seg \in SockPairs, ForkFails(o, seg)
      PROVE ConfiguredUnlessClone'
  BY <1>8, ZenonT(30) DEF ForkFails, objectVars, ConfiguredUnlessClone, Exists
<1>9. ASSUME NEW o \in Objects, OpenFails(o) \/ SendInListenFails(o)
      PROVE ConfiguredUnlessClone'
  BY <1>9, ZenonT(30) DEF OpenFails, SendInListenFails, objectVars, ConfiguredUnlessClone, Exists
<1> QED
  BY <1>1, <1>3, <1>4, <1>5, <1>6, <1>7, <1>8, <1>9 DEF MainNext, SegmentArrives

\* snd_mss and rcv_wnd are configured in every connection that leaves LISTEN.
THEOREM ForksAreConfigured == MainSpec => []ConfiguredBeyondListen
<1>1. MainInit => ConfiguredUnlessClone
  BY DEF MainInit, ConfiguredUnlessClone, Exists
<1>2. MainTypeOK /\ SockPairsAgree /\ ConfiguredUnlessClone /\ [MainNext]_mainVars
        => ConfiguredUnlessClone'
  BY NextConfigured
<1>3. ConfiguredUnlessClone => ConfiguredBeyondListen
  BY DEF ConfiguredUnlessClone, ConfiguredBeyondListen
<1> QED
  BY <1>1, <1>2, <1>3, MainTypeCorrect, ConnMapConsistent, PTL DEF MainSpec

\* A forking listener is replaced by its clone on every SYN that it takes.
THEOREM ListenerSurvivesFork == MainSpec => ListenerStays
<1> DEFINE Stays(o) ==
      phase[o] = "LISTEN" /\ fork[o] /\ pair[o].remote = Blank /\ phase'[o] = "SYN_RCVD" =>
        \E n \in Objects : /\ phase'[n] = "LISTEN" /\ fork'[n]
                           /\ pair'[n] = pair[o] /\ tcpConnMap'[pair[o]] = n
                           /\ connId'[n] = connId[o] /\ tcpAppConnMap'[connId[o]] = n
<1>1. ASSUME MainTypeOK, MainNext, NEW o \in Objects, phase[o] = "LISTEN", fork[o],
             pair[o].remote = Blank, phase'[o] = "SYN_RCVD"
      PROVE  \E n \in Objects, seg \in SockPairs : SynInForkingListen(o, n, seg)
  <2>1. \A x \in Objects : ~ (OpenActive(x) \/ OpenActiveEphemeral(x) \/ OpenPassive(x))
    <3>1. ASSUME NEW x \in Objects, NEW key, NEW ph \in {"SYN_SENT", "LISTEN"},
                 NEW isActive, NEW isFork, Open(x, key, ph, isActive, isFork)
          PROVE  FALSE
      BY <1>1, <3>1 DEF Open, MainTypeOK
    <3> QED
      BY <3>1, ZenonT(30) DEF OpenActive, OpenActiveEphemeral, OpenPassive
  <2>2. \A x \in Objects : ~ (OpenFails(x) \/ SendInListenFails(x) \/ Remove(x))
    BY <1>1, ZenonT(30) DEF OpenFails, SendInListenFails, Remove, objectVars, MainTypeOK
  <2>3. \A x \in Objects : ~ (LeaveSynRcvd(x) \/ ReturnToListen(x) \/ SendInListen(x))
    BY <1>1, SMTT(30) DEF LeaveSynRcvd, ReturnToListen, SendInListen, Goto, MainTypeOK
  <2>4. \A x \in Objects, seg \in SockPairs :
          ~ (SynInListen(x, seg) \/ SynInSynSent(x, seg) \/ ForkFails(x, seg))
    BY <1>1, ZenonT(30) DEF SynInListen, SynInSynSent, ForkFails, objectVars, MainTypeOK
  <2>5. \A x, n \in Objects, seg \in SockPairs : SynInForkingListen(x, n, seg) => x = o
    BY <1>1, SMTT(30) DEF SynInForkingListen, MainTypeOK
  <2> QED
    BY <1>1, <2>1, <2>2, <2>3, <2>4, <2>5, ZenonT(30) DEF MainNext, SegmentArrives
<1>2. ASSUME MainTypeOK, NEW o \in Objects, NEW n \in Objects, NEW seg \in SockPairs,
             pair[o].remote = Blank, SynInForkingListen(o, n, seg)
      PROVE  /\ phase'[n] = "LISTEN" /\ fork'[n]
             /\ pair'[n] = pair[o] /\ tcpConnMap'[pair[o]] = n
             /\ connId'[n] = connId[o] /\ tcpAppConnMap'[connId[o]] = n
  <2>1. n # o
    BY <1>2 DEF SynInForkingListen, Exists
  <2>2. pair[o] \in SockPairs
    BY <1>2 DEF MainTypeOK
  <2>3. clonePair(o) = pair[o]
    BY <1>2, <2>2 DEF clonePair, SockPair, SockPairs
  <2>4. phase'[n] = "LISTEN" /\ fork'[n] /\ pair'[n] = pair[o]
    BY <1>2, <2>1, <2>3 DEF SynInForkingListen, MainTypeOK
  <2>5. tcpConnMap'[pair[o]] = n
    BY <1>2, <2>2, <2>3, RekeyType DEF SynInForkingListen
  <2>6. connId'[n] = connId[o] /\ tcpAppConnMap'[connId[o]] = n
    BY <1>2, <2>1, SMTT(30) DEF SynInForkingListen, swapConnIds, MainTypeOK
  <2> QED
    BY <2>4, <2>5, <2>6
<1>3. ASSUME MainTypeOK, [MainNext]_mainVars, NEW o \in Objects PROVE Stays(o)
  <2>1. CASE UNCHANGED mainVars
    BY <2>1 DEF mainVars, objectVars
  <2>2. CASE MainNext
    BY <1>1, <1>2, <1>3, <2>2
  <2> QED
    BY <1>3, <2>1, <2>2
<1>4. MainTypeOK /\ [MainNext]_mainVars => [\A o \in Objects : Stays(o)]_mainVars
  BY <1>3
<1> QED
  BY <1>4, MainTypeCorrect, PTL DEF MainSpec, ListenerStays

(***************************************************************************)
(* The ephemeral ports.                                                    *)
(***************************************************************************)
\* The connections on a port.
OnPort(p) == {o \in Objects : Exists(o) /\ pair[o].lport = p}

PortsInv ==
  \A p \in EphemeralPorts : /\ IsFiniteSet(OnPort(p))
                            /\ usedEphemeralPorts[p] = Cardinality(OnPort(p))

\* A new connection n on the port lp is counted by addSockPair().
LEMMA PortAdded ==
  ASSUME MainTypeOK, PortsInv, NEW n \in Objects, ~ Exists(n), NEW lp \in Ports,
         \A p \in EphemeralPorts :
            OnPort(p)' = IF p = lp THEN OnPort(p) \cup {n} ELSE OnPort(p),
         usedEphemeralPorts' = markUsed(usedEphemeralPorts, lp)
  PROVE  PortsInv'
<1> SUFFICES ASSUME NEW p \in EphemeralPorts
             PROVE  /\ IsFiniteSet(OnPort(p)')
                    /\ usedEphemeralPorts'[p] = Cardinality(OnPort(p)')
  BY DEF PortsInv
<1>1. /\ IsFiniteSet(OnPort(p)) /\ usedEphemeralPorts[p] = Cardinality(OnPort(p))
      /\ usedEphemeralPorts \in [EphemeralPorts -> Nat]
  BY DEF PortsInv, MainTypeOK
<1>2. n \notin OnPort(p)
  BY DEF OnPort
<1>3. CASE p = lp
  <2> DEFINE S == OnPort(p)
  <2>1. usedEphemeralPorts'[p] = usedEphemeralPorts[p] + 1
    BY <1>1, <1>3 DEF markUsed
  <2>2. OnPort(p)' = S \cup {n}
    BY <1>3
  <2> HIDE DEF S
  <2>3. IsFiniteSet(S \cup {n}) /\ Cardinality(S \cup {n}) = Cardinality(S) + 1
    <3>1. IsFiniteSet(S) /\ n \notin S
      BY <1>1, <1>2 DEF S
    <3> QED
      BY <3>1, FS_AddElement
  <2> QED
    BY <1>1, <2>1, <2>2, <2>3 DEF S
<1>4. CASE p # lp
  <2>1. usedEphemeralPorts'[p] = usedEphemeralPorts[p]
    BY <1>1, <1>4 DEF markUsed
  <2> QED
    BY <1>1, <1>4, <2>1
<1> QED
  BY <1>3, <1>4

\* Nothing is counted when no connection comes, goes or changes its port.
LEMMA PortsStay ==
  ASSUME MainTypeOK, PortsInv, usedEphemeralPorts' = usedEphemeralPorts,
         \A x \in Objects : /\ Exists(x)' <=> Exists(x)
                            /\ pair'[x].lport = pair[x].lport
  PROVE  PortsInv'
<1>1. \A p : OnPort(p)' = OnPort(p)
  BY DEF OnPort
<1> QED
  BY <1>1 DEF PortsInv

\* An open.
LEMMA OpenPorts ==
  ASSUME MainTypeOK, PortsInv, NEW o \in Objects, NEW key \in SockPairs,
         NEW ph \in Phases \ {"NONE"}, NEW isActive, NEW isFork,
         CanOpen(o), Open(o, key, ph, isActive, isFork)
  PROVE  PortsInv'
<1>1. key.lport \in Ports /\ ~ Exists(o)
  BY DEF SockPairs, CanOpen
<1>2. \A x \in Objects : /\ pair'[x] = IF x = o THEN key ELSE pair[x]
                         /\ Exists(x)' <=> x = o \/ Exists(x)
  BY DEF Open, MainTypeOK, Exists
<1>3. \A p \in EphemeralPorts :
         OnPort(p)' = IF p = key.lport THEN OnPort(p) \cup {o} ELSE OnPort(p)
  BY <1>1, <1>2 DEF OnPort
<1>4. usedEphemeralPorts' = markUsed(usedEphemeralPorts, key.lport)
  BY DEF Open
<1> QED
  BY <1>1, <1>3, <1>4, PortAdded

\* A fork: the connection keeps its port, the clone is one more on it.
LEMMA ForkPorts ==
  ASSUME MainTypeOK, SockPairsAgree, PortsInv, NEW o \in Objects, NEW n \in Objects,
         NEW seg \in SockPairs, SynInForkingListen(o, n, seg)
  PROVE  PortsInv'
<1> DEFINE lp == pair[o].lport
<1>1. ~ Exists(n) /\ Exists(o) /\ seg.lport = lp /\ lp \in Ports
  BY FoundConnection DEF SynInForkingListen, MainTypeOK, SockPairs
<1>2. clonePair(o).lport = lp
  BY DEF clonePair, SockPair
<1>3. /\ pair' = [pair EXCEPT ![o] = seg, ![n] = clonePair(o)]
      /\ phase' = [phase EXCEPT ![o] = "SYN_RCVD", ![n] = "LISTEN"]
      /\ usedEphemeralPorts' = markUsed(usedEphemeralPorts, lp)
  BY DEF SynInForkingListen
<1>4. o # n
  BY <1>1
<1>5. \A x \in Objects : /\ pair'[x].lport = IF x = n THEN lp ELSE pair[x].lport
                         /\ Exists(x)' <=> x = n \/ Exists(x)
  <2>1. pair \in [Objects -> SockPairs] /\ phase \in [Objects -> Phases]
    BY DEF MainTypeOK
  <2> QED
    BY <1>1, <1>2, <1>3, <1>4, <2>1 DEF Exists
<1> HIDE DEF lp
<1>6. \A p \in EphemeralPorts :
         OnPort(p)' = IF p = lp THEN OnPort(p) \cup {n} ELSE OnPort(p)
  BY <1>1, <1>5 DEF OnPort
<1> QED
  BY <1>1, <1>3, <1>6, PortAdded

\* removeConnection() takes one occurrence of the port out of the multiset.
LEMMA RemovePorts ==
  ASSUME MainTypeOK, PortsInv, NEW o \in Objects, Remove(o)
  PROVE  PortsInv'
<1> DEFINE lp == pair[o].lport
<1>1. Exists(o) /\ usedEphemeralPorts' = unmark(usedEphemeralPorts, lp)
  BY DEF Remove
<1>2. \A x \in Objects : x # o => pair'[x] = pair[x] /\ (Exists(x)' <=> Exists(x))
  BY DEF Remove, MainTypeOK, Exists
<1>3. ~ Exists(o)'
  BY DEF Remove, MainTypeOK, Exists
<1> SUFFICES ASSUME NEW p \in EphemeralPorts
             PROVE  /\ IsFiniteSet(OnPort(p)')
                    /\ usedEphemeralPorts'[p] = Cardinality(OnPort(p)')
  BY DEF PortsInv
<1>4. /\ IsFiniteSet(OnPort(p)) /\ usedEphemeralPorts[p] = Cardinality(OnPort(p))
      /\ usedEphemeralPorts \in [EphemeralPorts -> Nat]
  BY DEF PortsInv, MainTypeOK
<1> DEFINE S == OnPort(p)
<1>5. OnPort(p)' = S \ {o}
  BY <1>2, <1>3 DEF OnPort
<1>6. o \in S <=> p = lp
  BY <1>1 DEF OnPort
<1> HIDE DEF S, lp
<1>7. /\ IsFiniteSet(S \ {o})
      /\ Cardinality(S \ {o}) = IF o \in S THEN Cardinality(S) - 1 ELSE Cardinality(S)
  BY <1>4, FS_RemoveElement DEF S
<1>8. usedEphemeralPorts[p] = Cardinality(S)
  BY <1>4 DEF S
<1>9. CASE p = lp
  <2>1. Cardinality(S) # 0
    BY <1>4, <1>6, <1>9, FS_EmptySet DEF S
  <2>2. usedEphemeralPorts[p] > 0
    BY <1>4, <1>8, <2>1
  <2>3. usedEphemeralPorts'[p] = usedEphemeralPorts[p] - 1
    BY <1>1, <1>4, <1>9, <2>2 DEF unmark
  <2> QED
    BY <1>5, <1>6, <1>7, <1>8, <1>9, <2>3
<1>10. CASE p # lp
  <2>1. usedEphemeralPorts'[p] = usedEphemeralPorts[p]
    BY <1>1, <1>4, <1>10 DEF unmark
  <2> QED
    BY <1>5, <1>6, <1>7, <1>8, <1>10, <2>1
<1> QED
  BY <1>9, <1>10

\* Every step of TCP counts the ports.
LEMMA NextPorts ==
  ASSUME MainTypeOK, SockPairsAgree, PortsInv, [MainNext]_mainVars
  PROVE  PortsInv'
<1>1. CASE UNCHANGED mainVars
  BY <1>1 DEF PortsInv, OnPort, Exists, mainVars, objectVars
<1>2. ASSUME NEW o \in Objects, OpenActive(o) \/ OpenActiveEphemeral(o) PROVE PortsInv'
  <2>1. PICK la \in LocalAddrs \cup {Unspecified}, lp \in Ports, r \in Remotes :
          CanOpen(o) /\ Open(o, SockPair(la, lp, r), "SYN_SENT", TRUE, FALSE)
    BY <1>2, ZenonT(30) DEF OpenActive, OpenActiveEphemeral
  <2>2. SockPair(la, lp, r) \in SockPairs /\ "SYN_SENT" \in Phases \ {"NONE"}
    BY SockPairType DEF Phases
  <2> QED
    BY <2>1, <2>2, OpenPorts, ZenonT(30)
<1>3. ASSUME NEW o \in Objects, OpenPassive(o) PROVE PortsInv'
  <2>1. PICK la \in LocalAddrs \cup {Unspecified}, lp \in Ports, isFork \in BOOLEAN :
          CanOpen(o) /\ Open(o, SockPair(la, lp, Blank), "LISTEN", FALSE, isFork)
    BY <1>3, ZenonT(30) DEF OpenPassive
  <2>2. SockPair(la, lp, Blank) \in SockPairs /\ "LISTEN" \in Phases \ {"NONE"}
    BY SockPairType DEF Phases
  <2> QED
    BY <2>1, <2>2, OpenPorts, ZenonT(30)
<1>4. ASSUME NEW o \in Objects, NEW seg \in SockPairs,
             SynInListen(o, seg) \/ SynInSynSent(o, seg)
      PROVE PortsInv'
  <2>1. ArrivesAt(o, seg) /\ pair' = [pair EXCEPT ![o] = seg]
    BY <1>4 DEF SynInListen, SynInSynSent, updateSockPair
  <2>2. seg.lport = pair[o].lport
    BY <2>1, FoundConnection
  <2>3. \A x \in Objects : Exists(x)' <=> Exists(x)
    BY <1>4 DEF SynInListen, SynInSynSent, Exists, MainTypeOK
  <2>4. \A x \in Objects : pair'[x].lport = pair[x].lport
    BY <2>1, <2>2 DEF MainTypeOK
  <2>5. usedEphemeralPorts' = usedEphemeralPorts
    BY <1>4 DEF SynInListen, SynInSynSent
  <2> QED
    BY <2>3, <2>4, <2>5, PortsStay
<1>5. ASSUME NEW o \in Objects, LeaveSynRcvd(o) \/ ReturnToListen(o) \/ SendInListen(o)
      PROVE PortsInv'
  <2>1. \A x \in Objects : Exists(x)' <=> Exists(x)
    BY <1>5 DEF LeaveSynRcvd, ReturnToListen, SendInListen, Goto, MainTypeOK, Exists
  <2>2. pair' = pair /\ usedEphemeralPorts' = usedEphemeralPorts
    BY <1>5 DEF LeaveSynRcvd, ReturnToListen, SendInListen, Goto
  <2> QED
    BY <2>1, <2>2, PortsStay
<1>6. ASSUME NEW o \in Objects, NEW seg \in SockPairs, ForkFails(o, seg) PROVE PortsInv'
  BY <1>6, PortsStay, ZenonT(30) DEF ForkFails, objectVars, Exists
<1>7. ASSUME NEW o \in Objects, OpenFails(o) \/ SendInListenFails(o) PROVE PortsInv'
  BY <1>7, PortsStay, ZenonT(30) DEF OpenFails, SendInListenFails, objectVars, Exists
<1> QED
  BY <1>1, <1>2, <1>3, <1>4, <1>5, <1>6, <1>7, ForkPorts, RemovePorts, SMTT(30)
     DEF MainNext, SegmentArrives

\* usedEphemeralPorts counts the connections on every port of the range, for any
\* number of connections, forks and removals: a port is given out again only when
\* the last connection on it is gone.
THEOREM PortsAreCounted == MainSpec => []PortsCounted
<1>1. MainInit => PortsInv
  <2> SUFFICES ASSUME MainInit PROVE PortsInv
    OBVIOUS
  <2>1. \A p : OnPort(p) = {}
    BY DEF MainInit, OnPort, Exists
  <2> QED
    BY <2>1, FS_EmptySet DEF MainInit, PortsInv
<1>2. MainTypeOK /\ SockPairsAgree /\ PortsInv /\ [MainNext]_mainVars => PortsInv'
  BY NextPorts
<1>3. PortsInv => PortsCounted
  BY DEF PortsInv, PortsCounted, OnPort
<1> QED
  BY <1>1, <1>2, <1>3, MainTypeCorrect, ConnMapConsistent, PTL DEF MainSpec
=============================================================================
