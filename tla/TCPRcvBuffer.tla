---------------------------- MODULE TCPRcvBuffer ----------------------------
(***************************************************************************)
(* The receive queue on its own, as a connection drives it: segments that  *)
(* lie within the window arrive in any order, whole or overlapping, and    *)
(* what is in sequence is passed up at once.  The first octet may have any *)
(* sequence number, so that the regions wrap around; the assertions of     *)
(* extractTo() are left to TCPConnection.tla.                              *)
(***************************************************************************)
EXTENDS TCPRcvQueue

CONSTANT Window   \* rcv_wnd

ASSUME WindowAssumption == Window \in Nat \ {0} /\ 2 * Window < SeqMod

VARIABLES queue,   \* the TCPVirtualDataRcvQueue
          held,    \* the octets that arrived and were not passed up
          passed   \* the octets of the last call that were passed up

bufferVars == <<queue, held, passed>>

BufferInit ==
  /\ queue \in {[rcv_nxt |-> n, regionList |-> <<>>] : n \in SeqNo}
  /\ held = {}
  /\ passed = 0

Octets(begin, end) == {SeqAdd(begin, k) : k \in 0 .. SeqDiff(end, begin) - 1}

\* TCPConnectionRcvSegment.cc: insert the text of an acceptable segment, and
\* forward what has come into sequence.
Arrive(begin, len) ==
  LET inserted == insertBytesFromSegment(queue, begin, len)
      advanced == inserted.rcv_nxt # queue.rcv_nxt
  IN /\ seqGE(begin, queue.rcv_nxt)
     /\ seqLE(SeqAdd(begin, len), SeqAdd(queue.rcv_nxt, Window))
     /\ queue' = IF advanced THEN extractTo(inserted, inserted.rcv_nxt) ELSE inserted
     /\ passed' = IF advanced THEN extractedOctets(inserted, inserted.rcv_nxt) ELSE 0
     /\ held' = (held \cup Octets(begin, SeqAdd(begin, len)))
                  \ Octets(queue.rcv_nxt, inserted.rcv_nxt)

BufferNext == \E begin \in SeqNo, len \in 1 .. Window : Arrive(begin, len)

BufferSpec == BufferInit /\ [][BufferNext]_bufferVars
----
\* The region list holds the octets that are held back, no more and no fewer.
RegionsHoldOctets ==
  held = UNION {Octets(queue.regionList[k].begin, queue.regionList[k].end) :
                  k \in 1 .. Len(queue.regionList)}

\* merge() keeps the regions in increasing order and never lets two of them
\* touch, and none of them is empty or begins where data is awaited.
RegionsSeparated ==
  LET list == queue.regionList
      offset(seq) == SeqDiff(seq, queue.rcv_nxt)
  IN \A k \in 1 .. Len(list) :
       /\ offset(list[k].begin) < offset(list[k].end)
       /\ offset(list[k].begin) > IF k = 1 THEN 0 ELSE offset(list[k - 1].end)

\* rcv_nxt advances by the octets passed up, over every octet that is held and
\* up to the first one that is missing.
PassedUpInSequence ==
  [][/\ passed' = SeqDiff(queue'.rcv_nxt, queue.rcv_nxt)
     /\ queue'.rcv_nxt \notin held']_bufferVars
=============================================================================
