----------------------------- MODULE TCPRcvQueue -----------------------------
(***************************************************************************)
(* TCPVirtualDataRcvQueue: the octets that arrived and were not yet passed *)
(* up, as a list of regions [begin, end), and the next octet expected.     *)
(* A queue is a record with the fields rcv_nxt and regionList.             *)
(***************************************************************************)
EXTENDS TCPSeq, Sequences

Region == [begin : SeqNo, end : SeqNo]

RcvQueue == [rcv_nxt : SeqNo, regionList : Seq(Region)]

\* init() sets rcv_nxt only: the region list is not cleared.
rcvInit(q, startSeq) == [q EXCEPT !.rcv_nxt = startSeq]

(***************************************************************************)
(* merge().  The two loops are given by the positions at which they stop:  *)
(* the first skips the regions that end before the segment begins, up to   *)
(* i; the second absorbs, into the region i it has extended, the next      *)
(* regions, up to last, as long as they begin at or before the end reached *)
(* so far, which is the end of the segment or of a region absorbed before. *)
(***************************************************************************)
\* Mutant: always the end of the segment.
SecondOf(a, b) == b

LaterOf(a, b) == IF seqLess(a, b) THEN b ELSE a

EarlierOf(a, b) == IF seqLess(a, b) THEN a ELSE b

\* Mutant: a region that touches the segment is skipped as well.
fallsBeforeOrTouches(region, seq) == seqLE(region.end, seq)

fallsBefore(region, seq) == seqLess(region.end, seq)

\* Where a loop over positions stops: at the first one of S.
firstOf(S) == CHOOSE k \in S : \A m \in S : k <= m

merge(list, segmentBegin, segmentEnd) ==
  LET n          == Len(list)
      i          == firstOf({k \in 1 .. n + 1 : k <= n => ~ fallsBefore(list[k], segmentBegin)})
      inReach(m) == \/ seqGE(segmentEnd, list[m].begin)
                    \/ \E p \in i .. m - 1 : seqGE(list[p].end, list[m].begin)
      last       == IF seqLess(list[i].end, segmentEnd)
                    THEN firstOf({k \in i .. n : k < n => ~ inReach(k + 1)})
                    ELSE i
  IN IF i = n + 1 \/ seqLess(segmentEnd, list[i].begin)
     THEN SubSeq(list, 1, i - 1)
            \o <<[begin |-> segmentBegin, end |-> segmentEnd]>>
            \o SubSeq(list, i, n)
     ELSE SubSeq(list, 1, i - 1)
            \o <<[begin |-> EarlierOf(segmentBegin, list[i].begin),
                  end   |-> LaterOf(list[last].end, segmentEnd)]>>
            \o SubSeq(list, last + 1, n)

\* Mutant: rcv_nxt advances to the end of the segment, not of the region.
insertAndAdvanceOverSegment(q, begin, len) ==
  [rcv_nxt    |-> IF q.rcv_nxt = begin THEN SeqAdd(begin, len) ELSE q.rcv_nxt,
   regionList |-> merge(q.regionList, begin, SeqAdd(begin, len))]

insertBytesFromSegment(q, begin, len) ==
  LET list == merge(q.regionList, begin, SeqAdd(begin, len))
  IN [rcv_nxt    |-> IF seqGE(q.rcv_nxt, list[1].begin) THEN list[1].end ELSE q.rcv_nxt,
      regionList |-> list]

(***************************************************************************)
(* extractTo(seq): the number of octets one call takes out of the first    *)
(* region, and the queue it leaves.                                        *)
(***************************************************************************)
nothingToExtract(q, seq) == q.regionList = <<>> \/ seqLE(seq, q.regionList[1].begin)

extractedOctets(q, seq) ==
  IF nothingToExtract(q, seq) THEN 0
  ELSE SeqDiff(EarlierOf(seq, q.regionList[1].end), q.regionList[1].begin)

extractTo(q, seq) ==
  IF nothingToExtract(q, seq) THEN q
  ELSE IF seqLess(seq, q.regionList[1].end)
       THEN [q EXCEPT !.regionList = <<[begin |-> seq, end |-> @[1].end]>> \o Tail(@)]
       ELSE [q EXCEPT !.regionList = Tail(@)]

\* The assertions that extractTo() makes on entry.  The second one compares the
\* plain numbers, without seqLess().
extractAssertions(q, seq) ==
  /\ seqLE(seq, q.rcv_nxt)
  /\ q.regionList # <<>> => q.regionList[1].begin < q.regionList[1].end
=============================================================================
