--------------------------- MODULE MCTCPRcvBuffer ---------------------------
(***************************************************************************)
(* The receive queue for TLC, and merge() written as the two loops of the  *)
(* source, against which its closed form is compared.                      *)
(***************************************************************************)
EXTENDS TCPRcvBuffer

\* while (i!=regionList.end() && seqLess(i->end,seg.begin)) ++i;
RECURSIVE SkipLoop(_, _, _)
SkipLoop(list, i, seg) ==
  IF i <= Len(list) /\ seqLess(list[i].end, seg.begin) THEN SkipLoop(list, i + 1, seg) ELSE i

\* while (j!=regionList.end() && seqGE(i->end,j->begin)) { ...; erase(j); }
RECURSIVE AbsorbLoop(_, _)
AbsorbLoop(list, i) ==
  IF i + 1 > Len(list) \/ ~ seqGE(list[i].end, list[i + 1].begin) THEN list
  ELSE AbsorbLoop(SubSeq(list, 1, i - 1)
                    \o <<[list[i] EXCEPT !.end = LaterOf(@, list[i + 1].end)]>>
                    \o SubSeq(list, i + 2, Len(list)), i)

MergeLoops(list, seg) ==
  LET i == SkipLoop(list, 1, seg)
      before(k) == SubSeq(list, 1, k - 1) \o <<seg>> \o SubSeq(list, k, Len(list))
      a == [list EXCEPT ![i].begin = EarlierOf(seg.begin, @)]
  IN IF i = Len(list) + 1 \/ seqLess(seg.end, list[i].begin) THEN before(i)
     ELSE IF seqLess(list[i].end, seg.end) THEN AbsorbLoop([a EXCEPT ![i].end = seg.end], i)
     ELSE a

\* On every list that is reached and every segment, in the window or not, the
\* closed form of merge() is what the loops compute.
MergeIsLoops ==
  \A begin \in SeqNo, len \in 1 .. Window :
    merge(queue.regionList, begin, SeqAdd(begin, len))
      = MergeLoops(queue.regionList, [begin |-> begin, end |-> SeqAdd(begin, len)])
=============================================================================
