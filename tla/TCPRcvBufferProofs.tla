------------------------- MODULE TCPRcvBufferProofs -------------------------
EXTENDS TCPRcvBuffer, WellFoundedInduction, TLAPS
(***************************************************************************)
(* Proofs about the receive queue (TCPVirtualDataRcvQueue), for every size *)
(* of the number space and every window below half of it.  Sequence        *)
(* numbers are turned into distances from rcv_nxt, which do not wrap       *)
(* inside the window; the region list is then an ordered list of           *)
(* intervals of numbers, and merge() replaces a run of them by one.        *)
(***************************************************************************)

(***************************************************************************)
(* Sequence numbers.                                                       *)
(***************************************************************************)
\* A remainder is determined by its range.
LEMMA Remainder ==
  ASSUME NEW x \in Int
  PROVE  /\ 0 <= x /\ x < SeqMod => x % SeqMod = x
         /\ SeqMod <= x /\ x < 2 * SeqMod => x % SeqMod = x - SeqMod
         /\ - SeqMod <= x /\ x < 0 => x % SeqMod = x + SeqMod
BY SeqModAssumption

\* Half of the number space.
LEMMA Half == /\ SeqMod \div 2 \in Nat /\ 2 * (SeqMod \div 2) = SeqMod
              /\ Window < SeqMod \div 2
BY SeqModAssumption, WindowAssumption

\* Sums and differences without the remainder.
LEMMA SumAndDifference ==
  ASSUME NEW a \in SeqNo, NEW b \in SeqNo, NEW n \in 0 .. SeqMod - 1
  PROVE  /\ SeqAdd(a, n) = IF a + n < SeqMod THEN a + n ELSE a + n - SeqMod
         /\ SeqDiff(b, a) = IF a <= b THEN b - a ELSE b - a + SeqMod
         /\ SeqAdd(a, n) \in SeqNo /\ SeqDiff(b, a) \in SeqNo
<1>1. a \in Int /\ b \in Int /\ n \in Int /\ SeqMod \in Nat
  BY SeqModAssumption DEF SeqNo
<1>2. SeqAdd(a, n) = IF a + n < SeqMod THEN a + n ELSE a + n - SeqMod
  <2>1. a + n \in Int /\ 0 <= a + n /\ a + n < 2 * SeqMod
    BY <1>1 DEF SeqNo
  <2> QED
    BY <1>1, <2>1, Remainder DEF SeqAdd
<1>3. SeqDiff(b, a) = IF a <= b THEN b - a ELSE b - a + SeqMod
  <2>1. b - a \in Int /\ - SeqMod <= b - a /\ b - a < SeqMod
    BY <1>1 DEF SeqNo
  <2> QED
    BY <1>1, <2>1, Remainder DEF SeqDiff
<1> QED
  BY <1>1, <1>2, <1>3 DEF SeqNo

\* How far x is ahead of r, and that it is so by no more than the window.
InWindow(x, r) == x \in SeqNo /\ SeqDiff(x, r) <= Window

\* Within a window the comparisons of sequence numbers are those of the
\* distances from its start.
LEMMA WindowOrder ==
  ASSUME NEW r \in SeqNo, NEW a, NEW b, InWindow(a, r), InWindow(b, r)
  PROVE  /\ SeqDiff(a, r) \in Nat /\ SeqDiff(b, r) \in Nat
         /\ seqLess(a, b) <=> SeqDiff(a, r) < SeqDiff(b, r)
         /\ seqLE(a, b) <=> SeqDiff(a, r) <= SeqDiff(b, r)
         /\ seqGE(a, b) <=> SeqDiff(a, r) >= SeqDiff(b, r)
         /\ SeqDiff(a, r) <= SeqDiff(b, r)
               => SeqDiff(b, a) = SeqDiff(b, r) - SeqDiff(a, r)
         /\ SeqDiff(a, r) = SeqDiff(b, r) => a = b
<1>1. /\ SeqDiff(a, r) = IF r <= a THEN a - r ELSE a - r + SeqMod
      /\ SeqDiff(b, r) = IF r <= b THEN b - r ELSE b - r + SeqMod
      /\ SeqDiff(b, a) = IF a <= b THEN b - a ELSE b - a + SeqMod
      /\ SeqDiff(a, b) = IF b <= a THEN a - b ELSE a - b + SeqMod
  BY SumAndDifference, SeqModAssumption DEF InWindow, SeqNo
<1>2. /\ a \in Int /\ b \in Int /\ r \in Int /\ SeqMod \in Nat /\ Window \in Nat
      /\ 0 <= a /\ a < SeqMod /\ 0 <= b /\ b < SeqMod /\ 0 <= r /\ r < SeqMod
      /\ SeqDiff(a, r) <= Window /\ SeqDiff(b, r) <= Window
  BY SeqModAssumption, WindowAssumption DEF InWindow, SeqNo
<1> DEFINE da == SeqDiff(a, r)
           db == SeqDiff(b, r)
           ab == SeqDiff(a, b)
           ba == SeqDiff(b, a)
           half == SeqMod \div 2
<1>3. half \in Nat /\ 2 * half = SeqMod /\ Window < half
  BY Half
<1>4. /\ seqLess(a, b) <=> a # b /\ ba < half
      /\ seqLE(a, b) <=> ba < half
      /\ seqGE(a, b) <=> ab < half
  BY DEF seqLess, seqLE, seqGE
<1> HIDE DEF da, db, ab, ba, half
<1>5. /\ da = IF r <= a THEN a - r ELSE a - r + SeqMod
      /\ db = IF r <= b THEN b - r ELSE b - r + SeqMod
      /\ ba = IF a <= b THEN b - a ELSE b - a + SeqMod
      /\ ab = IF b <= a THEN a - b ELSE a - b + SeqMod
      /\ da <= Window /\ db <= Window
  BY <1>1, <1>2 DEF da, db, ab, ba
<1>6. /\ da \in Nat /\ db \in Nat
      /\ a # b /\ ba < half <=> da < db
      /\ ba < half <=> da <= db
      /\ ab < half <=> da >= db
      /\ da <= db => ba = db - da
      /\ da = db => a = b
  BY <1>2, <1>3, <1>5
<1> QED
  BY <1>4, <1>6 DEF da, db, ab, ba

(***************************************************************************)
(* The lists of regions.                                                   *)
(***************************************************************************)
\* Where the region k of a list begins and ends, counted from r.
From(list, r, k) == SeqDiff(list[k].begin, r)

To(list, r, k) == SeqDiff(list[k].end, r)

\* The regions lie within the window from r, none of them empty, one behind the
\* other and apart.
Ordered(list, r) ==
  /\ list \in Seq(Region)
  /\ \A k \in 1 .. Len(list) : /\ InWindow(list[k].begin, r)
                               /\ InWindow(list[k].end, r)
                               /\ From(list, r, k) < To(list, r, k)
  /\ \A j, k \in 1 .. Len(list) : j < k => To(list, r, j) < From(list, r, k)

\* The octet at the distance t from r lies in a region of the list.
Covers(list, r, t) ==
  \E k \in 1 .. Len(list) : From(list, r, k) <= t /\ t < To(list, r, k)

\* A set of numbers has a least one.
LEMMA LeastNumber ==
    ASSUME NEW T, T \subseteq Nat, T # {}
    PROVE  \E x \in T : \A y \in T : x <= y
<1>0. OpToRel(<, Nat) = {ss \in Nat \X Nat : ss[1] < ss[2]}
    BY Zenon DEF OpToRel
<1>1. PICK x \in T : \A y \in T : ~ (<<y, x>> \in {ss \in Nat \X Nat : ss[1] < ss[2]})
    BY ZenonT(60), <1>0, NatLessThanWellFounded, WFMin
<1>2. ASSUME NEW y \in T PROVE x <= y
    <2>1. x \in Nat /\ y \in Nat
        OBVIOUS
    <2>2. ~ (y < x)
        <3>1. SUFFICES ASSUME y < x
                       PROVE  <<y, x>> \in {ss \in Nat \X Nat : ss[1] < ss[2]}
            BY <1>1
        <3> QED BY <2>1, <3>1
    <2> QED BY <2>1, <2>2
<1> QED BY <1>2

\* A loop over positions stops at one of those where it may, the first of them.
LEMMA Stops ==
  ASSUME NEW a \in Nat, NEW n \in Nat, NEW S \in SUBSET (a .. n), n \in S
  PROVE  /\ firstOf(S) \in S /\ firstOf(S) \in Nat /\ a <= firstOf(S) /\ firstOf(S) <= n
         /\ \A m \in a .. firstOf(S) - 1 : m \notin S
<1>1. S \subseteq Nat /\ S # {} /\ \A k \in S : k \in Nat /\ a <= k /\ k <= n
  OBVIOUS
<1>2. \E k \in S : \A m \in S : k <= m
  BY Zenon, <1>1, LeastNumber
<1>3. firstOf(S) \in S /\ \A m \in S : firstOf(S) <= m
  BY Zenon, <1>2 DEF firstOf
<1>4. firstOf(S) \in Nat /\ a <= firstOf(S) /\ firstOf(S) <= n
  BY Zenon, <1>1, <1>3
<1>5. \A m \in a .. firstOf(S) - 1 : m \notin S
  <2> SUFFICES ASSUME NEW m \in a .. firstOf(S) - 1 PROVE ~ (firstOf(S) <= m)
    BY <1>3
  <2> QED BY <1>4
<1> QED BY <1>3, <1>4, <1>5

\* The list with a region in the place of those from i up to last.
Replaced(list, i, last, R) ==
  SubSeq(list, 1, i - 1) \o <<R>> \o SubSeq(list, last + 1, Len(list))

\* The regions of such a list are those before i, the new one, and those behind
\* last.
LEMMA Splice ==
  ASSUME NEW list \in Seq(Region), NEW R \in Region, NEW i \in Nat, NEW last \in Nat,
         1 <= i, i <= last + 1, last <= Len(list)
  PROVE  LET new == Replaced(list, i, last, R)
         IN /\ new \in Seq(Region) /\ Len(new) = i + (Len(list) - last)
            /\ \A k \in 1 .. i - 1 : new[k] = list[k]
            /\ new[i] = R
            /\ \A k \in i + 1 .. Len(new) : new[k] = list[k + last - i]
<1> DEFINE p == SubSeq(list, 1, i - 1)
           s == SubSeq(list, last + 1, Len(list))
           pr == p \o <<R>>
<1>1. p \in Seq(Region) /\ Len(p) = i - 1 /\ \A k \in 1 .. i - 1 : p[k] = list[k]
  OBVIOUS
<1>2. /\ s \in Seq(Region) /\ Len(s) = Len(list) - last
      /\ \A k \in 1 .. Len(list) - last : s[k] = list[k + last]
  OBVIOUS
<1> HIDE DEF p, s
<1>3. /\ pr \in Seq(Region) /\ Len(pr) = i /\ pr[i] = R
      /\ \A k \in 1 .. i - 1 : pr[k] = list[k]
  BY <1>1
<1> HIDE DEF pr
<1>4. /\ pr \o s \in Seq(Region) /\ Len(pr \o s) = i + (Len(list) - last)
      /\ \A k \in 1 .. i : (pr \o s)[k] = pr[k]
      /\ \A k \in i + 1 .. Len(pr \o s) : (pr \o s)[k] = s[k - i]
  <2>1. /\ Len(list) \in Nat /\ Len(pr) \in Nat /\ Len(s) \in Nat
        /\ pr \in Seq(Region) /\ s \in Seq(Region)
    BY <1>2, <1>3
  <2>2. pr \o s \in Seq(Region) /\ Len(pr \o s) = Len(pr) + Len(s)
    BY <2>1
  <2>3. \A k \in 1 .. Len(pr) + Len(s) :
           (pr \o s)[k] = IF k <= Len(pr) THEN pr[k] ELSE s[k - Len(pr)]
    BY <1>2, <1>3
  <2>4. Len(pr) = i /\ Len(s) = Len(list) - last
    BY <1>2, <1>3
  <2>5. \A k \in 1 .. i : (pr \o s)[k] = pr[k]
    BY <2>1, <2>3, <2>4
  <2>6. \A k \in i + 1 .. Len(pr \o s) : (pr \o s)[k] = s[k - i]
    BY <2>1, <2>2, <2>3, <2>4
  <2> QED BY <2>2, <2>4, <2>5, <2>6
<1>5. \A k \in i + 1 .. Len(pr \o s) : (pr \o s)[k] = list[k + last - i]
  <2> SUFFICES ASSUME NEW k \in i + 1 .. Len(pr \o s)
               PROVE  (pr \o s)[k] = list[k + last - i]
    OBVIOUS
  <2>1. k - i \in 1 .. Len(list) - last /\ (k - i) + last = k + last - i
    BY <1>4
  <2> QED BY Zenon, <1>2, <1>4, <2>1
<1> DEFINE new == pr \o s
<1>6. /\ new \in Seq(Region) /\ Len(new) = i + (Len(list) - last)
      /\ \A k \in 1 .. i - 1 : new[k] = list[k]
      /\ new[i] = R
      /\ \A k \in i + 1 .. Len(new) : new[k] = list[k + last - i]
  BY <1>3, <1>4, <1>5
<1>7. new = Replaced(list, i, last, R)
  BY DEF pr, p, s, Replaced
<1> HIDE DEF new
<1> QED
  BY <1>6, <1>7

\* The octet at the distance t from r lies in the region k of the list.
Within(list, r, k, t) == From(list, r, k) <= t /\ t < To(list, r, k)

\* Distances are numbers.
LEMMA Distance ==
  ASSUME NEW r \in SeqNo, NEW x, InWindow(x, r)
  PROVE  SeqDiff(x, r) \in Nat /\ SeqDiff(x, r) <= Window
<1>1. 0 \in 0 .. SeqMod - 1
  BY SeqModAssumption
<1> QED
  BY <1>1, SumAndDifference, SeqModAssumption DEF InWindow, SeqNo

\* What a region put in the place of others makes of a list: it is in order if
\* the regions before and behind lie apart from it, and covers what they cover.
LEMMA Spliced ==
  ASSUME NEW r \in SeqNo, NEW list, Ordered(list, r), NEW R \in Region,
         NEW i \in Nat, NEW last \in Nat, 1 <= i, i <= last + 1, last <= Len(list),
         InWindow(R.begin, r), InWindow(R.end, r),
         SeqDiff(R.begin, r) < SeqDiff(R.end, r),
         \A m \in 1 .. i - 1 : To(list, r, m) < SeqDiff(R.begin, r),
         \A m \in last + 1 .. Len(list) : SeqDiff(R.end, r) < From(list, r, m)
  PROVE  LET new == Replaced(list, i, last, R)
         IN /\ Ordered(new, r) /\ Len(new) >= 1
            /\ \A t : Covers(new, r, t)
                        <=> \/ SeqDiff(R.begin, r) <= t /\ t < SeqDiff(R.end, r)
                            \/ \E k \in 1 .. i - 1 : Within(list, r, k, t)
                            \/ \E k \in last + 1 .. Len(list) : Within(list, r, k, t)
<1> DEFINE new == Replaced(list, i, last, R)
           n == Len(list)
           b == SeqDiff(R.begin, r)
           e == SeqDiff(R.end, r)
           at(k) == IF k < i THEN k ELSE k + last - i
<1>1. list \in Seq(Region) /\ n \in Nat
  BY DEF Ordered
<1>2. /\ new \in Seq(Region) /\ Len(new) = i + (n - last)
      /\ \A k \in 1 .. i - 1 : new[k] = list[k]
      /\ new[i] = R
      /\ \A k \in i + 1 .. Len(new) : new[k] = list[k + last - i]
  BY <1>1, Splice
<1> HIDE DEF new
<1>3. /\ From(new, r, i) = b /\ To(new, r, i) = e
      /\ \A k \in 1 .. Len(new) :
           k # i => /\ at(k) \in (1 .. i - 1) \cup (last + 1 .. n)
                    /\ new[k] = list[at(k)]
  <2>1. From(new, r, i) = b /\ To(new, r, i) = e
    BY <1>2 DEF From, To
  <2>2. ASSUME NEW k \in 1 .. Len(new), k # i
        PROVE  /\ at(k) \in (1 .. i - 1) \cup (last + 1 .. n)
               /\ new[k] = list[at(k)]
    <3>1. CASE k < i
      <4>1. k \in 1 .. i - 1 /\ at(k) = k
        BY <3>1
      <4> QED BY <1>2, <4>1
    <3>2. CASE ~ (k < i)
      <4>1. k \in i + 1 .. Len(new) /\ at(k) = k + last - i
        BY <1>1, <1>2, <2>2, <3>2
      <4>2. k + last - i \in last + 1 .. n
        BY <1>1, <1>2, <4>1
      <4> QED BY <1>2, <4>1, <4>2
    <3> QED BY <3>1, <3>2
  <2> QED BY <2>1, <2>2
<1>4. \A k \in 1 .. Len(new) : k # i => /\ at(k) \in 1 .. n
                                        /\ From(new, r, k) = From(list, r, at(k))
                                        /\ To(new, r, k) = To(list, r, at(k))
  BY <1>1, <1>3 DEF From, To
<1>5. \A k \in 1 .. Len(new) : /\ InWindow(new[k].begin, r) /\ InWindow(new[k].end, r)
                               /\ From(new, r, k) < To(new, r, k)
  BY Zenon, <1>2, <1>3, <1>4 DEF Ordered
<1>6. /\ b \in Nat /\ e \in Nat /\ b < e
      /\ \A k \in 1 .. n : From(list, r, k) \in Nat /\ To(list, r, k) \in Nat
  BY Distance DEF Ordered, From, To
<1> HIDE DEF b, e
<1>7. ASSUME NEW j \in 1 .. Len(new), NEW k \in 1 .. Len(new), j < k
      PROVE  To(new, r, j) < From(new, r, k)
  <2>1. CASE j = i
    <3>1. at(k) \in last + 1 .. n
      BY <1>1, <1>2, <1>7, <2>1
    <3> QED BY <1>3, <1>4, <1>7, <2>1, <3>1 DEF e
  <2>2. CASE k = i
    <3>1. at(j) \in 1 .. i - 1
      BY <1>7, <2>2
    <3> QED BY <1>3, <1>4, <1>7, <2>2, <3>1 DEF b
  <2>3. CASE j # i /\ k # i
    <3>1. at(j) \in 1 .. n /\ at(k) \in 1 .. n /\ at(j) < at(k)
      BY <1>1, <1>2, <1>4, <1>7, <2>3
    <3> HIDE DEF at
    <3>2. To(list, r, at(j)) < From(list, r, at(k))
      BY <3>1 DEF Ordered
    <3> QED BY <1>4, <2>3, <3>2
  <2> QED BY <2>1, <2>2, <2>3
<1>8. Ordered(new, r)
  BY <1>2, <1>5, <1>7 DEF Ordered
<1>9. ASSUME NEW t, Covers(new, r, t)
      PROVE  \/ b <= t /\ t < e
             \/ \E k \in 1 .. i - 1 : Within(list, r, k, t)
             \/ \E k \in last + 1 .. n : Within(list, r, k, t)
  <2>1. PICK k \in 1 .. Len(new) : From(new, r, k) <= t /\ t < To(new, r, k)
    BY <1>9 DEF Covers
  <2>2. CASE k = i
    BY <1>3, <2>1, <2>2
  <2>3. CASE k # i
    <3>1. at(k) \in (1 .. i - 1) \cup (last + 1 .. n) /\ Within(list, r, at(k), t)
      BY <1>3, <1>4, <2>1, <2>3 DEF Within
    <3> HIDE DEF at
    <3> QED BY <3>1
  <2> QED BY <2>2, <2>3
<1>10. ASSUME NEW t, b <= t /\ t < e
       PROVE  Covers(new, r, t)
  <2>1. i \in 1 .. Len(new)
    BY <1>1, <1>2
  <2> QED BY <1>3, <1>10, <2>1 DEF Covers
<1>11. ASSUME NEW t, NEW k \in 1 .. i - 1, Within(list, r, k, t)
       PROVE  Covers(new, r, t)
  <2>1. k \in 1 .. Len(new) /\ k # i /\ at(k) = k
    BY <1>1, <1>2
  <2> HIDE DEF at
  <2> QED BY <1>4, <1>11, <2>1 DEF Covers, Within
<1>12. ASSUME NEW t, NEW k \in last + 1 .. n, Within(list, r, k, t)
       PROVE  Covers(new, r, t)
  <2>1. k + i - last \in 1 .. Len(new) /\ k + i - last # i /\ at(k + i - last) = k
    BY <1>1, <1>2
  <2> HIDE DEF at
  <2> QED BY <1>4, <1>12, <2>1 DEF Covers, Within
<1>13. Len(new) >= 1
  BY <1>1, <1>2
<1>14. \A t : Covers(new, r, t)
                <=> \/ b <= t /\ t < e
                    \/ \E k \in 1 .. i - 1 : Within(list, r, k, t)
                    \/ \E k \in last + 1 .. n : Within(list, r, k, t)
  BY <1>9, <1>10, <1>11, <1>12
<1> QED
  BY <1>8, <1>13, <1>14 DEF new, b, e

\* merge(): the list stays in order, and covers what it covered and the segment.
LEMMA Merged ==
  ASSUME NEW r \in SeqNo, NEW list, Ordered(list, r), NEW b, NEW e,
         InWindow(b, r), InWindow(e, r), SeqDiff(b, r) < SeqDiff(e, r)
  PROVE  LET new == merge(list, b, e)
         IN /\ Ordered(new, r) /\ Len(new) >= 1
            /\ \A t \in Nat : Covers(new, r, t)
                                <=> \/ Covers(list, r, t)
                                    \/ SeqDiff(b, r) <= t /\ t < SeqDiff(e, r)
<1> DEFINE n        == Len(list)
           ob       == SeqDiff(b, r)
           oe       == SeqDiff(e, r)
           F(k)     == From(list, r, k)
           T(k)     == To(list, r, k)
           stops    == {k \in 1 .. n + 1 : k <= n => ~ fallsBefore(list[k], b)}
           i        == firstOf(stops)
           inReach(m) == \/ seqGE(e, list[m].begin)
                         \/ \E p \in i .. m - 1 : seqGE(list[p].end, list[m].begin)
           ends     == {k \in i .. n : k < n => ~ inReach(k + 1)}
           last     == IF seqLess(list[i].end, e) THEN firstOf(ends) ELSE i
           S        == [begin |-> b, end |-> e]
           R        == [begin |-> EarlierOf(b, list[i].begin),
                        end   |-> LaterOf(list[last].end, e)]
           new      == merge(list, b, e)
<1>1. /\ list \in Seq(Region) /\ n \in Nat
      /\ \A k \in 1 .. n : InWindow(list[k].begin, r) /\ InWindow(list[k].end, r)
  BY DEF Ordered
<1>2. /\ ob \in Nat /\ oe \in Nat /\ ob < oe
      /\ \A k \in 1 .. n : F(k) \in Nat /\ T(k) \in Nat /\ F(k) < T(k)
      /\ \A j, k \in 1 .. n : j < k => T(j) < F(k)
  BY Distance DEF Ordered, From, To
<1>3. \A k \in 1 .. n : /\ fallsBefore(list[k], b) <=> T(k) < ob
                        /\ seqLess(e, list[k].begin) <=> oe < F(k)
                        /\ seqLess(list[k].end, e) <=> T(k) < oe
                        /\ seqLess(b, list[k].begin) <=> ob < F(k)
                        /\ seqGE(e, list[k].begin) <=> F(k) <= oe
  BY <1>1, <1>2, WindowOrder DEF From, To, fallsBefore
<1>4. \A j, k \in 1 .. n : seqGE(list[j].end, list[k].begin) <=> F(k) <= T(j)
  BY <1>1, <1>2, WindowOrder DEF From, To
<1>5. /\ i \in Nat /\ 1 <= i /\ i <= n + 1
      /\ \A m \in 1 .. i - 1 : T(m) < ob
      /\ i <= n => ob <= T(i)
  <2>1. stops \in SUBSET (1 .. n + 1) /\ n + 1 \in stops /\ n + 1 \in Nat /\ 1 \in Nat
    BY <1>1
  <2>2. /\ i \in stops /\ i \in Nat /\ 1 <= i /\ i <= n + 1
        /\ \A m \in 1 .. i - 1 : m \notin stops
    <3> HIDE DEF stops, n
    <3> QED BY Zenon, <2>1, Stops
  <2>3. i <= n => i \in 1 .. n /\ ~ fallsBefore(list[i], b)
    <3> HIDE DEF i
    <3> QED BY <2>2
  <2>4. \A m \in 1 .. i - 1 : m \in 1 .. n /\ fallsBefore(list[m], b)
    <3> HIDE DEF i
    <3> QED BY <1>1, <2>2
  <2> HIDE DEF stops, i, F, T, ob
  <2> QED BY <1>2, <1>3, <2>2, <2>3, <2>4
<1> HIDE DEF i
<1>6. new = IF i = n + 1 \/ seqLess(e, list[i].begin) THEN Replaced(list, i, i - 1, S)
            ELSE Replaced(list, i, last, R)
  <2>1. i = (i - 1) + 1
    BY <1>5
  <2> QED BY Zenon, <2>1 DEF merge, Replaced, i
<1>7. CASE i = n + 1 \/ seqLess(e, list[i].begin)
  <2>1. new = Replaced(list, i, i - 1, S)
    BY <1>6, <1>7
  <2>2. S \in Region /\ S.begin = b /\ S.end = e
    BY DEF Region, InWindow
  <2> HIDE DEF S, new
  <2>3. i - 1 \in Nat /\ i <= (i - 1) + 1 /\ i - 1 <= n
    BY <1>1, <1>5
  <2>4. \A m \in (i - 1) + 1 .. n : oe < F(m)
    <3>1. \A m \in i .. n : i \in 1 .. n /\ (m = i \/ i < m) /\ m \in 1 .. n
      BY <1>1, <1>5
    <3>2. i <= n => oe < F(i)
      BY <1>1, <1>3, <1>5, <1>7
    <3>3. (i - 1) + 1 = i
      BY <1>5
    <3>4. ASSUME NEW m \in i .. n PROVE oe < F(m)
      <4>1. /\ i \in 1 .. n /\ (m = i \/ i < m) /\ m \in 1 .. n
            /\ oe < F(i)
        BY <1>1, <1>5, <3>1, <3>2
      <4> HIDE DEF F, T, oe, ob, n
      <4> QED BY <1>2, <4>1
    <3> HIDE DEF F, oe, n
    <3> QED BY <3>3, <3>4
  <2>5. /\ Ordered(new, r) /\ Len(new) >= 1
        /\ \A t : Covers(new, r, t)
                    <=> \/ ob <= t /\ t < oe
                        \/ \E k \in 1 .. i - 1 : Within(list, r, k, t)
                        \/ \E k \in (i - 1) + 1 .. n : Within(list, r, k, t)
    BY Zenon, <1>2, <1>5, <2>1, <2>2, <2>3, <2>4, Spliced
  <2>6. \A k : k \in 1 .. n <=> k \in 1 .. i - 1 \/ k \in (i - 1) + 1 .. n
    BY <1>1, <1>5
  <2>7. \A t : Covers(list, r, t) <=> \E k \in 1 .. n : Within(list, r, k, t)
    BY DEF Covers, Within
  <2> HIDE DEF ob, oe, n
  <2>8. \A t : Covers(new, r, t) <=> Covers(list, r, t) \/ (ob <= t /\ t < oe)
    BY <2>5, <2>6, <2>7
  <2> QED BY <2>5, <2>8 DEF new, ob, oe
<1>8. CASE ~ (i = n + 1 \/ seqLess(e, list[i].begin))
  <2>1. new = Replaced(list, i, last, R)
    BY <1>6, <1>8
  <2>2. i \in 1 .. n /\ F(i) <= oe /\ ob <= T(i)
    <3>1. i \in 1 .. n
      BY <1>1, <1>5, <1>8
    <3> QED BY <1>2, <1>3, <1>5, <1>8, <3>1
  <2>3. \A m \in i + 1 .. n : inReach(m) <=> F(m) <= oe
    <3> SUFFICES ASSUME NEW m \in i + 1 .. n
                 PROVE  inReach(m) <=> F(m) <= oe
      OBVIOUS
    <3>1. m \in 1 .. n /\ \A p \in i .. m - 1 : p \in 1 .. n /\ p < m
      BY <1>1, <2>2
    <3>2. \A p \in i .. m - 1 : ~ seqGE(list[p].end, list[m].begin)
      <4> HIDE DEF F, T, n
      <4> QED BY <1>2, <1>4, <3>1
    <3> QED BY <1>3, <3>1, <3>2
  <2> HIDE DEF inReach
  <2>4. /\ last \in Nat /\ i <= last /\ last <= n
        /\ oe <= T(i) => last = i
        /\ T(i) < oe => /\ \A m \in i + 1 .. last : F(m) <= oe
                        /\ last < n => oe < F(last + 1)
    <3>1. oe <= T(i) => ~ seqLess(list[i].end, e)
      BY <1>2, <1>3, <2>2
    <3>2. CASE ~ seqLess(list[i].end, e)
      <4>1. last = i /\ ~ (T(i) < oe)
        BY <1>3, <2>2, <3>2
      <4> HIDE DEF last, T, oe, n
      <4> QED BY <1>1, <2>2, <4>1
    <3>3. CASE seqLess(list[i].end, e)
      <4>1. last = firstOf(ends)
        BY <3>3
      <4>2. ends \in SUBSET (i .. n) /\ n \in ends /\ i \in Nat
        BY <1>1, <2>2
      <4>3. /\ last \in ends /\ last \in Nat /\ i <= last /\ last <= n
            /\ \A m \in i .. last - 1 : m \notin ends
        <5> HIDE DEF ends, last, n
        <5> QED BY Zenon, <1>1, <4>1, <4>2, Stops
      <4> HIDE DEF last
      <4>4. \A m \in i + 1 .. last : m \in i + 1 .. n /\ inReach(m)
        <5> SUFFICES ASSUME NEW m \in i + 1 .. last PROVE m \in i + 1 .. n /\ inReach(m)
          OBVIOUS
        <5>1. m - 1 \in i .. last - 1 /\ m - 1 \in i .. n /\ m - 1 < n /\ (m - 1) + 1 = m
          BY <1>1, <2>2, <4>3
        <5>2. inReach((m - 1) + 1)
          BY <4>3, <5>1
        <5> QED BY <1>1, <2>2, <4>3, <5>1, <5>2
      <4>5. last < n => last + 1 \in i + 1 .. n /\ ~ inReach(last + 1)
        BY <1>1, <2>2, <4>3
      <4> HIDE DEF ends, n
      <4>6. last < n => last + 1 \in 1 .. n
        BY <2>2, <4>3, <4>5
      <4> HIDE DEF F, T, oe
      <4>7. last < n => oe < F(last + 1)
        BY <1>2, <2>3, <4>5, <4>6
      <4>8. \A m \in i + 1 .. last : F(m) <= oe
        BY <2>3, <4>4
      <4>9. ~ (oe <= T(i))
        BY <3>1, <3>3
      <4> QED BY <4>3, <4>7, <4>8, <4>9
    <3> QED BY <3>2, <3>3
  <2> HIDE DEF last, new
  <2>5. last \in 1 .. n
    BY <1>1, <2>2, <2>4
  <2> DEFINE rb == SeqDiff(R.begin, r)
             re == SeqDiff(R.end, r)
  <2>6. /\ R.begin = IF ob < F(i) THEN b ELSE list[i].begin
        /\ R.end = IF T(last) < oe THEN e ELSE list[last].end
    BY <1>3, <2>2, <2>5 DEF EarlierOf, LaterOf
  <2>7. /\ R \in Region /\ InWindow(R.begin, r) /\ InWindow(R.end, r)
        /\ rb = IF ob < F(i) THEN ob ELSE F(i)
        /\ re = IF T(last) < oe THEN oe ELSE T(last)
    <3>1. R = [begin |-> R.begin, end |-> R.end]
      OBVIOUS
    <3> HIDE DEF R
    <3>2. InWindow(R.begin, r) /\ InWindow(R.end, r)
      BY <1>1, <2>2, <2>5, <2>6
    <3>3. R \in Region
      BY <3>1, <3>2 DEF InWindow, Region
    <3> QED BY <2>6, <3>2, <3>3 DEF From, To
  <2> HIDE DEF R, rb, re
  <2>8. /\ rb \in Nat /\ re \in Nat /\ rb <= ob /\ rb <= F(i) /\ oe <= re /\ T(last) <= re
        /\ rb < re /\ \A m \in 1 .. i - 1 : T(m) < rb
    <3>1. \A m \in 1 .. i - 1 : m \in 1 .. n /\ m < i
      BY <1>1, <2>2
    <3> HIDE DEF F, T, ob, oe, n
    <3> QED BY <1>2, <1>5, <2>2, <2>5, <2>7, <3>1
  <2>9. \A m \in last + 1 .. n : re < F(m)
    <3> SUFFICES ASSUME NEW m \in last + 1 .. n
                 PROVE  re < F(m)
      OBVIOUS
    <3>1. m \in 1 .. n /\ last < m /\ last < n /\ last + 1 \in 1 .. n
      BY <1>1, <2>5
    <3>2. T(last) < F(m) /\ F(m) \in Nat
      BY <1>2, <2>5, <3>1
    <3>3. T(i) < oe => oe < F(m)
      <4>1. last + 1 = m \/ last + 1 < m
        BY <2>5, <3>1
      <4> HIDE DEF F, T, ob, oe, n
      <4> QED BY <1>2, <2>4, <3>1, <4>1
    <3>4. oe <= T(i) => T(last) >= oe
      BY <2>4
    <3>5. T(i) \in Nat /\ oe \in Nat /\ T(last) \in Nat
      BY <1>2, <2>2, <2>5
    <3>6. re = oe \/ re = T(last)
      BY <2>7
    <3>7. re = oe => T(last) <= oe
      BY <1>2, <2>5, <2>7
    <3> HIDE DEF F, T, ob, oe, n
    <3> QED BY <3>2, <3>3, <3>4, <3>5, <3>6, <3>7
  <2>10. /\ Ordered(new, r) /\ Len(new) >= 1
         /\ \A t : Covers(new, r, t)
                     <=> \/ rb <= t /\ t < re
                         \/ \E k \in 1 .. i - 1 : Within(list, r, k, t)
                         \/ \E k \in last + 1 .. n : Within(list, r, k, t)
    BY SMTT(30), <1>5, <2>1, <2>4, <2>7, <2>8, <2>9, Spliced DEF rb, re
  <2>11. ASSUME NEW t \in Nat, NEW k \in i .. last, Within(list, r, k, t)
         PROVE  rb <= t /\ t < re
    <3>1. k \in 1 .. n /\ (k = i \/ i < k) /\ (k = last \/ k < last)
      BY <2>2, <2>4, <2>5
    <3>2. F(k) <= t /\ t < T(k)
      BY <2>11 DEF Within
    <3> HIDE DEF F, T, ob, oe, n
    <3> QED BY <1>2, <2>2, <2>5, <2>8, <3>1, <3>2
  <2>12. ASSUME NEW t \in Nat, rb <= t /\ t < re
         PROVE  \/ ob <= t /\ t < oe
                \/ Within(list, r, i, t) \/ Within(list, r, last, t)
    <3>1. last = i \/ (T(i) < oe /\ F(last) <= oe)
      <4>1. last = i \/ last \in i + 1 .. last
        BY <2>2, <2>4
      <4> HIDE DEF F, T, ob, oe, n
      <4> QED BY <1>2, <2>2, <2>4, <4>1
    <3>2. \/ ob <= t /\ t < oe
          \/ F(i) <= t /\ t < T(i)
          \/ F(last) <= t /\ t < T(last)
      <4> HIDE DEF F, T, ob, oe, n
      <4> QED BY <1>2, <2>2, <2>5, <2>7, <2>12, <3>1
    <3> QED BY <3>2 DEF Within
  <2>13. /\ \A k \in 1 .. n : k \in 1 .. i - 1 \/ k \in i .. last \/ k \in last + 1 .. n
         /\ \A k : k \in 1 .. i - 1 \/ k \in i .. last \/ k \in last + 1 .. n => k \in 1 .. n
         /\ i \in i .. last /\ last \in i .. last
    BY <1>1, <2>2, <2>4, <2>5
  <2>14. \A t : Covers(list, r, t) <=> \E k \in 1 .. n : Within(list, r, k, t)
    BY DEF Covers, Within
  <2>15. \A t \in Nat : ob <= t /\ t < oe => rb <= t /\ t < re
    BY <1>2, <2>8
  <2> HIDE DEF ob, oe, n
  <2>16. \A t \in Nat : Covers(new, r, t) <=> Covers(list, r, t) \/ (ob <= t /\ t < oe)
    BY <2>10, <2>11, <2>12, <2>13, <2>14, <2>15
  <2> QED BY <2>10, <2>16 DEF new, ob, oe
<1> QED
  BY <1>7, <1>8

\* A distance that is short of the window after the base has moved was not short
\* of the move before it.
LEMMA BelowTheTurn ==
  ASSUME NEW o \in Nat, NEW d \in Nat, NEW u \in Nat, NEW w \in Nat, NEW m \in Nat,
         NEW q, q = (IF d <= o THEN o - d ELSE o - d + m),
         q < u - d, u <= w, w < m
  PROVE  d <= o
OBVIOUS

(***************************************************************************)
(* Octets and segments.                                                    *)
(***************************************************************************)
\* The distance of a number from another start.
LEMMA Shifted ==
  ASSUME NEW r \in SeqNo, NEW s \in SeqNo, NEW x \in SeqNo
  PROVE  /\ SeqDiff(x, r) \in SeqNo /\ SeqDiff(s, r) \in SeqNo /\ SeqDiff(r, r) = 0
         /\ SeqDiff(x, s) = IF SeqDiff(s, r) <= SeqDiff(x, r)
                            THEN SeqDiff(x, r) - SeqDiff(s, r)
                            ELSE SeqDiff(x, r) - SeqDiff(s, r) + SeqMod
<1> DEFINE d(b, a) == IF a <= b THEN b - a ELSE b - a + SeqMod
<1>1. 0 \in 0 .. SeqMod - 1
  BY SeqModAssumption
<1>2. \A a, b \in SeqNo : SeqDiff(b, a) = d(b, a) /\ SeqDiff(b, a) \in SeqNo
  BY <1>1, SumAndDifference
<1>3. /\ SeqDiff(x, r) = d(x, r) /\ SeqDiff(s, r) = d(s, r)
      /\ SeqDiff(r, r) = d(r, r) /\ SeqDiff(x, s) = d(x, s)
  BY <1>2
<1>4. /\ x \in Int /\ r \in Int /\ s \in Int /\ SeqMod \in Nat
      /\ 0 <= x /\ x < SeqMod /\ 0 <= r /\ r < SeqMod /\ 0 <= s /\ s < SeqMod
  BY SeqModAssumption DEF SeqNo
<1>5. d(r, r) = 0 /\ d(x, s) = IF d(s, r) <= d(x, r) THEN d(x, r) - d(s, r)
                               ELSE d(x, r) - d(s, r) + SeqMod
  BY <1>4
<1> HIDE DEF d
<1> QED
  BY <1>2, <1>3, <1>5

\* The distance of the octet k further on.
LEMMA Further ==
  ASSUME NEW r \in SeqNo, NEW b \in SeqNo, NEW k \in Nat, SeqDiff(b, r) + k < SeqMod
  PROVE  SeqAdd(b, k) \in SeqNo /\ SeqDiff(SeqAdd(b, k), r) = SeqDiff(b, r) + k
<1> DEFINE y == SeqAdd(b, k)
<1>1. SeqDiff(b, r) = IF r <= b THEN b - r ELSE b - r + SeqMod
  <2>1. 0 \in 0 .. SeqMod - 1
    BY SeqModAssumption
  <2> QED BY <2>1, SumAndDifference
<1>2. /\ b \in Int /\ r \in Int /\ k \in Int /\ SeqMod \in Nat
      /\ 0 <= b /\ b < SeqMod /\ 0 <= r /\ r < SeqMod /\ 0 <= k
  BY SeqModAssumption DEF SeqNo
<1>3. k \in 0 .. SeqMod - 1
  BY <1>1, <1>2
<1>4. y \in SeqNo /\ y = IF b + k < SeqMod THEN b + k ELSE b + k - SeqMod
  BY <1>3, SumAndDifference
<1> HIDE DEF y
<1>5. SeqDiff(y, r) = IF r <= y THEN y - r ELSE y - r + SeqMod
  BY <1>3, <1>4, SumAndDifference
<1>6. SeqDiff(y, r) = SeqDiff(b, r) + k
  BY <1>1, <1>2, <1>4, <1>5
<1> QED
  BY <1>4, <1>6 DEF y

\* The octets between two numbers of the window are those at the distances
\* between theirs.
LEMMA OctetsWithin ==
  ASSUME NEW r \in SeqNo, NEW b, NEW e, InWindow(b, r), InWindow(e, r),
         SeqDiff(b, r) <= SeqDiff(e, r)
  PROVE  \A x : x \in Octets(b, e)
                  <=> /\ x \in SeqNo
                      /\ SeqDiff(b, r) <= SeqDiff(x, r) /\ SeqDiff(x, r) < SeqDiff(e, r)
<1> DEFINE ob == SeqDiff(b, r)
           oe == SeqDiff(e, r)
<1>1. b \in SeqNo /\ e \in SeqNo
  BY DEF InWindow
<1>2. /\ ob \in Nat /\ oe \in Nat /\ ob <= oe /\ oe <= Window
      /\ Window \in Nat /\ SeqMod \in Nat /\ Window < SeqMod
  BY Distance, WindowAssumption, SeqModAssumption
<1>3. SeqDiff(e, b) = oe - ob
  BY <1>1, Shifted
<1>4. ASSUME NEW x \in Octets(b, e)
      PROVE  x \in SeqNo /\ ob <= SeqDiff(x, r) /\ SeqDiff(x, r) < oe
  <2>1. PICK k \in 0 .. (oe - ob) - 1 : x = SeqAdd(b, k)
    BY <1>3 DEF Octets
  <2>2. k \in Nat /\ ob + k < SeqMod /\ ob + k < oe
    <3> HIDE DEF ob, oe
    <3> QED BY <1>2
  <2>3. x \in SeqNo /\ SeqDiff(x, r) = ob + k
    BY <1>1, <2>1, <2>2, Further
  <2> HIDE DEF ob, oe
  <2> QED BY <1>2, <2>2, <2>3
<1>5. ASSUME NEW x \in SeqNo, ob <= SeqDiff(x, r), SeqDiff(x, r) < oe
      PROVE  x \in Octets(b, e)
  <2> DEFINE k == SeqDiff(x, r) - ob
  <2>1. SeqDiff(x, r) \in Nat
    <3>1. SeqDiff(x, r) \in SeqNo
      BY <1>1, Shifted
    <3> QED BY <3>1, SeqModAssumption DEF SeqNo
  <2>2. /\ k \in Nat /\ k \in 0 .. (oe - ob) - 1 /\ ob + k = SeqDiff(x, r)
        /\ ob + k < SeqMod /\ SeqDiff(x, r) <= Window
    <3> HIDE DEF ob, oe
    <3> QED BY <1>2, <1>5, <2>1
  <2> HIDE DEF k
  <2>3. SeqAdd(b, k) \in SeqNo /\ SeqDiff(SeqAdd(b, k), r) = SeqDiff(x, r)
    BY <1>1, <2>2, Further
  <2>4. SeqAdd(b, k) = x
    BY <2>2, <2>3, WindowOrder DEF InWindow
  <2> QED BY <1>3, <2>2, <2>4 DEF Octets
<1> QED
  BY <1>4, <1>5

\* A segment that passes the tests of the window lies in it.
LEMMA Acceptable ==
  ASSUME NEW r \in SeqNo, NEW b \in SeqNo, NEW len \in 1 .. Window,
         seqGE(b, r), seqLE(SeqAdd(b, len), SeqAdd(r, Window))
  PROVE  /\ InWindow(b, r) /\ InWindow(SeqAdd(b, len), r)
         /\ SeqDiff(b, r) < SeqDiff(SeqAdd(b, len), r)
<1> DEFINE o == SeqDiff(b, r)
           e == SeqAdd(b, len)
           w == SeqAdd(r, Window)
           half == SeqMod \div 2
<1>1. o < half /\ SeqDiff(w, e) < half
  BY DEF seqGE, seqLE
<1>2. half \in Nat /\ 2 * half = SeqMod /\ Window < half
  BY Half
<1>3. o \in Nat /\ len \in Nat /\ 1 <= len /\ len <= Window /\ Window \in Nat
  BY Shifted, WindowAssumption, SeqModAssumption DEF SeqNo
<1> HIDE DEF half
<1>4. e \in SeqNo /\ SeqDiff(e, r) = o + len
  <2>1. o + len < SeqMod
    <3> HIDE DEF o
    <3> QED BY <1>1, <1>2, <1>3
  <2> QED BY <1>3, <2>1, Further
<1>5. w \in SeqNo /\ SeqDiff(w, r) = Window
  <2>1. SeqDiff(r, r) = 0 /\ 0 + Window < SeqMod
    BY <1>2, <1>3, Shifted
  <2>2. SeqDiff(r, r) + Window = Window
    BY <1>3, <2>1
  <2> QED BY <1>3, <2>1, <2>2, Further
<1> HIDE DEF w, e, o
<1>6. SeqDiff(w, e) = IF o + len <= Window THEN Window - (o + len)
                      ELSE Window - (o + len) + SeqMod
  BY <1>4, <1>5, Shifted
<1>7. o + len <= Window
  BY <1>1, <1>2, <1>3, <1>6
<1>8. o <= Window /\ o < o + len
  BY <1>3, <1>7
<1> QED
  BY <1>4, <1>7, <1>8 DEF InWindow, o, e

(***************************************************************************)
(* The queue.  Its regions are in order and apart, counted from the octet   *)
(* awaited; that one is in none of them; and they cover the octets held.    *)
(***************************************************************************)
QueueInv(q, octets) ==
  /\ q.rcv_nxt \in SeqNo
  /\ Ordered(q.regionList, q.rcv_nxt)
  /\ \A k \in 1 .. Len(q.regionList) : From(q.regionList, q.rcv_nxt, k) > 0
  /\ \A x : x \in octets
              <=> x \in SeqNo /\ Covers(q.regionList, q.rcv_nxt, SeqDiff(x, q.rcv_nxt))

BufferInv == QueueInv(queue, held)

\* The octet awaited is not among those held.
LEMMA AwaitedMissing ==
  ASSUME NEW q, NEW octets, QueueInv(q, octets)
  PROVE  q.rcv_nxt \notin octets
<1> DEFINE r == q.rcv_nxt
           list == q.regionList
<1>1. r \in SeqNo /\ SeqDiff(r, r) = 0
  BY Shifted DEF QueueInv
<1>2. \A k \in 1 .. Len(list) : From(list, r, k) \in Nat /\ From(list, r, k) > 0
  BY <1>1, Distance DEF QueueInv, Ordered, From
<1>3. ~ Covers(list, r, 0)
  BY <1>2 DEF Covers
<1> QED
  BY <1>1, <1>3 DEF QueueInv

\* What is left of an ordered list when the first region is passed up, counted
\* from its end.
LEMMA FirstTaken ==
  ASSUME NEW r \in SeqNo, NEW list, Ordered(list, r), Len(list) >= 1
  PROVE  LET s == list[1].end
         IN /\ s \in SeqNo /\ Ordered(Tail(list), s)
            /\ \A k \in 1 .. Len(Tail(list)) : From(Tail(list), s, k) > 0
            /\ \A x \in SeqNo :
                 Covers(Tail(list), s, SeqDiff(x, s))
                   <=> Covers(list, r, SeqDiff(x, r)) /\ To(list, r, 1) <= SeqDiff(x, r)
<1> DEFINE s == list[1].end
           d == To(list, r, 1)
           t == Tail(list)
           n == Len(list)
<1>1. /\ list \in Seq(Region) /\ n \in Nat /\ 1 \in 1 .. n
      /\ \A k \in 1 .. n : InWindow(list[k].begin, r) /\ InWindow(list[k].end, r)
  BY DEF Ordered
<1>2. s \in SeqNo /\ d \in Nat /\ d <= Window /\ d = SeqDiff(s, r)
  BY <1>1, Distance DEF InWindow, To
<1>3. /\ t \in Seq(Region) /\ Len(t) = n - 1
      /\ \A k \in 1 .. n - 1 : t[k] = list[k + 1]
  BY <1>1
<1> HIDE DEF t
<1>4. /\ \A k \in 1 .. n : /\ From(list, r, k) \in Nat /\ To(list, r, k) \in Nat
                           /\ From(list, r, k) < To(list, r, k)
                           /\ To(list, r, k) <= Window
      /\ \A j, k \in 1 .. n : j < k => To(list, r, j) < From(list, r, k)
  BY Zenon, <1>1, Distance DEF Ordered, From, To
<1>5. \A k \in 1 .. n - 1 : /\ k + 1 \in 1 .. n /\ 1 < k + 1
                            /\ d < From(list, r, k + 1) /\ d < To(list, r, k + 1)
  <2> SUFFICES ASSUME NEW k \in 1 .. n - 1
               PROVE  /\ k + 1 \in 1 .. n /\ 1 < k + 1
                      /\ d < From(list, r, k + 1) /\ d < To(list, r, k + 1)
    OBVIOUS
  <2>1. k + 1 \in 1 .. n /\ 1 < k + 1
    BY <1>1
  <2> QED BY SMTT(30), <1>1, <1>4, <2>1
<1> HIDE DEF d, n
<1>6. \A k \in 1 .. n - 1 : /\ From(t, s, k) = From(list, r, k + 1) - d
                            /\ To(t, s, k) = To(list, r, k + 1) - d
  <2> SUFFICES ASSUME NEW k \in 1 .. n - 1
               PROVE  /\ From(t, s, k) = From(list, r, k + 1) - d
                      /\ To(t, s, k) = To(list, r, k + 1) - d
    OBVIOUS
  <2>1. list[k + 1].begin \in SeqNo /\ list[k + 1].end \in SeqNo
    BY <1>1, <1>5 DEF InWindow
  <2>2. /\ d <= SeqDiff(list[k + 1].begin, r) /\ d <= SeqDiff(list[k + 1].end, r)
    BY <1>2, <1>4, <1>5 DEF From, To
  <2> QED BY <1>2, <1>3, <2>1, <2>2, Shifted DEF From, To
<1>7. ASSUME NEW k \in 1 .. n - 1
      PROVE  /\ InWindow(t[k].begin, s) /\ InWindow(t[k].end, s)
             /\ From(t, s, k) < To(t, s, k) /\ 0 < From(t, s, k)
  <2>1. t[k].begin \in SeqNo /\ t[k].end \in SeqNo
    BY <1>1, <1>3, <1>5 DEF InWindow
  <2>2. /\ From(t, s, k) <= Window /\ To(t, s, k) <= Window
        /\ From(t, s, k) < To(t, s, k) /\ 0 < From(t, s, k)
    <3>1. /\ From(list, r, k + 1) \in Nat /\ To(list, r, k + 1) \in Nat
          /\ From(list, r, k + 1) < To(list, r, k + 1)
          /\ To(list, r, k + 1) <= Window /\ d < From(list, r, k + 1)
      BY <1>4, <1>5
    <3> QED BY <1>2, <1>6, <3>1, WindowAssumption
  <2> QED BY <2>1, <2>2 DEF InWindow, From, To
<1>8. ASSUME NEW j \in 1 .. n - 1, NEW k \in 1 .. n - 1, j < k
      PROVE  To(t, s, j) < From(t, s, k)
  <2>1. j + 1 \in 1 .. n /\ k + 1 \in 1 .. n /\ j + 1 < k + 1
    BY <1>5, <1>8
  <2>2. /\ To(list, r, j + 1) < From(list, r, k + 1)
        /\ To(list, r, j + 1) \in Nat /\ From(list, r, k + 1) \in Nat
    BY <1>4, <2>1
  <2> QED BY <1>2, <1>6, <2>2
<1>9. Ordered(t, s)
  BY <1>3, <1>7, <1>8 DEF Ordered
<1>10. ASSUME NEW x \in SeqNo
       PROVE  Covers(t, s, SeqDiff(x, s)) <=> Covers(list, r, SeqDiff(x, r)) /\ d <= SeqDiff(x, r)
  <2> DEFINE o == SeqDiff(x, r)
             p == SeqDiff(x, s)
  <2>1. o \in Nat /\ p = IF d <= o THEN o - d ELSE o - d + SeqMod
    <3>1. o \in SeqNo
      BY <1>2, Shifted
    <3>2. p = IF d <= o THEN o - d ELSE o - d + SeqMod
      BY <1>2, Shifted
    <3> QED BY <3>1, <3>2, SeqModAssumption DEF SeqNo
  <2>2. SeqMod \in Nat /\ Window \in Nat /\ Window < SeqMod
    BY SeqModAssumption, WindowAssumption
  <2> HIDE DEF o, p
  <2>3. ASSUME Covers(t, s, p) PROVE Covers(list, r, o) /\ d <= o
    <3>1. PICK k \in 1 .. n - 1 : From(t, s, k) <= p /\ p < To(t, s, k)
      BY <1>3, <2>3 DEF Covers
    <3>2. /\ From(list, r, k + 1) - d <= p /\ p < To(list, r, k + 1) - d
          /\ From(list, r, k + 1) \in Nat /\ To(list, r, k + 1) \in Nat
          /\ To(list, r, k + 1) <= Window /\ k + 1 \in 1 .. n
      BY <1>4, <1>5, <1>6, <3>1
    <3> DEFINE u == To(list, r, k + 1)
    <3>a. u \in Nat /\ p < u - d /\ u <= Window
      BY <3>2
    <3> HIDE DEF u
    <3>b. d \in Nat
      BY <1>2
    <3>3. d <= o
      BY <2>1, <2>2, <3>a, <3>b, BelowTheTurn
    <3>4. From(list, r, k + 1) <= o /\ o < To(list, r, k + 1)
      BY SMTT(30), <1>2, <2>1, <3>2, <3>3
    <3> QED BY <3>2, <3>3, <3>4 DEF Covers, n
  <2>4. ASSUME Covers(list, r, o), d <= o PROVE Covers(t, s, p)
    <3>1. PICK k \in 1 .. n : From(list, r, k) <= o /\ o < To(list, r, k)
      BY <2>4 DEF Covers, n
    <3>2. k # 1
      BY <1>2, <2>1, <2>4, <3>1 DEF d
    <3>3. k - 1 \in 1 .. n - 1 /\ (k - 1) + 1 = k
      BY <1>1, <3>2
    <3>4. /\ From(t, s, k - 1) = From(list, r, k) - d
          /\ To(t, s, k - 1) = To(list, r, k) - d
          /\ From(list, r, k) \in Nat /\ To(list, r, k) \in Nat
      BY <1>4, <1>6, <3>3
    <3>5. From(t, s, k - 1) <= p /\ p < To(t, s, k - 1)
      BY <1>2, <2>1, <2>4, <3>1, <3>4
    <3> QED BY <1>3, <3>3, <3>5 DEF Covers
  <2> QED BY <2>3, <2>4 DEF o, p
<1> QED
  BY <1>2, <1>3, <1>7, <1>9, <1>10 DEF t, d

\* insertBytesFromSegment() and the extractTo() that follows it: the queue keeps
\* its form, and what is passed up is what lies between the old rcv_nxt and the
\* new one.
LEMMA ArriveOK ==
  ASSUME BufferInv, NEW begin \in SeqNo, NEW len \in 1 .. Window, Arrive(begin, len)
  PROVE  BufferInv' /\ passed' = SeqDiff(queue'.rcv_nxt, queue.rcv_nxt)
<1> DEFINE r == queue.rcv_nxt
           list == queue.regionList
           e == SeqAdd(begin, len)
           new == merge(list, begin, e)
           ins == insertBytesFromSegment(queue, begin, len)
           s == new[1].end
           octets == held \cup Octets(begin, e)
<1>1. r \in SeqNo /\ Ordered(list, r)
  BY DEF BufferInv, QueueInv
<1>2. /\ InWindow(begin, r) /\ InWindow(e, r) /\ SeqDiff(begin, r) < SeqDiff(e, r)
  BY <1>1, Acceptable DEF Arrive
<1>3. SeqDiff(begin, r) \in Nat /\ SeqDiff(e, r) \in Nat
  BY <1>1, <1>2, Distance
<1> HIDE DEF e
<1>4. /\ Ordered(new, r) /\ Len(new) >= 1
      /\ \A t \in Nat : Covers(new, r, t)
                          <=> \/ Covers(list, r, t)
                              \/ SeqDiff(begin, r) <= t /\ t < SeqDiff(e, r)
  BY <1>1, <1>2, Merged
<1>5. /\ ins.regionList = new
      /\ ins.rcv_nxt = IF seqGE(r, new[1].begin) THEN s ELSE r
      /\ ins = [rcv_nxt |-> ins.rcv_nxt, regionList |-> new]
  BY DEF insertBytesFromSegment, e
<1>6. /\ queue' = IF ins.rcv_nxt # r THEN extractTo(ins, ins.rcv_nxt) ELSE ins
      /\ passed' = IF ins.rcv_nxt # r THEN extractedOctets(ins, ins.rcv_nxt) ELSE 0
      /\ held' = octets \ Octets(r, ins.rcv_nxt)
  BY DEF Arrive, e
<1> HIDE DEF ins, new
<1>7. /\ \A k \in 1 .. Len(new) : /\ InWindow(new[k].begin, r) /\ InWindow(new[k].end, r)
                                  /\ From(new, r, k) \in Nat /\ To(new, r, k) \in Nat
                                  /\ From(new, r, k) < To(new, r, k)
      /\ \A j, k \in 1 .. Len(new) : j < k => To(new, r, j) < From(new, r, k)
      /\ Len(new) \in Nat /\ 1 \in 1 .. Len(new) /\ new \in Seq(Region)
  <2>1. new \in Seq(Region)
    BY <1>4 DEF Ordered
  <2>2. Len(new) \in Nat /\ 1 \in 1 .. Len(new)
    BY <1>4, <2>1
  <2>3. \A k \in 1 .. Len(new) : InWindow(new[k].begin, r) /\ InWindow(new[k].end, r)
    BY <1>4 DEF Ordered
  <2>4. \A k \in 1 .. Len(new) : From(new, r, k) \in Nat /\ To(new, r, k) \in Nat
    BY <1>1, <2>3, Distance DEF From, To
  <2> QED BY Zenon, <1>4, <2>1, <2>2, <2>3, <2>4 DEF Ordered
<1>8. InWindow(r, r) /\ SeqDiff(r, r) = 0
  BY <1>1, Shifted, WindowAssumption DEF InWindow
<1>9. \A x \in SeqNo : SeqDiff(x, r) \in Nat
  <2>1. \A x \in SeqNo : SeqDiff(x, r) \in SeqNo
    BY <1>1, Shifted
  <2> QED BY <2>1, SeqModAssumption DEF SeqNo
<1>10. \A x : x \in octets <=> x \in SeqNo /\ Covers(new, r, SeqDiff(x, r))
  <2>1. \A x : x \in held <=> x \in SeqNo /\ Covers(list, r, SeqDiff(x, r))
    BY DEF BufferInv, QueueInv
  <2>2. \A x : x \in Octets(begin, e)
                 <=> /\ x \in SeqNo
                     /\ SeqDiff(begin, r) <= SeqDiff(x, r)
                     /\ SeqDiff(x, r) < SeqDiff(e, r)
    BY <1>1, <1>2, <1>3, OctetsWithin
  <2> QED BY <1>4, <1>9, <2>1, <2>2
<1>11. seqGE(r, new[1].begin) <=> From(new, r, 1) = 0
  <2>1. seqGE(r, new[1].begin) <=> SeqDiff(r, r) >= SeqDiff(new[1].begin, r)
    BY <1>1, <1>7, <1>8, WindowOrder
  <2>2. From(new, r, 1) = SeqDiff(new[1].begin, r) /\ From(new, r, 1) \in Nat
    BY <1>7 DEF From
  <2> QED BY <1>8, <2>1, <2>2
<1>12. CASE From(new, r, 1) # 0
  <2>1. ins.rcv_nxt = r
    BY <1>5, <1>11, <1>12
  <2>2. queue' = ins /\ passed' = 0 /\ held' = octets \ Octets(r, r)
    BY <1>6, <2>1
  <2>3. Octets(r, r) = {}
    <3>1. \A x : x \in Octets(r, r) <=> /\ x \in SeqNo
                                        /\ 0 <= SeqDiff(x, r) /\ SeqDiff(x, r) < 0
      BY <1>1, <1>8, OctetsWithin
    <3> QED BY <1>9, <3>1
  <2>4. \A k \in 1 .. Len(new) : From(new, r, k) > 0
    <3> SUFFICES ASSUME NEW k \in 1 .. Len(new)
                 PROVE  From(new, r, k) > 0
      OBVIOUS
    <3>1. k = 1 \/ (1 < k /\ To(new, r, 1) < From(new, r, k))
      BY <1>7
    <3> QED BY <1>7, <1>12, <3>1
  <2>5. queue'.rcv_nxt = r /\ queue'.regionList = new /\ held' = octets
    BY <1>5, <2>1, <2>2, <2>3
  <2>6. QueueInv(queue', held')
    BY <1>1, <1>4, <1>10, <2>4, <2>5 DEF QueueInv
  <2> QED BY <1>8, <2>2, <2>5, <2>6 DEF BufferInv
<1>13. CASE From(new, r, 1) = 0
  <2>1. ins.rcv_nxt = s
    BY <1>5, <1>11, <1>13
  <2>2. SeqDiff(s, r) = To(new, r, 1) /\ To(new, r, 1) > 0 /\ To(new, r, 1) \in Nat
    BY <1>7, <1>13 DEF To
  <2>3. s # r
    BY <1>8, <2>2
  <2>4. new[1].begin = r
    <3>1. SeqDiff(new[1].begin, r) = SeqDiff(r, r)
      BY <1>8, <1>13 DEF From
    <3> QED BY <1>1, <1>7, <1>8, <3>1, WindowOrder
  <2>5. /\ ~ seqLE(s, new[1].begin) /\ ~ seqLess(s, s)
    <3>1. ~ seqLE(s, r)
      <4>1. InWindow(s, r)
        BY <1>7
      <4>2. seqLE(s, r) <=> SeqDiff(s, r) <= SeqDiff(r, r)
        BY Zenon, <1>1, <1>8, <4>1, WindowOrder
      <4> QED BY <1>8, <2>2, <4>2
    <3> QED BY <2>4, <3>1 DEF seqLess
  <2>6. new # <<>>
    BY <1>4
  <2>7. extractTo(ins, s) = [ins EXCEPT !.regionList = Tail(new)]
    BY <1>5, <2>1, <2>5, <2>6 DEF extractTo, nothingToExtract
  <2>8. extractedOctets(ins, s) = SeqDiff(s, r)
    BY <1>5, <2>1, <2>4, <2>5, <2>6 DEF extractedOctets, nothingToExtract, EarlierOf
  <2>9. queue'.rcv_nxt = s /\ queue'.regionList = Tail(new) /\ passed' = SeqDiff(s, r)
    <3>1. queue' = extractTo(ins, s) /\ passed' = extractedOctets(ins, s)
      BY <1>6, <2>1, <2>3
    <3>2. queue' = [rcv_nxt |-> s, regionList |-> Tail(new)]
      BY Zenon, <1>5, <2>1, <2>7, <3>1
    <3> QED BY <2>8, <3>1, <3>2
  <2>10. /\ s \in SeqNo /\ Ordered(Tail(new), s)
         /\ \A k \in 1 .. Len(Tail(new)) : From(Tail(new), s, k) > 0
         /\ \A x \in SeqNo :
              Covers(Tail(new), s, SeqDiff(x, s))
                <=> Covers(new, r, SeqDiff(x, r)) /\ To(new, r, 1) <= SeqDiff(x, r)
    BY <1>1, <1>4, FirstTaken
  <2>11. \A x : x \in Octets(r, s)
                  <=> /\ x \in SeqNo
                      /\ 0 <= SeqDiff(x, r) /\ SeqDiff(x, r) < To(new, r, 1)
    <3>1. InWindow(s, r) /\ SeqDiff(r, r) <= SeqDiff(s, r)
      BY <1>7, <1>8, <2>2
    <3> QED BY <1>1, <1>8, <2>2, <3>1, OctetsWithin
  <2>12. \A x : x \in held'
                  <=> x \in SeqNo /\ Covers(Tail(new), s, SeqDiff(x, s))
    <3>1. ASSUME NEW x
          PROVE  x \in held' <=> x \in octets /\ x \notin Octets(r, s)
      BY <1>6, <2>1
    <3>2. ASSUME NEW x \in SeqNo
          PROVE  x \notin Octets(r, s) <=> To(new, r, 1) <= SeqDiff(x, r)
      <4>1. SeqDiff(x, r) \in Nat
        BY <1>9
      <4>2. x \in Octets(r, s) <=> 0 <= SeqDiff(x, r) /\ SeqDiff(x, r) < To(new, r, 1)
        BY Zenon, <2>11
      <4> QED BY <2>2, <4>1, <4>2
    <3> QED BY Zenon, <1>10, <2>10, <3>1, <3>2
  <2>13. QueueInv(queue', held')
    BY <2>9, <2>10, <2>12 DEF QueueInv
  <2> QED BY <2>9, <2>13 DEF BufferInv
<1> QED
  BY <1>12, <1>13

\* Every step of the connection keeps the queue in its form.
LEMMA BufferStep ==
  ASSUME BufferInv, BufferNext
  PROVE  /\ BufferInv' /\ passed' = SeqDiff(queue'.rcv_nxt, queue.rcv_nxt)
         /\ queue'.rcv_nxt \notin held'
<1>1. PICK begin \in SeqNo, len \in 1 .. Window : Arrive(begin, len)
  BY DEF BufferNext
<1>2. BufferInv' /\ passed' = SeqDiff(queue'.rcv_nxt, queue.rcv_nxt)
  BY <1>1, ArriveOK
<1>3. queue'.rcv_nxt \notin held'
  BY <1>2, AwaitedMissing DEF BufferInv
<1> QED
  BY <1>2, <1>3

\* The invariant holds in every state of the receive queue, for every size of
\* the number space and of the window.
LEMMA BufferInvariance == BufferSpec => []BufferInv
<1>1. BufferInit => BufferInv
  <2> SUFFICES ASSUME BufferInit
               PROVE  BufferInv
    OBVIOUS
  <2>1. PICK n \in SeqNo : queue = [rcv_nxt |-> n, regionList |-> <<>>]
    BY DEF BufferInit
  <2>2. queue.rcv_nxt \in SeqNo /\ queue.regionList = <<>> /\ held = {}
    BY <2>1 DEF BufferInit
  <2>3. Len(<<>>) = 0 /\ <<>> \in Seq(Region)
    OBVIOUS
  <2> QED BY <2>2, <2>3 DEF BufferInv, QueueInv, Ordered, Covers
<1>2. BufferInv /\ [BufferNext]_bufferVars => BufferInv'
  <2>1. CASE BufferNext
    BY <2>1, BufferStep
  <2>2. CASE UNCHANGED bufferVars
    BY <2>2 DEF bufferVars, BufferInv
  <2> QED BY <2>1, <2>2
<1> QED
  BY <1>1, <1>2, PTL DEF BufferSpec

\* TCPVirtualDataRcvQueue: the region list holds exactly the octets that arrived
\* and were not passed up, whatever the order and the overlaps of the segments.
THEOREM ListHoldsOctets == BufferSpec => []RegionsHoldOctets
<1>1. BufferInv => RegionsHoldOctets
  <2> SUFFICES ASSUME BufferInv
               PROVE  RegionsHoldOctets
    OBVIOUS
  <2> DEFINE r == queue.rcv_nxt
             list == queue.regionList
             all == UNION {Octets(list[k].begin, list[k].end) : k \in 1 .. Len(list)}
  <2>1. r \in SeqNo /\ Ordered(list, r)
    BY DEF BufferInv, QueueInv
  <2>2. ASSUME NEW k \in 1 .. Len(list), NEW x
        PROVE  x \in Octets(list[k].begin, list[k].end)
                 <=> x \in SeqNo /\ Within(list, r, k, SeqDiff(x, r))
    <3>1. /\ InWindow(list[k].begin, r) /\ InWindow(list[k].end, r)
          /\ SeqDiff(list[k].begin, r) < SeqDiff(list[k].end, r)
      BY <2>1 DEF Ordered, From, To
    <3>2. SeqDiff(list[k].begin, r) <= SeqDiff(list[k].end, r)
      BY <2>1, <3>1, Distance
    <3> QED BY <2>1, <3>1, <3>2, OctetsWithin DEF Within, From, To
  <2>3. ASSUME NEW x
        PROVE  x \in held <=> x \in all
    <3>1. x \in held <=> x \in SeqNo /\ \E k \in 1 .. Len(list) :
                                          Within(list, r, k, SeqDiff(x, r))
      BY DEF BufferInv, QueueInv, Covers, Within
    <3> HIDE DEF r, list
    <3>2. x \in all <=> \E k \in 1 .. Len(list) : x \in Octets(list[k].begin, list[k].end)
      OBVIOUS
    <3> HIDE DEF all
    <3> QED BY <2>2, <3>1, <3>2
  <2>4. held = all
    <3> HIDE DEF all
    <3> QED BY <2>3
  <2> QED BY <2>4 DEF RegionsHoldOctets
<1> QED
  BY <1>1, BufferInvariance, PTL

\* merge() keeps the regions in increasing order, never empty and never touching,
\* and none of them begins where data is awaited.
THEOREM ListIsSeparated == BufferSpec => []RegionsSeparated
<1>1. BufferInv => RegionsSeparated
  <2> SUFFICES ASSUME BufferInv
               PROVE  RegionsSeparated
    OBVIOUS
  <2> DEFINE r == queue.rcv_nxt
             list == queue.regionList
  <2>1. /\ Ordered(list, r) /\ Len(list) \in Nat
        /\ \A k \in 1 .. Len(list) : From(list, r, k) > 0
    BY DEF BufferInv, QueueInv, Ordered
  <2>2. ASSUME NEW k \in 1 .. Len(list)
        PROVE  /\ From(list, r, k) < To(list, r, k)
               /\ From(list, r, k) > IF k = 1 THEN 0 ELSE To(list, r, k - 1)
    <3>1. From(list, r, k) < To(list, r, k)
      BY <2>1 DEF Ordered
    <3>2. k # 1 => k - 1 \in 1 .. Len(list) /\ k - 1 < k
      BY <2>1
    <3>3. k # 1 => To(list, r, k - 1) < From(list, r, k)
      BY <2>1, <3>2 DEF Ordered
    <3> QED BY <2>1, <3>1, <3>3
  <2> QED BY <2>2 DEF RegionsSeparated, From, To
<1> QED
  BY <1>1, BufferInvariance, PTL

\* rcv_nxt advances by exactly the octets passed up, and stops in front of an
\* octet that is missing.
THEOREM InSequence == BufferSpec => PassedUpInSequence
<1>1. BufferInv /\ [BufferNext]_bufferVars
        => [/\ passed' = SeqDiff(queue'.rcv_nxt, queue.rcv_nxt)
            /\ queue'.rcv_nxt \notin held']_bufferVars
  BY BufferStep
<1> QED
  BY <1>1, BufferInvariance, PTL DEF BufferSpec, PassedUpInSequence
=============================================================================
