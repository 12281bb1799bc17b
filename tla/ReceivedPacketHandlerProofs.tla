-------------------- MODULE ReceivedPacketHandlerProofs --------------------
(***************************************************************************)
(* The receiving half of a path, proved for every bound: the interval list *)
(* stays sorted with a gap between any two ranges, a due ACK frame is one  *)
(* the peer accepts, and the list implements a set of numbers.  The first  *)
(* part says what receivedPacketHistory does to the numbers of a list, the *)
(* second uses nothing else about it.                                      *)
(***************************************************************************)
EXTENDS ReceivedPacketHandler, FiniteSetTheorems, SequenceTheorems, WellFoundedInduction, TLAPS

\* Ranges are not empty, and any two have a gap between them: RangesWellFormed says it of
\* neighbours only, and that it holds of all would need an induction over the list.
Sorted(r) ==
  /\ \A i \in 1..Len(r) : r[i].Start <= r[i].End
  /\ \A i, j \in 1..Len(r) : i < j => r[i].End + 1 < r[j].Start

-----------------------------------------------------------------------------
(* The list. *)

\* The ranges of a list are intervals of packet numbers.
LEMMA RangeType ==
  ASSUME NEW r \in Seq(Intervals)
  PROVE  /\ Len(r) \in Nat
         /\ \A k \in 1..Len(r) :
              r[k] \in Intervals /\ r[k].Start \in Numbers /\ r[k].End \in Numbers
<1>1. Len(r) \in Nat /\ \A k \in 1..Len(r) : r[k] \in Intervals
  BY LenProperties, ElementOfSeq
<1>2. \A x \in Intervals : x.Start \in Numbers /\ x.End \in Numbers
  BY DEF Intervals
<1> QED BY <1>1, <1>2

\* Packet numbers are integers.
LEMMA NumbersAreIntegers == \A n \in Numbers : n \in Int /\ n >= 1 /\ n <= MaxPacketNumber
BY LimitsAssumption DEF Numbers

\* A number is covered if one of the ranges holds it.
LEMMA CoveredBy ==
  ASSUME NEW r, NEW n
  PROVE  n \in Covered(r) <=> \E k \in 1..Len(r) : n \in r[k].Start..r[k].End
BY DEF Covered

\* A set of positions of a list that is not empty has a largest element.
LEMMA LargestPosition ==
  ASSUME NEW n \in Nat, NEW S \in SUBSET (1..n), S # {}
  PROVE  Max(S) \in S /\ \A x \in S : x <= Max(S)
<1> DEFINE above(x) == {y \in S : y >= x}
           family == {above(x) : x \in S}
<1>1. IsFiniteSet(S)
  <2>1. IsFiniteSet(1..n)
    BY FS_Interval
  <2> QED BY <2>1, FS_Subset
<1>2. FiniteSubsetsOf(S) = SUBSET S
  BY <1>1, FS_FiniteSubsetsOfFinite
<1>3. IsWellFoundedOn(StrictSubsetOrdering(S), SUBSET S)
  BY <1>2, FS_StrictSubsetOrderingWellFounded
<1>4. family \subseteq SUBSET S /\ family # {}
  OBVIOUS
<1>5. PICK T \in family : \A U \in family : ~(<<U, T>> \in StrictSubsetOrdering(S))
  <2> HIDE DEF family
  <2> QED BY <1>3, <1>4, WFMin
<1>6. PICK x \in S : T = above(x)
  BY <1>5
<1>7. \A y \in S : y <= x
  <2> SUFFICES ASSUME NEW y \in S, y > x
               PROVE  FALSE
    BY SMT
  <2>1. \A z \in S : z \in Nat
    OBVIOUS
  <2>2. above(y) \subseteq above(x) /\ x \in above(x) /\ x \notin above(y)
    <3>1. \A z \in above(y) : z \in S /\ z >= x
      BY <2>1
    <3>2. x >= x /\ ~(x >= y)
      BY <2>1
    <3> QED BY <3>1, <3>2
  <2>3. <<above(y), T>> \in StrictSubsetOrdering(S)
    BY <1>6, <2>2 DEF StrictSubsetOrdering
  <2> QED BY <1>5, <2>3
<1>8. \E m \in S : \A y \in S : m >= y
  BY <1>7
<1>9. Max(S) \in S /\ \A y \in S : Max(S) >= y
  BY <1>8 DEF Max
<1> QED BY <1>9, SMT

\* Where the loop of ReceivedPacket stops.
LEMMA ReachedFacts ==
  ASSUME NEW r \in Seq(Intervals), NEW p \in Numbers
  PROVE  /\ Reached(r, p) \in 0..Len(r)
         /\ Reached(r, p) > 0 => r[Reached(r, p)].Start <= p + 1
         /\ \A k \in 1..Len(r) : k > Reached(r, p) => r[k].Start > p + 1
<1> DEFINE at == {i \in 1..Len(r) : r[i].Start <= p + 1}
<1>1. Len(r) \in Nat /\ at \in SUBSET (1..Len(r))
  BY RangeType
<1>2. \A k \in 1..Len(r) : r[k].Start \in Int /\ p \in Int
  BY RangeType, NumbersAreIntegers
<1>3. CASE at = {}
  BY <1>1, <1>2, <1>3 DEF Reached
<1>4. CASE at # {}
  <2>1. Max(at) \in at /\ \A x \in at : x <= Max(at)
    <3> HIDE DEF at
    <3> QED BY <1>1, <1>4, LargestPosition
  <2>2. Reached(r, p) = Max(at)
    BY <1>4 DEF Reached
  <2>3. Reached(r, p) \in 1..Len(r) /\ r[Reached(r, p)].Start <= p + 1
    BY <2>1, <2>2
  <2>4. ASSUME NEW k \in 1..Len(r), k > Reached(r, p)
        PROVE  r[k].Start > p + 1
    <3>1. k \in at => k <= Reached(r, p)
      BY <2>1, <2>2
    <3>2. ~(k <= Reached(r, p))
      BY <2>3, <2>4
    <3> QED BY <1>2, <3>1, <3>2
  <2> QED BY <1>1, <2>3, <2>4
<1> QED BY <1>3, <1>4

\* The list r with x in place of what lies after position a and before position b.
Splice(r, a, b, x) == SubSeq(r, 1, a) \o <<x>> \o SubSeq(r, b, Len(r))

\* What the spliced list holds at each position.
LEMMA SpliceFacts ==
  ASSUME NEW S, NEW r \in Seq(S), NEW x \in S, NEW a \in Int, NEW b \in Int,
         0 <= a, a < b, b <= Len(r) + 1
  PROVE  /\ Splice(r, a, b, x) \in Seq(S)
         /\ Len(Splice(r, a, b, x)) = Len(r) + a + 2 - b
         /\ \A k \in 1..Len(Splice(r, a, b, x)) :
              Splice(r, a, b, x)[k] =
                IF k <= a THEN r[k] ELSE IF k = a + 1 THEN x ELSE r[k - a - 2 + b]
<1> DEFINE front == SubSeq(r, 1, a)
           back == SubSeq(r, b, Len(r))
           front1 == front \o <<x>>
           t == front1 \o back
<1>1. Len(r) \in Nat
  BY LenProperties
<1>2. front \in Seq(S) /\ Len(front) = a /\ \A i \in 1..a : front[i] = r[i]
  <2>1. \A i \in 1..a : r[i] \in S
    BY <1>1
  <2> QED BY <1>1, <2>1, SubSeqProperties
<1>3. /\ back \in Seq(S)
      /\ Len(back) = Len(r) - b + 1
      /\ \A i \in 1..(Len(r) - b + 1) : back[i] = r[b + i - 1]
  <2>1. \A i \in b..Len(r) : r[i] \in S
    BY <1>1
  <2> QED BY <1>1, <2>1, SubSeqProperties
<1>4. <<x>> \in Seq(S) /\ Len(<<x>>) = 1 /\ <<x>>[1] = x
  OBVIOUS
<1> HIDE DEF front, back
<1>5. /\ front1 \in Seq(S)
      /\ Len(front1) = a + 1
      /\ \A k \in 1..(a + 1) : front1[k] = IF k <= a THEN front[k] ELSE x
  BY <1>2, <1>4, ConcatProperties
<1> HIDE DEF front1
<1>6. /\ t \in Seq(S)
      /\ Len(t) = Len(front1) + Len(back)
      /\ \A k \in 1..(Len(front1) + Len(back)) :
           t[k] = IF k <= Len(front1) THEN front1[k] ELSE back[k - Len(front1)]
  BY <1>3, <1>5, ConcatProperties
<1> HIDE DEF t
<1>7. Len(t) = Len(r) + a + 2 - b
  BY <1>1, <1>3, <1>5, <1>6
<1>8. ASSUME NEW k \in 1..Len(t)
      PROVE  t[k] = IF k <= a THEN r[k] ELSE IF k = a + 1 THEN x ELSE r[k - a - 2 + b]
  <2>1. t[k] = IF k <= a + 1 THEN front1[k] ELSE back[k - (a + 1)]
    BY <1>1, <1>3, <1>5, <1>6, <1>7
  <2>2. CASE k <= a + 1
    BY <1>2, <1>5, <2>1, <2>2
  <2>3. CASE k > a + 1
    <3> DEFINE i == k - (a + 1)
    <3>1. i \in 1..(Len(r) - b + 1) /\ b + i - 1 = k - a - 2 + b
      BY <1>1, <1>7, <2>3
    <3>2. t[k] = back[i]
      BY <2>1, <2>3
    <3>3. ~(k <= a) /\ k # a + 1
      BY <2>3
    <3>4. back[i] = r[k - a - 2 + b]
      <4> HIDE DEF i
      <4> QED BY <1>3, <3>1
    <3> QED BY <3>2, <3>3, <3>4
  <2>4. k <= a + 1 \/ k > a + 1
    BY <1>1, <1>7
  <2> QED BY <2>2, <2>3, <2>4
<1>9. t = Splice(r, a, b, x)
  BY DEF t, front1, front, back, Splice
<1> QED BY <1>6, <1>7, <1>8, <1>9

\* A range put between the two parts of a sorted list, with a gap to each, leaves it sorted.
LEMMA SpliceSorted ==
  ASSUME NEW r \in Seq(Intervals), Sorted(r), NEW x \in Intervals, x.Start <= x.End,
         NEW a \in Int, NEW b \in Int, 0 <= a, a < b, b <= Len(r) + 1
  PROVE  /\ \A k \in 1..a : r[k].End + 1 < x.Start
         /\ \A k \in b..Len(r) : x.End + 1 < r[k].Start
         => Splice(r, a, b, x) \in Seq(Intervals) /\ Sorted(Splice(r, a, b, x))
<1> DEFINE t == Splice(r, a, b, x)
<1>1. /\ t \in Seq(Intervals)
      /\ Len(t) = Len(r) + a + 2 - b
      /\ \A k \in 1..Len(t) :
           t[k] = IF k <= a THEN r[k] ELSE IF k = a + 1 THEN x ELSE r[k - a - 2 + b]
  BY SpliceFacts
<1> HIDE DEF t
<1> SUFFICES ASSUME \A k \in 1..a : r[k].End + 1 < x.Start,
                    \A k \in b..Len(r) : x.End + 1 < r[k].Start
             PROVE  t \in Seq(Intervals) /\ Sorted(t)
  BY DEF t
<1>2. Len(r) \in Nat /\ \A k \in 1..Len(r) : r[k].Start \in Int /\ r[k].End \in Int
  BY RangeType, NumbersAreIntegers
<1>3. x.Start \in Int /\ x.End \in Int
  BY NumbersAreIntegers DEF Intervals
<1> DEFINE from(k) == IF k <= a THEN k ELSE k - a - 2 + b
<1>4. ASSUME NEW k \in 1..Len(t)
      PROVE  IF k = a + 1 THEN t[k] = x ELSE from(k) \in 1..Len(r) /\ t[k] = r[from(k)]
  BY <1>1, <1>2
<1>5. ASSUME NEW i \in 1..Len(t)
      PROVE  t[i].Start <= t[i].End
  <2> HIDE DEF from
  <2> QED BY <1>4 DEF Sorted
<1>6. ASSUME NEW i \in 1..Len(t), NEW j \in 1..Len(t), i < j
      PROVE  t[i].End + 1 < t[j].Start
  <2>1. CASE i = a + 1
    <3>1. from(j) \in b..Len(r) /\ t[j] = r[from(j)] /\ t[i] = x
      BY <1>1, <1>2, <1>4, <1>6, <2>1
    <3> HIDE DEF from
    <3> QED BY <3>1
  <2>2. CASE j = a + 1
    <3>1. i \in 1..a /\ i # a + 1 /\ from(i) = i
      BY <1>6, <2>2
    <3>2. t[i] = r[i] /\ t[j] = x
      BY <1>4, <2>2, <3>1
    <3> QED BY <3>1, <3>2
  <2>3. CASE i # a + 1 /\ j # a + 1
    <3>1. from(i) < from(j)
      BY <1>1, <1>2, <1>6, <2>3
    <3> HIDE DEF from
    <3> QED BY <1>4, <2>3, <3>1 DEF Sorted
  <2> QED BY <2>1, <2>2, <2>3
<1> QED BY <1>1, <1>5, <1>6 DEF Sorted

\* The numbers of the spliced list.
LEMMA SpliceCovers ==
  ASSUME NEW r \in Seq(Intervals), NEW x \in Intervals,
         NEW a \in Int, NEW b \in Int, 0 <= a, a < b, b <= Len(r) + 1, NEW n
  PROVE  n \in Covered(Splice(r, a, b, x)) <=>
           \/ \E k \in 1..Len(r) : (k <= a \/ k >= b) /\ n \in r[k].Start..r[k].End
           \/ n \in x.Start..x.End
<1> DEFINE t == Splice(r, a, b, x)
<1>1. /\ t \in Seq(Intervals)
      /\ Len(t) = Len(r) + a + 2 - b
      /\ \A k \in 1..Len(t) :
           t[k] = IF k <= a THEN r[k] ELSE IF k = a + 1 THEN x ELSE r[k - a - 2 + b]
  BY SpliceFacts
<1>2. n \in Covered(t) <=> \E k \in 1..Len(t) : n \in t[k].Start..t[k].End
  BY CoveredBy
<1> HIDE DEF t
<1>3. Len(r) \in Nat
  BY RangeType
<1>4. ASSUME NEW k \in 1..Len(t), n \in t[k].Start..t[k].End, k # a + 1
      PROVE  \E l \in 1..Len(r) : (l <= a \/ l >= b) /\ n \in r[l].Start..r[l].End
  <2>1. CASE k <= a
    <3>1. k \in 1..Len(r) /\ t[k] = r[k]
      BY <1>1, <1>3, <2>1
    <3> QED BY <1>4, <2>1, <3>1
  <2>2. CASE k > a + 1
    <3> DEFINE l == k - a - 2 + b
    <3>1. l \in 1..Len(r) /\ l >= b /\ t[k] = r[l]
      BY <1>1, <1>3, <2>2
    <3> HIDE DEF l
    <3> QED BY <1>4, <3>1
  <2> QED BY <1>1, <1>3, <1>4, <2>1, <2>2
<1>5. ASSUME NEW l \in 1..Len(r), l <= a \/ l >= b, n \in r[l].Start..r[l].End
      PROVE  \E k \in 1..Len(t) : n \in t[k].Start..t[k].End
  <2>1. CASE l <= a
    <3>1. l \in 1..Len(t) /\ t[l] = r[l]
      BY <1>1, <1>3, <2>1
    <3> QED BY <1>5, <3>1
  <2>2. CASE l >= b
    <3> DEFINE k == l + a + 2 - b
    <3>1. k \in 1..Len(t) /\ k > a + 1 /\ k - a - 2 + b = l
      BY <1>1, <1>3, <2>2
    <3> HIDE DEF k
    <3>2. t[k] = r[l]
      BY <1>1, <1>3, <3>1
    <3> QED BY <1>5, <3>1, <3>2
  <2> QED BY <1>5, <2>1, <2>2
<1>6. a + 1 \in 1..Len(t) /\ t[a + 1] = x
  BY <1>1, <1>3
<1>7. n \in x.Start..x.End => \E k \in 1..Len(t) : n \in t[k].Start..t[k].End
  BY <1>6
<1>8. ASSUME NEW k \in 1..Len(t), n \in t[k].Start..t[k].End, k = a + 1
      PROVE  n \in x.Start..x.End
  BY <1>6, <1>8
<1> QED BY <1>2, <1>4, <1>5, <1>7, <1>8 DEF t

\* Setting one element of a list is a splice.
LEMMA ExceptIsSplice ==
  ASSUME NEW r \in Seq(Intervals), NEW i \in 1..Len(r), NEW x \in Intervals
  PROVE  [r EXCEPT ![i] = x] = Splice(r, i - 1, i + 1, x)
<1> DEFINE s == [r EXCEPT ![i] = x]
           t == Splice(r, i - 1, i + 1, x)
<1>1. Len(r) \in Nat /\ i \in Int /\ 0 <= i - 1 /\ i - 1 < i + 1 /\ i + 1 <= Len(r) + 1
  BY RangeType
<1>2. /\ s \in Seq(Intervals) /\ Len(s) = Len(r)
      /\ \A j \in 1..Len(r) : s[j] = IF j = i THEN x ELSE r[j]
  BY ExceptSeq
<1>3. /\ t \in Seq(Intervals)
      /\ Len(t) = Len(r) + (i - 1) + 2 - (i + 1)
      /\ \A k \in 1..Len(t) :
           t[k] = IF k <= i - 1 THEN r[k]
                  ELSE IF k = (i - 1) + 1 THEN x ELSE r[k - (i - 1) - 2 + (i + 1)]
  <2> DEFINE a == i - 1
             b == i + 1
  <2>1. a \in Int /\ b \in Int /\ 0 <= a /\ a < b /\ b <= Len(r) + 1
    BY <1>1
  <2> HIDE DEF a, b
  <2>2. /\ Splice(r, a, b, x) \in Seq(Intervals)
        /\ Len(Splice(r, a, b, x)) = Len(r) + a + 2 - b
        /\ \A k \in 1..Len(Splice(r, a, b, x)) :
             Splice(r, a, b, x)[k] =
               IF k <= a THEN r[k] ELSE IF k = a + 1 THEN x ELSE r[k - a - 2 + b]
    BY <2>1, SpliceFacts
  <2> QED BY <2>2 DEF a, b
<1> HIDE DEF s, t
<1>4. Len(t) = Len(r)
  BY <1>1, <1>3
<1>5. ASSUME NEW k \in 1..Len(r)
      PROVE  s[k] = t[k]
  <2>1. k - (i - 1) - 2 + (i + 1) = k /\ (i - 1) + 1 = i /\ (k <= i - 1 <=> k < i)
    BY <1>1
  <2>2. s[k] = IF k = i THEN x ELSE r[k]
    BY <1>2
  <2>3. t[k] = IF k < i THEN r[k] ELSE IF k = i THEN x ELSE r[k]
    BY <1>3, <1>4, <2>1
  <2>4. k = i => ~(k < i)
    BY <1>1
  <2> QED BY <2>2, <2>3, <2>4
<1>6. s = t
  BY <1>2, <1>3, <1>4, <1>5, SeqEqual
<1> QED BY <1>6 DEF s, t

\* MergeWithPrevious joins two touching ranges and leaves every other list alone.
LEMMA MergeFacts ==
  ASSUME NEW r \in Seq(Intervals), NEW i \in 1..Len(r), NEW x \in Intervals
  PROVE  /\ i > 1 /\ r[i - 1].End + 1 = x.Start
              => MergeWithPrevious([r EXCEPT ![i] = x], i) =
                   Splice(r, i - 2, i + 1, [Start |-> r[i - 1].Start, End |-> x.End])
         /\ ~(i > 1 /\ r[i - 1].End + 1 = x.Start)
              => MergeWithPrevious([r EXCEPT ![i] = x], i) = Splice(r, i - 1, i + 1, x)
<1> DEFINE s == [r EXCEPT ![i] = x]
<1>1. Len(r) \in Nat /\ i \in Int /\ 1 <= i /\ i <= Len(r)
  BY RangeType
<1>2. /\ s \in Seq(Intervals) /\ Len(s) = Len(r)
      /\ \A j \in 1..Len(r) : s[j] = IF j = i THEN x ELSE r[j]
  BY ExceptSeq
<1> HIDE DEF s
<1>3. s[i] = x /\ (i > 1 => s[i - 1] = r[i - 1])
  BY <1>1, <1>2
<1>4. i > 1 => SubSeq(s, 1, i - 2) = SubSeq(r, 1, i - 2)
  BY <1>1, <1>2
<1>5. SubSeq(s, i + 1, Len(s)) = SubSeq(r, i + 1, Len(r))
  <2>1. \A j \in (i + 1)..Len(r) : s[j] = r[j] /\ r[j] \in Intervals /\ s[j] \in Intervals
    BY <1>1, <1>2, RangeType
  <2>2. /\ SubSeq(s, i + 1, Len(r)) \in Seq(Intervals)
        /\ Len(SubSeq(s, i + 1, Len(r))) = IF i + 1 <= Len(r) THEN Len(r) - (i + 1) + 1 ELSE 0
        /\ \A j \in 1..(Len(r) - (i + 1) + 1) : SubSeq(s, i + 1, Len(r))[j] = s[i + 1 + j - 1]
    BY <1>1, <2>1, SubSeqProperties
  <2>3. /\ SubSeq(r, i + 1, Len(r)) \in Seq(Intervals)
        /\ Len(SubSeq(r, i + 1, Len(r))) = IF i + 1 <= Len(r) THEN Len(r) - (i + 1) + 1 ELSE 0
        /\ \A j \in 1..(Len(r) - (i + 1) + 1) : SubSeq(r, i + 1, Len(r))[j] = r[i + 1 + j - 1]
    BY <1>1, <2>1, SubSeqProperties
  <2>4. SubSeq(s, i + 1, Len(r)) = SubSeq(r, i + 1, Len(r))
    BY <1>1, <2>1, <2>2, <2>3, SeqEqual
  <2> QED BY <1>2, <2>4
<1>6. i > 1 /\ r[i - 1].End + 1 = x.Start
        => MergeWithPrevious(s, i) =
             Splice(r, i - 2, i + 1, [Start |-> r[i - 1].Start, End |-> x.End])
  BY <1>3, <1>4, <1>5 DEF MergeWithPrevious, Splice
<1>7. ~(i > 1 /\ r[i - 1].End + 1 = x.Start) => MergeWithPrevious(s, i) = s
  BY <1>3 DEF MergeWithPrevious
<1>8. s = Splice(r, i - 1, i + 1, x)
  BY ExceptIsSplice DEF s
<1> QED BY <1>6, <1>7, <1>8 DEF s

\* r is a list of nonempty, separated ranges that covers the numbers of S.
Represents(r, S) == r \in Seq(Intervals) /\ Sorted(r) /\ Covered(r) = S

\* The range x, put between position a and position b, adds p to the numbers of the list:
\* it leaves a gap on both sides, and is made of the ranges it replaces and p.
Fits(r, p, x, a, b) ==
  /\ a \in Int /\ b \in Int /\ 0 <= a /\ a < b /\ b <= Len(r) + 1
  /\ x \in Intervals /\ x.Start <= x.End
  /\ \A k \in 1..a : r[k].End + 1 < x.Start
  /\ \A k \in b..Len(r) : x.End + 1 < r[k].Start
  /\ \A n : n \in x.Start..x.End <=>
             n = p \/ \E k \in 1..Len(r) : a < k /\ k < b /\ n \in r[k].Start..r[k].End

\* A splice with a range that fits adds p to the list.
LEMMA SpliceInserts ==
  ASSUME NEW r \in Seq(Intervals), Sorted(r), NEW p, NEW x, NEW a, NEW b, Fits(r, p, x, a, b)
  PROVE  Represents(Splice(r, a, b, x), Covered(r) \cup {p})
<1> DEFINE t == Splice(r, a, b, x)
<1>0. a \in Int /\ b \in Int /\ 0 <= a /\ a < b /\ b <= Len(r) + 1 /\ x \in Intervals
  BY DEF Fits
<1>1. \A n : n \in Covered(t) <=>
            \/ \E k \in 1..Len(r) : (k <= a \/ k >= b) /\ n \in r[k].Start..r[k].End
            \/ n \in x.Start..x.End
  BY <1>0, SpliceCovers
<1>2. t \in Seq(Intervals) /\ Sorted(t)
  BY SpliceSorted DEF Fits
<1> HIDE DEF t
<1>3. \A k \in 1..Len(r) : (k <= a \/ k >= b) \/ (a < k /\ k < b)
  BY <1>0, RangeType
<1>4. \A n : n \in Covered(r) <=> \E k \in 1..Len(r) : n \in r[k].Start..r[k].End
  BY CoveredBy
<1>5. \A n : n \in x.Start..x.End <=>
             n = p \/ \E k \in 1..Len(r) : a < k /\ k < b /\ n \in r[k].Start..r[k].End
  BY DEF Fits
<1>6. \A n : n \in Covered(t) <=> n \in Covered(r) \cup {p}
  BY <1>1, <1>3, <1>4, <1>5, Zenon
<1> QED BY <1>2, <1>6 DEF Represents, t

\* A range is made of its ends.
LEMMA MadeOfEnds ==
  ASSUME NEW first \in Numbers, NEW last \in Numbers
  PROVE  LET x == [Start |-> first, End |-> last] IN
         x \in Intervals /\ x.Start = first /\ x.End = last
BY DEF Intervals

\* A range with one of its ends moved.
LEMMA MovedEnds ==
  ASSUME NEW x \in Intervals, NEW p \in Numbers
  PROVE  /\ [x EXCEPT !.End = p] = [Start |-> x.Start, End |-> p]
         /\ [x EXCEPT !.Start = p] = [Start |-> p, End |-> x.End]
         /\ [Start |-> x.Start, End |-> p] \in Intervals
         /\ [Start |-> p, End |-> x.End] \in Intervals
BY DEF Intervals

\* What ReceivedPacket does to the range it stops at, if p is not in it.
LEMMA InsertCases ==
  ASSUME NEW r \in Seq(Intervals), NEW p \in Numbers, NEW i \in 1..Len(r), i = Reached(r, p),
         p \notin r[i].Start..r[i].End
  PROVE  /\ r[i].End = p - 1
              => Insert(r, p) =
                   MergeWithPrevious([r EXCEPT ![i] = [Start |-> r[i].Start, End |-> p]], i)
         /\ r[i].End # p - 1 /\ r[i].Start = p + 1
              => Insert(r, p) =
                   MergeWithPrevious([r EXCEPT ![i] = [Start |-> p, End |-> r[i].End]], i)
         /\ r[i].End # p - 1 /\ r[i].Start # p + 1
              => Insert(r, p) = Splice(r, i, i + 1, Singleton(p))
<1>1. i # 0 /\ r[i] \in Intervals
  BY RangeType
<1>2. /\ [r EXCEPT ![i].End = p] = [r EXCEPT ![i] = [Start |-> r[i].Start, End |-> p]]
      /\ [r EXCEPT ![i].Start = p] = [r EXCEPT ![i] = [Start |-> p, End |-> r[i].End]]
  BY <1>1, MovedEnds, Zenon
<1>3. Insert(r, p) =
        IF r[i].End = p - 1 THEN MergeWithPrevious([r EXCEPT ![i].End = p], i)
        ELSE IF r[i].Start = p + 1 THEN MergeWithPrevious([r EXCEPT ![i].Start = p], i)
        ELSE SubSeq(r, 1, i) \o <<Singleton(p)>> \o SubSeq(r, i + 1, Len(r))
  BY <1>1, Zenon DEF Insert
<1> QED BY <1>2, <1>3, Zenon DEF Splice

\* receivedPacketHistory.ReceivedPacket adds the number and nothing else, wherever it falls.
LEMMA InsertFacts ==
  ASSUME NEW r \in Seq(Intervals), Sorted(r), NEW p \in Numbers
  PROVE  Represents(Insert(r, p), Covered(r) \cup {p})
<1> DEFINE i == Reached(r, p)
<1>1. Len(r) \in Nat /\ \A k \in 1..Len(r) : r[k] \in Intervals /\ r[k].Start \in Int /\ r[k].End \in Int
  BY RangeType, NumbersAreIntegers
<1>2. /\ i \in 0..Len(r)
      /\ i > 0 => r[i].Start <= p + 1
      /\ \A k \in 1..Len(r) : k > i => r[k].Start > p + 1
  BY ReachedFacts
<1>3. p \in Int /\ Singleton(p) \in Intervals /\ Singleton(p).Start = p /\ Singleton(p).End = p
  BY NumbersAreIntegers DEF Singleton, Intervals
<1>4. \A n : n \in p..p <=> n = p
  BY <1>3
<1> HIDE DEF i
<1>5. CASE i = 0
  <2>1. Insert(r, p) = Splice(r, 0, 1, Singleton(p))
    <3>1. Insert(r, p) = <<Singleton(p)>> \o r
      BY <1>5 DEF Insert, i
    <3>2. SubSeq(r, 1, 0) = <<>>
      BY SubSeqEmpty
    <3>3. SubSeq(r, 1, Len(r)) = r
      BY SubSeqFull
    <3>4. <<>> \o <<Singleton(p)>> = <<Singleton(p)>>
      BY <1>3, ConcatEmptySeq
    <3> QED BY <3>1, <3>2, <3>3, <3>4 DEF Splice
  <2> DEFINE x == Singleton(p)
  <2>2. x \in Intervals /\ x.Start <= x.End /\ x.Start = p /\ x.End = p
    BY <1>3
  <2> HIDE DEF x
  <2>3. \A k \in 1..0 : r[k].End + 1 < x.Start
    OBVIOUS
  <2>4. \A k \in 1..Len(r) : x.End + 1 < r[k].Start
    BY <1>1, <1>2, <1>3, <1>5, <2>2
  <2>5. \A n : n \in x.Start..x.End <=>
                n = p \/ \E k \in 1..Len(r) : 0 < k /\ k < 1 /\ n \in r[k].Start..r[k].End
    BY <1>1, <1>4, <2>2
  <2>6. Fits(r, p, x, 0, 1)
    BY <1>1, <2>2, <2>3, <2>4, <2>5 DEF Fits
  <2> QED BY <2>1, <2>6, SpliceInserts DEF x
<1>6. CASE i > 0 /\ p \in r[i].Start..r[i].End
  <2>1. Insert(r, p) = r
    BY <1>6 DEF Insert, i
  <2>2. p \in Covered(r)
    BY <1>2, <1>6, CoveredBy
  <2>3. Covered(r) \cup {p} = Covered(r)
    BY <2>2
  <2> QED BY <2>1, <2>3 DEF Represents
<1>7. ASSUME i > 0, p \notin r[i].Start..r[i].End
      PROVE  Represents(Insert(r, p), Covered(r) \cup {p})
  <2>1. /\ i \in 1..Len(r) /\ i \in Int /\ r[i] \in Intervals
        /\ r[i].Start \in Int /\ r[i].End \in Int /\ r[i].Start <= r[i].End
        /\ i - 1 \in Int /\ i + 1 \in Int /\ i + 1 <= Len(r) + 1
    BY <1>1, <1>2, <1>7 DEF Sorted
  <2>2. \A k \in 1..(i - 1) : k \in 1..Len(r) /\ r[k].End + 1 < r[i].Start /\ r[k].End \in Int
    BY <1>1, <2>1 DEF Sorted
  <2>3. \A k \in (i + 1)..Len(r) : /\ k \in 1..Len(r) /\ r[k].Start \in Int
                                   /\ p + 1 < r[k].Start /\ r[i].End + 1 < r[k].Start
    BY <1>1, <1>2, <1>3, <2>1 DEF Sorted
  <2>4. \A k \in 1..Len(r) : i - 1 < k /\ k < i + 1 <=> k = i
    BY <2>1
  <2>5. CASE r[i].End = p - 1
    <3> DEFINE x == [Start |-> r[i].Start, End |-> p]
    <3>1. x \in Intervals /\ x.Start = r[i].Start /\ x.End = p
      BY <2>1, MovedEnds
    <3>2. Insert(r, p) = MergeWithPrevious([r EXCEPT ![i] = x], i)
      BY <1>7, <2>1, <2>5, InsertCases DEF i
    <3> HIDE DEF x
    <3>3. ~(i > 1 /\ r[i - 1].End + 1 = x.Start)
      BY <2>1, <2>2, <3>1
    <3>4. Insert(r, p) = Splice(r, i - 1, i + 1, x)
      BY <2>1, <3>1, <3>2, <3>3, MergeFacts
    <3>5. \A n : n \in x.Start..x.End <=> n = p \/ n \in r[i].Start..r[i].End
      BY <1>3, <2>1, <2>5, <3>1
    <3>6. x.Start <= x.End
      BY <1>3, <2>1, <2>5, <3>1
    <3>7. \A n : n \in x.Start..x.End <=>
                 n = p \/ \E k \in 1..Len(r) : i - 1 < k /\ k < i + 1 /\ n \in r[k].Start..r[k].End
      BY <2>1, <2>4, <3>5
    <3>8. Fits(r, p, x, i - 1, i + 1)
      BY <2>1, <2>2, <2>3, <3>1, <3>6, <3>7 DEF Fits
    <3> QED BY <3>4, <3>8, SpliceInserts
  <2>6. CASE r[i].End # p - 1 /\ r[i].Start = p + 1
    <3> DEFINE x == [Start |-> p, End |-> r[i].End]
    <3>1. x \in Intervals /\ x.Start = p /\ x.End = r[i].End /\ x.Start <= x.End
      <4>1. r[i].End \in Numbers
        BY <2>1, RangeType
      <4>2. x \in Intervals /\ x.Start = p /\ x.End = r[i].End
        BY <4>1, MadeOfEnds
      <4> QED BY <1>3, <2>1, <2>6, <4>2
    <3>2. Insert(r, p) = MergeWithPrevious([r EXCEPT ![i] = x], i)
      BY <1>7, <2>1, <2>6, InsertCases DEF i
    <3> HIDE DEF x
    <3>3. \A n : n \in x.Start..x.End <=> n = p \/ n \in r[i].Start..r[i].End
      BY <1>3, <2>1, <2>6, <3>1
    <3>4. CASE i > 1 /\ r[i - 1].End + 1 = x.Start
      <4> DEFINE y == [Start |-> r[i - 1].Start, End |-> x.End]
                 a == i - 2
      <4>1. i - 1 \in 1..Len(r) /\ a \in Int /\ 0 <= a /\ a < i + 1
        BY <2>1, <3>4
      <4>2. /\ r[i - 1] \in Intervals /\ r[i - 1].Start <= r[i - 1].End
            /\ r[i - 1].Start \in Int /\ r[i - 1].End \in Int /\ x.End \in Numbers
        BY <1>1, <2>1, <3>1, <4>1, RangeType DEF Sorted
      <4>3. y \in Intervals /\ y.Start = r[i - 1].Start /\ y.End = x.End /\ y.Start <= y.End
        <5>1. r[i - 1].Start \in Numbers
          BY <4>1, RangeType
        <5>2. y \in Intervals /\ y.Start = r[i - 1].Start /\ y.End = x.End
          BY <4>2, <5>1, MadeOfEnds
        <5> QED BY <1>3, <2>1, <3>1, <3>4, <4>2, <5>2
      <4>4. Insert(r, p) = Splice(r, a, i + 1, y)
        BY <2>1, <3>1, <3>2, <3>4, MergeFacts
      <4> HIDE DEF y
      <4>5. \A k \in 1..a : r[k].End + 1 < y.Start
        BY <2>1, <4>1, <4>3 DEF Sorted
      <4>6. \A n : n \in y.Start..y.End <=>
                   n = p \/ n \in r[i - 1].Start..r[i - 1].End \/ n \in r[i].Start..r[i].End
        BY <1>3, <2>1, <2>6, <3>1, <3>4, <4>2, <4>3
      <4>7. \A k \in 1..Len(r) : a < k /\ k < i + 1 <=> k = i \/ k = i - 1
        BY <2>1
      <4>8. \A n : n \in y.Start..y.End <=>
                   n = p \/ \E k \in 1..Len(r) : a < k /\ k < i + 1 /\ n \in r[k].Start..r[k].End
        BY <2>1, <4>1, <4>6, <4>7, Zenon
      <4> HIDE DEF a
      <4>9. Fits(r, p, y, a, i + 1)
        BY <2>1, <2>3, <3>1, <4>1, <4>3, <4>5, <4>8 DEF Fits
      <4> QED BY <4>4, <4>9, SpliceInserts
    <3>5. CASE ~(i > 1 /\ r[i - 1].End + 1 = x.Start)
      <4>1. Insert(r, p) = Splice(r, i - 1, i + 1, x)
        BY <2>1, <3>1, <3>2, <3>5, MergeFacts
      <4>2. ASSUME NEW k \in 1..(i - 1)
            PROVE  r[k].End + 1 < x.Start
        <5>1. k \in 1..Len(r) /\ r[k].Start <= r[k].End /\ r[k].Start \in Int /\ r[k].End \in Int
          BY <1>1, <2>2 DEF Sorted
        <5>2. CASE k = i - 1
          <6>1. r[k].End + 1 # x.Start
            BY <2>1, <3>5, <5>2
          <6>2. r[k].End + 1 < p + 1
            BY <2>2, <2>6
          <6> QED BY <1>3, <3>1, <5>1, <6>1, <6>2
        <5>3. CASE k < i - 1
          <6>1. i - 1 \in 1..Len(r) /\ i - 1 \in 1..(i - 1)
            BY <2>1, <5>3
          <6>2. r[k].End + 1 < r[i - 1].Start /\ r[i - 1].Start <= r[i - 1].End
            BY <5>1, <5>3, <6>1 DEF Sorted
          <6> QED BY <1>1, <1>3, <2>1, <2>2, <2>6, <3>1, <5>1, <6>1, <6>2
        <5> QED BY <2>1, <5>2, <5>3
      <4>3. \A n : n \in x.Start..x.End <=>
                   n = p \/ \E k \in 1..Len(r) : i - 1 < k /\ k < i + 1 /\ n \in r[k].Start..r[k].End
        BY <2>1, <2>4, <3>3
      <4>4. Fits(r, p, x, i - 1, i + 1)
        <5>1. \A k \in 1..(i - 1) : r[k].End + 1 < x.Start
          BY <4>2
        <5>2. \A k \in (i + 1)..Len(r) : x.End + 1 < r[k].Start
          BY <2>3, <3>1
        <5>3. 0 <= i - 1 /\ i - 1 < i + 1
          BY <2>1
        <5> QED BY <2>1, <3>1, <4>3, <5>1, <5>2, <5>3 DEF Fits
      <4> QED BY <4>1, <4>4, SpliceInserts
    <3> QED BY <3>4, <3>5
  <2>7. CASE r[i].End # p - 1 /\ r[i].Start # p + 1
    <3> DEFINE x == Singleton(p)
    <3>1. x \in Intervals /\ x.Start = p /\ x.End = p
      BY <1>3
    <3>2. Insert(r, p) = Splice(r, i, i + 1, x)
      BY <1>7, <2>1, <2>7, InsertCases DEF i
    <3> HIDE DEF x
    <3>3. r[i].End + 1 < p
      BY <1>2, <1>3, <1>7, <2>1, <2>7
    <3>4. ASSUME NEW k \in 1..i
          PROVE  r[k].End + 1 < x.Start
      <4>1. k \in 1..(i - 1) \/ k = i
        BY <2>1
      <4>2. r[i].Start <= r[i].End
        BY <2>1
      <4> QED BY <1>3, <2>1, <2>2, <3>1, <3>3, <4>1, <4>2
    <3>5. \A n : n \in x.Start..x.End <=>
                 n = p \/ \E k \in 1..Len(r) : i < k /\ k < i + 1 /\ n \in r[k].Start..r[k].End
      BY <1>4, <2>1, <3>1
    <3>6. Fits(r, p, x, i, i + 1)
      BY <1>3, <2>1, <2>3, <3>1, <3>4, <3>5 DEF Fits
    <3> QED BY <3>2, <3>6, SpliceInserts
  <2> QED BY <2>5, <2>6, <2>7
<1> QED BY <1>2, <1>5, <1>6, <1>7

\* The ranges that DeleteUpTo drops whole are the first of the list.
LEMMA DroppedIsPrefix ==
  ASSUME NEW r \in Seq(Intervals), Sorted(r), NEW m \in Int
  PROVE  LET dropped == {i \in 1..Len(r) : r[i].End <= m} IN
         /\ Cardinality(dropped) \in 0..Len(r)
         /\ dropped = 1..Cardinality(dropped)
<1> DEFINE dropped == {i \in 1..Len(r) : r[i].End <= m}
<1>1. Len(r) \in Nat /\ \A k \in 1..Len(r) : r[k].Start \in Int /\ r[k].End \in Int
  BY RangeType, NumbersAreIntegers
<1>2. CASE dropped = {}
  <2>1. Cardinality(dropped) = 0
    BY <1>2, FS_EmptySet
  <2>2. 1..0 = {}
    OBVIOUS
  <2> HIDE DEF dropped
  <2>3. 0 \in 0..Len(r)
    BY <1>1
  <2> QED BY <1>2, <2>1, <2>2, <2>3 DEF dropped
<1>3. CASE dropped # {}
  <2> DEFINE last == Max(dropped)
  <2>1. last \in dropped /\ \A i \in dropped : i <= last
    <3>1. dropped \in SUBSET (1..Len(r))
      OBVIOUS
    <3> HIDE DEF dropped
    <3> QED BY <1>1, <1>3, <3>1, LargestPosition
  <2> HIDE DEF last
  <2>2. last \in 1..Len(r) /\ r[last].End <= m
    BY <2>1
  <2>3. \A i \in 1..last : i \in dropped
    <3> SUFFICES ASSUME NEW i \in 1..last, i # last
                 PROVE  i \in dropped
      BY <2>1
    <3>1. i \in 1..Len(r) /\ i < last
      BY <1>1, <2>2
    <3>2. r[i].End + 1 < r[last].Start /\ r[last].Start <= r[last].End
      BY <2>2, <3>1 DEF Sorted
    <3> QED BY <1>1, <2>2, <3>1, <3>2
  <2>4. dropped = 1..last
    BY <1>1, <2>1, <2>2, <2>3
  <2>5. last \in Int /\ 1 <= last
    BY <1>1, <2>2
  <2> HIDE DEF dropped
  <2>6. Cardinality(dropped) = last
    <3>1. Cardinality(1..last) = IF 1 > last THEN 0 ELSE last - 1 + 1
      BY <2>5, FS_Interval
    <3> QED BY <2>4, <2>5, <3>1
  <2>7. Cardinality(dropped) \in 0..Len(r) /\ dropped = 1..Cardinality(dropped)
    BY <1>1, <2>2, <2>4, <2>6
  <2> QED BY <2>7 DEF dropped
<1> QED BY <1>2, <1>3

\* receivedPacketHistory.DeleteUpTo forgets the numbers up to m and no others.
LEMMA DeleteFacts ==
  ASSUME NEW r \in Seq(Intervals), Sorted(r), NEW m \in 0..MaxPacketNumber
  PROVE  Represents(DeleteUpTo(r, m), {n \in Covered(r) : n > m})
<1> DEFINE dropped == {i \in 1..Len(r) : r[i].End <= m}
           d == Cardinality(dropped)
           rest == SubSeq(r, d + 1, Len(r))
           t == DeleteUpTo(r, m)
<1>1. /\ Len(r) \in Nat
      /\ \A k \in 1..Len(r) : /\ r[k] \in Intervals /\ r[k].Start \in Numbers /\ r[k].End \in Numbers
                              /\ r[k].Start \in Int /\ r[k].End \in Int
  BY RangeType, NumbersAreIntegers
<1>2. m \in Int /\ 0 <= m
  OBVIOUS
<1>3. d \in 0..Len(r) /\ dropped = 1..d
  BY <1>2, DroppedIsPrefix
<1>4. t = [i \in 1..Len(rest) |-> IF rest[i].Start <= m THEN [rest[i] EXCEPT !.Start = m + 1] ELSE rest[i]]
  BY DEF DeleteUpTo
<1> HIDE DEF d
<1>5. \A k \in 1..Len(r) : k <= d <=> r[k].End <= m
  BY <1>1, <1>3
<1>6. Len(rest) = Len(r) - d /\ \A i \in 1..(Len(r) - d) : rest[i] = r[d + i]
  <2>1. \A i \in (d + 1)..Len(r) : r[i] \in Intervals
    BY <1>1, <1>3
  <2>2. /\ Len(rest) = IF d + 1 <= Len(r) THEN Len(r) - (d + 1) + 1 ELSE 0
        /\ \A i \in 1..(Len(r) - (d + 1) + 1) : rest[i] = r[d + 1 + i - 1]
    BY <1>1, <1>3, <2>1, SubSeqProperties
  <2> HIDE DEF rest
  <2> QED BY <1>1, <1>3, <2>2
<1> HIDE DEF rest, t
<1> DEFINE size == Len(r) - d
<1>7. ASSUME NEW i \in 1..size
      PROVE  /\ d + i \in 1..Len(r) /\ r[d + i].End > m
             /\ t[i] \in Intervals
             /\ t[i].Start = IF r[d + i].Start <= m THEN m + 1 ELSE r[d + i].Start
             /\ t[i].End = r[d + i].End
  <2>1. d + i \in 1..Len(r) /\ r[d + i].End > m
    BY <1>1, <1>2, <1>3, <1>5
  <2>2. t[i] = IF r[d + i].Start <= m THEN [r[d + i] EXCEPT !.Start = m + 1] ELSE r[d + i]
    BY <1>4, <1>6
  <2>3. m + 1 \in Numbers
    <3>1. r[d + i].End \in Int /\ r[d + i].End <= MaxPacketNumber
      BY <1>1, <2>1, NumbersAreIntegers
    <3>2. m + 1 >= 1 /\ m + 1 <= MaxPacketNumber /\ m + 1 \in Int
      BY <1>2, <2>1, <3>1, LimitsAssumption
    <3> QED BY <3>2, LimitsAssumption DEF Numbers
  <2> DEFINE x == r[d + i]
  <2>4. x \in Intervals /\ x.End \in Numbers
    BY <1>1, <2>1
  <2>5. t[i] = IF x.Start <= m THEN [x EXCEPT !.Start = m + 1] ELSE x
    BY <2>2
  <2> HIDE DEF x
  <2>6. t[i] = IF x.Start <= m THEN [Start |-> m + 1, End |-> x.End] ELSE x
    BY <2>3, <2>4, <2>5, MovedEnds, Zenon
  <2>7. t[i] \in Intervals /\ t[i].Start = (IF x.Start <= m THEN m + 1 ELSE x.Start) /\ t[i].End = x.End
    BY <2>3, <2>4, <2>6, MadeOfEnds
  <2> QED BY <2>1, <2>7 DEF x
<1>8. t \in Seq(Intervals) /\ Len(t) = size
  <2>1. size \in Nat
    BY <1>1, <1>3
  <2>2. t \in [1..size -> Intervals]
    BY <1>4, <1>6, <1>7
  <2> HIDE DEF size
  <2> QED BY <2>1, <2>2
<1>9. Sorted(t)
  <2>1. ASSUME NEW i \in 1..size
        PROVE  t[i].Start <= t[i].End
    BY <1>1, <1>2, <1>7 DEF Sorted
  <2>2. ASSUME NEW i \in 1..size, NEW j \in 1..size, i < j
        PROVE  t[i].End + 1 < t[j].Start
    <3>1. d + i \in 1..Len(r) /\ d + j \in 1..Len(r) /\ d + i < d + j
      BY <1>3, <1>7, <2>2
    <3>2. r[d + i].End + 1 < r[d + j].Start
      BY <3>1 DEF Sorted
    <3>3. t[i].End = r[d + i].End /\ r[d + i].End > m
      BY <1>7
    <3>4. t[j].Start = IF r[d + j].Start <= m THEN m + 1 ELSE r[d + j].Start
      BY <1>7
    <3> QED BY <1>1, <1>2, <3>1, <3>2, <3>3, <3>4
  <2> QED BY <1>8, <2>1, <2>2 DEF Sorted
<1>10. ASSUME NEW n \in Covered(t)
       PROVE  n \in Covered(r) /\ n > m
  <2>1. PICK i \in 1..size : n \in t[i].Start..t[i].End
    BY <1>8, CoveredBy
  <2>2. n \in r[d + i].Start..r[d + i].End /\ n > m
    BY <1>1, <1>2, <1>7, <2>1
  <2> QED BY <1>7, <2>2, CoveredBy
<1>11. ASSUME NEW n \in Covered(r), n > m
       PROVE  n \in Covered(t)
  <2>1. PICK k \in 1..Len(r) : n \in r[k].Start..r[k].End
    BY CoveredBy
  <2>2. k > d
    BY <1>1, <1>2, <1>3, <1>5, <1>11, <2>1
  <2> DEFINE i == k - d
  <2>3. i \in 1..size /\ d + i = k
    BY <1>1, <1>3, <2>1, <2>2
  <2> HIDE DEF i
  <2>4. t[i].Start = (IF r[k].Start <= m THEN m + 1 ELSE r[k].Start) /\ t[i].End = r[k].End
    BY <1>7, <2>3
  <2>5. n \in t[i].Start..t[i].End
    BY <1>1, <1>2, <1>11, <2>1, <2>4
  <2> QED BY <1>8, <2>3, <2>5, CoveredBy
<1>12. Covered(t) = {n \in Covered(r) : n > m}
  BY <1>10, <1>11, Zenon
<1> QED BY <1>8, <1>9, <1>12 DEF Represents, t

\* The numbers a list covers are packet numbers.
LEMMA CoveredAreNumbers ==
  ASSUME NEW r \in Seq(Intervals), NEW n \in Covered(r)
  PROVE  n \in Numbers /\ n \in Int
<1>1. PICK k \in 1..Len(r) : n \in r[k].Start..r[k].End
  BY CoveredBy
<1>2. /\ r[k].Start \in Int /\ r[k].Start >= 1
      /\ r[k].End \in Int /\ r[k].End <= MaxPacketNumber
  BY RangeType, NumbersAreIntegers
<1> QED BY <1>1, <1>2, LimitsAssumption DEF Numbers

\* The largest number of a list is the end of its last range.
LEMMA LargestIsLast ==
  ASSUME NEW r \in Seq(Intervals), Sorted(r), NEW n \in Covered(r), \A l \in Covered(r) : l <= n
  PROVE  r # <<>> /\ r[Len(r)].End = n
<1>1. PICK k \in 1..Len(r) : n \in r[k].Start..r[k].End
  BY CoveredBy
<1>2. Len(r) \in Nat /\ \A i \in 1..Len(r) : r[i].Start \in Int /\ r[i].End \in Int
  BY RangeType, NumbersAreIntegers
<1>3. Len(r) \in 1..Len(r) /\ r[Len(r)].Start <= r[Len(r)].End
  BY <1>2 DEF Sorted
<1>4. r[Len(r)].End \in Covered(r)
  <2>1. r[Len(r)].End \in r[Len(r)].Start..r[Len(r)].End
    BY <1>2, <1>3
  <2> QED BY <1>3, <2>1, CoveredBy
<1>5. n <= r[Len(r)].End
  <2>1. CASE k = Len(r)
    BY <1>1, <1>2, <2>1
  <2>2. CASE k < Len(r)
    BY <1>1, <1>2, <1>3, <2>2 DEF Sorted
  <2> QED BY <1>2, <2>1, <2>2
<1>6. r # <<>>
  BY <1>2, <1>3
<1> QED BY <1>1, <1>2, <1>3, <1>4, <1>5, <1>6

-----------------------------------------------------------------------------
(* The inductive invariant.  The list is sorted; that the frame reports    *)
(* the largest packet received needs that STOP_WAITING asks for less than  *)
(* the packet it came with, so that the limit stays below largestObserved. *)

\* Nothing below the limit is in the list, and the limit is no packet still to come.
LimitBelow == lowerLimit <= largestObserved /\ \A n \in Covered(ranges) : n > lowerLimit

\* The largest packet received is in the list, from the first packet on.
LargestKept ==
  \/ closed
  \/ largestObserved = 0 /\ ranges = <<>> /\ ~AckDue
  \/ largestObserved \in Covered(ranges) /\ \A n \in Covered(ranges) : n <= largestObserved

IInv == TypeOK /\ Sorted(ranges) /\ RetransmittableIsDue /\ LimitBelow /\ LargestKept

\* The numbers after a packet p that asks to stop waiting for those below leastUnacked.
NumbersAfter(p, leastUnacked) ==
  LET seen == IF p > lowerLimit THEN Covered(ranges) \cup {p} ELSE Covered(ranges) IN
  IF leastUnacked = 0 THEN seen ELSE {n \in seen : n >= leastUnacked}

\* The empty list covers nothing.
LEMMA EmptyCovers == Covered(<<>>) = {} /\ <<>> \in Seq(Intervals) /\ Sorted(<<>>)
<1>1. \A n : n \notin Covered(<<>>)
  BY CoveredBy
<1> QED BY <1>1 DEF Sorted

\* What a packet does to the list.
LEMMA ListAfterPacket ==
  ASSUME TypeOK, Sorted(ranges), NEW p \in Numbers, NEW retransmittable \in BOOLEAN,
         NEW leastUnacked \in 0..p, HandlePacket(p, retransmittable, leastUnacked)
  PROVE  Represents(ranges', NumbersAfter(p, leastUnacked))
<1> DEFINE r == IF p <= lowerLimit THEN ranges ELSE Insert(ranges, p)
           seen == IF p > lowerLimit THEN Covered(ranges) \cup {p} ELSE Covered(ranges)
<1>1. ranges' = IF leastUnacked = 0 THEN r ELSE DeleteUpTo(r, leastUnacked - 1)
  BY DEF HandlePacket
<1>2. /\ p \in Int /\ 1 <= p /\ p <= MaxPacketNumber /\ lowerLimit \in Int
      /\ ranges \in Seq(Intervals) /\ leastUnacked \in Int /\ 0 <= leastUnacked /\ leastUnacked <= p
  BY NumbersAreIntegers DEF TypeOK
<1>3. Represents(r, seen)
  <2>1. CASE p <= lowerLimit
    BY <1>2, <2>1 DEF Represents
  <2>2. CASE p > lowerLimit
    BY <1>2, <2>2, InsertFacts
  <2> QED BY <1>2, <2>1, <2>2
<1> HIDE DEF r, seen
<1>4. CASE leastUnacked = 0
  BY <1>1, <1>3, <1>4 DEF NumbersAfter, seen
<1>5. CASE leastUnacked # 0
  <2>1. leastUnacked - 1 \in 0..MaxPacketNumber
    BY <1>2, <1>5, LimitsAssumption
  <2>2. r \in Seq(Intervals) /\ Sorted(r) /\ Covered(r) = seen
    BY <1>3 DEF Represents
  <2>3. Represents(ranges', {n \in seen : n > leastUnacked - 1})
    BY <1>1, <1>5, <2>1, <2>2, DeleteFacts
  <2>4. \A n \in seen : n > leastUnacked - 1 <=> n >= leastUnacked
    BY <1>2, <2>2, CoveredAreNumbers
  <2>5. {n \in seen : n > leastUnacked - 1} = {n \in seen : n >= leastUnacked}
    BY <2>4, Zenon
  <2> QED BY <1>5, <2>3, <2>5 DEF NumbersAfter, seen
<1> QED BY <1>4, <1>5

\* The initial state: an empty list and nothing due.
LEMMA InitIInv == Init => IInv
<1> SUFFICES ASSUME Init
             PROVE  IInv
  OBVIOUS
<1>1. TypeOK
  <2>1. 0 \in 0..MaxPacketNumber /\ 0 \in 0..RetransmittablePacketsBeforeAck
    BY LimitsAssumption
  <2>2. <<>> \in Seq(Intervals)
    BY EmptyCovers
  <2> QED BY <2>1, <2>2, Zenon DEF Init, TypeOK
<1>2. Sorted(ranges) /\ Covered(ranges) = {}
  BY EmptyCovers DEF Init
<1> QED BY <1>1, <1>2 DEF Init, IInv, RetransmittableIsDue, LimitBelow, LargestKept, AckDue

\* A packet, with or without STOP_WAITING.
LEMMA HandlePacketStep ==
  ASSUME IInv, NEW p \in Numbers, NEW retransmittable \in BOOLEAN, NEW leastUnacked \in 0..p,
         HandlePacket(p, retransmittable, leastUnacked)
  PROVE  IInv'
<1>1. /\ TypeOK /\ Sorted(ranges) /\ RetransmittableIsDue /\ LimitBelow /\ LargestKept
  BY DEF IInv
<1>2. /\ p \in Int /\ 1 <= p /\ p <= MaxPacketNumber /\ lowerLimit \in Int /\ largestObserved \in Int
      /\ 0 <= lowerLimit /\ 0 <= largestObserved
      /\ leastUnacked \in Int /\ 0 <= leastUnacked /\ leastUnacked <= p
  BY <1>1, NumbersAreIntegers DEF TypeOK
<1>3. /\ ranges' \in Seq(Intervals) /\ Sorted(ranges)' /\ Covered(ranges') = NumbersAfter(p, leastUnacked)
  BY <1>1, ListAfterPacket DEF Represents
<1>4. /\ ~closed /\ closed' = closed /\ lastAck' = lastAck
      /\ largestObserved' = IF p > largestObserved THEN p ELSE largestObserved
      /\ lowerLimit' = IF leastUnacked = 0 THEN lowerLimit ELSE leastUnacked - 1
  BY DEF HandlePacket
<1>5. /\ retransmittablePacketsReceivedSinceLastAck' \in 0..RetransmittablePacketsBeforeAck
      /\ ackQueued' \in BOOLEAN /\ ackAlarm' \in BOOLEAN /\ RetransmittableIsDue'
  <2>1. CASE p <= lowerLimit
    BY <1>1, <2>1 DEF HandlePacket, TypeOK, RetransmittableIsDue, AckDue
  <2>2. CASE ~(p <= lowerLimit)
    <3> DEFINE count == IF retransmittable THEN CountUpTo(retransmittablePacketsReceivedSinceLastAck)
                        ELSE retransmittablePacketsReceivedSinceLastAck
    <3>1. PICK r : MaybeQueueAck(p, retransmittable, r)
      BY <2>2 DEF HandlePacket
    <3>2. count \in 0..RetransmittablePacketsBeforeAck
      BY <1>1, LimitsAssumption DEF TypeOK, CountUpTo
    <3> DEFINE queued == ackQueued \/ AckAtOnce(p, retransmittable, count, r)
    <3>3. /\ retransmittablePacketsReceivedSinceLastAck' = count
          /\ ackQueued' = queued
          /\ ackAlarm' = (~queued /\ (ackAlarm \/ retransmittable))
      BY <3>1 DEF MaybeQueueAck
    <3>4. ackQueued' \in BOOLEAN /\ ackAlarm' \in BOOLEAN
      BY <3>3
    <3>5. count > 0 => retransmittable \/ AckDue
      BY <1>1 DEF RetransmittableIsDue
    <3>6. retransmittable \/ AckDue => ackQueued' \/ ackAlarm'
      BY <3>3 DEF AckDue
    <3> QED BY <3>2, <3>3, <3>4, <3>5, <3>6 DEF RetransmittableIsDue, AckDue
  <2> QED BY <2>1, <2>2
<1>6. TypeOK'
  BY <1>1, <1>2, <1>3, <1>4, <1>5, LimitsAssumption DEF TypeOK
<1>7. \A n \in Covered(ranges) : n \in Int /\ n > lowerLimit
  BY <1>1, CoveredAreNumbers DEF LimitBelow, TypeOK
<1>8. LimitBelow'
  <2>1. lowerLimit' <= largestObserved'
    BY <1>1, <1>2, <1>4 DEF LimitBelow
  <2>2. ASSUME NEW n \in Covered(ranges')
        PROVE  n > lowerLimit'
    BY <1>2, <1>3, <1>4, <1>7, <2>2 DEF NumbersAfter
  <2> QED BY <2>1, <2>2 DEF LimitBelow
<1>9. LargestKept'
  <2>1. CASE p > lowerLimit
    <3>1. \A n \in Covered(ranges) : n <= largestObserved
      BY <1>1, <1>4, EmptyCovers DEF LargestKept
    <3>2. largestObserved \in Covered(ranges) \/ largestObserved = 0
      BY <1>1, <1>4 DEF LargestKept
    <3>3. largestObserved' \in Covered(ranges) \cup {p} /\ largestObserved' >= p
      BY <1>2, <1>4, <3>2
    <3>4. largestObserved' \in NumbersAfter(p, leastUnacked)
      BY <1>2, <1>4, <2>1, <3>3 DEF NumbersAfter
    <3>5. \A n \in NumbersAfter(p, leastUnacked) : n <= largestObserved'
      BY <1>2, <1>4, <1>7, <2>1, <3>1 DEF NumbersAfter
    <3> QED BY <1>3, <3>4, <3>5 DEF LargestKept
  <2>2. CASE p <= lowerLimit
    <3>1. largestObserved' = largestObserved /\ largestObserved # 0
      BY <1>1, <1>2, <1>4, <2>2 DEF LimitBelow
    <3>2. largestObserved \in Covered(ranges) /\ \A n \in Covered(ranges) : n <= largestObserved
      BY <1>1, <1>4, <3>1 DEF LargestKept
    <3>3. NumbersAfter(p, leastUnacked) = Covered(ranges)
      BY <1>2, <1>7, <2>2 DEF NumbersAfter
    <3> QED BY <1>3, <3>1, <3>2, <3>3 DEF LargestKept
  <2> QED BY <1>2, <2>1, <2>2
<1> QED BY <1>3, <1>5, <1>6, <1>8, <1>9 DEF IInv

\* The error about too many ranges, and an ACK frame handed out.
LEMMA OtherSteps ==
  ASSUME IInv, (\E p \in Numbers : TooManyRanges(p)) \/ GetAckFrame \/ UNCHANGED vars
  PROVE  IInv'
<1> USE DEF IInv, TypeOK, RetransmittableIsDue, LimitBelow, LargestKept, AckDue
<1>1. ASSUME NEW p \in Numbers, TooManyRanges(p)
      PROVE  IInv'
  <2>1. largestObserved' \in 0..MaxPacketNumber /\ largestObserved <= largestObserved'
    BY <1>1, NumbersAreIntegers, LimitsAssumption DEF TooManyRanges
  <2>2. lowerLimit <= largestObserved'
    BY <2>1
  <2> QED BY <1>1, <2>1, <2>2 DEF TooManyRanges
<1>2. CASE GetAckFrame
  <2>1. 0 \in 0..RetransmittablePacketsBeforeAck
    BY LimitsAssumption
  <2>2. TypeOK'
    BY <1>2, <2>1 DEF GetAckFrame
  <2>3. RetransmittableIsDue'
    BY <1>2 DEF GetAckFrame
  <2>4. Sorted(ranges)' /\ LimitBelow'
    BY <1>2 DEF GetAckFrame
  <2>5. LargestKept'
    BY <1>2 DEF GetAckFrame
  <2> QED BY <2>2, <2>3, <2>4, <2>5
<1>3. CASE UNCHANGED vars
  BY <1>3 DEF vars
<1> QED BY <1>1, <1>2, <1>3

\* The inductive invariant holds in every reachable state of every handler.
THEOREM InductiveInvariant == Spec => []IInv
<1>1. IInv /\ [Next]_vars => IInv'
  BY HandlePacketStep, OtherSteps DEF Next
<1> QED BY InitIInv, <1>1, PTL DEF Spec

\* Type correctness of the handler and its interval list.
THEOREM TypeCorrect == Spec => []TypeOK
<1>1. IInv => TypeOK
  BY DEF IInv
<1> QED BY <1>1, InductiveInvariant, PTL

\* The list always makes a frame that the peer's validateAckRanges accepts.
THEOREM RangesCorrect == Spec => []RangesWellFormed
<1>1. IInv => RangesWellFormed
  <2> SUFFICES ASSUME IInv
               PROVE  RangesWellFormed
    OBVIOUS
  <2>1. Len(ranges) \in Nat /\ Sorted(ranges)
    BY RangeType DEF IInv, TypeOK
  <2>2. \A i \in 1..(Len(ranges) - 1) : i \in 1..Len(ranges) /\ i + 1 \in 1..Len(ranges) /\ i < i + 1
    BY <2>1
  <2> QED BY <2>1, <2>2 DEF Sorted, RangesWellFormed
<1> QED BY <1>1, InductiveInvariant, PTL

\* GetAckFrame finds a last range whenever a frame is due, and it ends at LargestAcked.
THEOREM AckFrameCorrect == Spec => []AckFrameSound
<1>1. IInv => AckFrameSound
  <2> SUFFICES ASSUME IInv, AckDue, ~closed
               PROVE  ranges # <<>> /\ ranges[Len(ranges)].End = largestObserved
    BY DEF AckFrameSound
  <2>1. largestObserved \in Covered(ranges) /\ \A n \in Covered(ranges) : n <= largestObserved
    BY DEF IInv, LargestKept
  <2> QED BY <2>1, LargestIsLast DEF IInv, TypeOK
<1> QED BY <1>1, InductiveInvariant, PTL

\* A retransmittable packet without an ACK frame keeps one due.
THEOREM AckStaysDue == Spec => []RetransmittableIsDue
<1>1. IInv => RetransmittableIsDue
  BY DEF IInv
<1> QED BY <1>1, InductiveInvariant, PTL

\* The interval list implements a set of numbers, for every bound on them: each packet does
\* to the list what Receive does to the set, the error is GiveUp, and an ACK frame a stutter.
THEOREM ListImplementsSet == Spec => ImplementsReceivedNumbers
<1>1. Init => Reported!Init
  BY EmptyCovers DEF Init, Reported!Init
<1>2. IInv /\ [Next]_vars => [Reported!Next]_(Reported!vars)
  <2> SUFFICES ASSUME IInv, [Next]_vars
               PROVE  Reported!Next \/ UNCHANGED Reported!vars
    OBVIOUS
  <2>1. ASSUME NEW p \in Numbers, NEW retransmittable \in BOOLEAN, NEW leastUnacked \in 0..p,
               HandlePacket(p, retransmittable, leastUnacked)
        PROVE  Reported!Next
    <3>1. Covered(ranges)' = NumbersAfter(p, leastUnacked)
      BY <2>1, ListAfterPacket DEF IInv, Represents
    <3>2. Reported!Receive(p, leastUnacked)
      BY <2>1, <3>1 DEF HandlePacket, NumbersAfter, Reported!Receive
    <3> QED BY <3>2 DEF Reported!Next, Numbers
  <2>2. ASSUME NEW p \in Numbers, TooManyRanges(p)
        PROVE  Reported!Next
    BY <2>2 DEF TooManyRanges, Reported!Next, Reported!GiveUp
  <2>3. CASE GetAckFrame
    BY <2>3 DEF GetAckFrame, Reported!vars
  <2>4. CASE UNCHANGED vars
    BY <2>4 DEF vars, Reported!vars
  <2> QED BY <2>1, <2>2, <2>3, <2>4 DEF Next
<1> QED BY <1>1, <1>2, InductiveInvariant, PTL DEF Spec, ImplementsReceivedNumbers, Reported!Spec

=============================================================================
