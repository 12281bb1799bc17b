---------------------- MODULE StreamFrameSorterProofs ----------------------
(***************************************************************************)
(* The four invariants of StreamFrameSorter, for streams of every length   *)
(* and every limit on the gaps.                                            *)
(*                                                                         *)
(* Push leaves frames in the queue that newer ones have overtaken, so what *)
(* the reader will find is not every queued frame: it is a chain of them,  *)
(* each ending where the next one or a gap begins.  Which frames are in    *)
(* the chain is not written down anywhere in the code; the invariant says  *)
(* that there is such a chain.                                             *)
(***************************************************************************)
EXTENDS StreamFrameSorter, FiniteSetTheorems, SequenceTheorems, WellFoundedInduction, TLAPS

FrameEnd(o) == o + queuedFrames[o].Len

Gap == [Start : 0..StreamLength, End : 0..MaxByteCount]
QueuedFrame == [first : 0..StreamLength, Len : 0..StreamLength, FinBit : BOOLEAN]

Typing ==
  /\ gaps \subseteq Gap
  /\ DOMAIN queuedFrames \subseteq 0..StreamLength
  /\ \A o \in DOMAIN queuedFrames : queuedFrames[o] \in QueuedFrame
  /\ readPosition \in 0..StreamLength
  /\ readOffset \in 0..StreamLength
  /\ received \subseteq 0..(StreamLength - 1)

\* No gap is empty, two gaps do not touch, none lies behind the reader, and the last one,
\* which stands for the unknown end of the stream, stays.
GapsApart ==
  /\ \A g \in gaps : g.Start < g.End /\ readPosition <= g.Start
  /\ \A g, h \in gaps : g = h \/ g.End < h.Start \/ h.End < g.Start
  /\ \E g \in gaps : g.End = MaxByteCount

\* A queued frame, overtaken or not, has the bytes its offset and length name.
QueueSound ==
  \A o \in DOMAIN queuedFrames :
    /\ queuedFrames[o].first = o
    /\ FrameEnd(o) <= StreamLength
    /\ \A n \in o..(FrameEnd(o) - 1) : n \in received
    /\ queuedFrames[o].Len = 0 => o = StreamLength /\ queuedFrames[o].FinBit = TRUE

GapStarts == {g.Start : g \in gaps}

\* The frames at the offsets C tile what was received and not read: each ends where the
\* next one or a gap begins, and one begins at the reader and behind every gap.  Without
\* a FIN of its own, the frame with the last byte has the FinBit.
Tiles(C) ==
  /\ C \subseteq DOMAIN queuedFrames
  /\ \A o \in C : o >= readPosition /\ o < StreamLength /\ FrameEnd(o) \in C \cup GapStarts
  /\ \A o, q \in C : o < q => FrameEnd(o) <= q
  /\ \A g \in gaps : g.End \in C \cup {MaxByteCount}
  /\ readPosition \in C \cup GapStarts
  /\ finAlone = FALSE => \A o \in C : FrameEnd(o) = StreamLength => queuedFrames[o].FinBit = TRUE

Chained == failed = FALSE => \E C \in SUBSET DOMAIN queuedFrames : Tiles(C)

\* A frame that is partly read is still at the reader's position.
ReadInFrame ==
  /\ readPosition <= readOffset
  /\ readPosition < readOffset =>
       readPosition \in DOMAIN queuedFrames /\ readOffset < FrameEnd(readPosition)

\* A FIN of its own stays queued until it is read; the other one was read with the last byte.
FinHeld ==
  /\ finAlone = TRUE /\ finReceived = TRUE /\ failed = FALSE =>
       finishedReading = TRUE \/ StreamLength \in DOMAIN queuedFrames
  /\ finAlone = FALSE /\ readPosition = StreamLength => finishedReading = TRUE

Booleans ==
  /\ finAlone \in BOOLEAN
  /\ finishedReading \in BOOLEAN
  /\ failed \in BOOLEAN
  /\ finReceived \in BOOLEAN

IInv ==
  /\ Booleans
  /\ Typing
  /\ GapsApart
  /\ GapsExact
  /\ QueueSound
  /\ Chained
  /\ ReadInFrame
  /\ FinHeld
  /\ DeliveredInOrder

-----------------------------------------------------------------------------
(* Gaps. *)

\* A set of naturals with an upper bound has a largest and a smallest element.
LEMMA ExtremeNumbers ==
  ASSUME NEW n \in Nat, NEW S \in SUBSET (0..n), S # {}
  PROVE  /\ \E m \in S : \A x \in S : x <= m
         /\ \E m \in S : \A x \in S : m <= x
<1> DEFINE above(x) == {y \in S : y >= x}
           below(x) == {y \in S : y <= x}
<1>1. IsFiniteSet(S)
  <2>1. IsFiniteSet(0..n)
    BY FS_Interval
  <2> QED BY <2>1, FS_Subset
<1>2. FiniteSubsetsOf(S) = SUBSET S
  BY <1>1, FS_FiniteSubsetsOfFinite
<1>3. IsWellFoundedOn(StrictSubsetOrdering(S), SUBSET S)
  BY <1>2, FS_StrictSubsetOrderingWellFounded
<1>4. \A z \in S : z \in Nat
  OBVIOUS
<1>5. \E m \in S : \A y \in S : y <= m
  <2> DEFINE family == {above(x) : x \in S}
  <2>1. family \subseteq SUBSET S /\ family # {}
    OBVIOUS
  <2>2. PICK T \in family : \A U \in family : ~(<<U, T>> \in StrictSubsetOrdering(S))
    <3> HIDE DEF family
    <3> QED BY <1>3, <2>1, WFMin
  <2>3. PICK x \in S : T = above(x)
    BY <2>2
  <2>4. \A y \in S : y <= x
    <3> SUFFICES ASSUME NEW y \in S, y > x
                 PROVE  FALSE
      BY <1>4
    <3>1. above(y) \subseteq above(x) /\ x \in above(x) /\ x \notin above(y)
      <4>1. \A z \in above(y) : z \in S /\ z >= x
        BY <1>4
      <4>2. x >= x /\ ~(x >= y)
        BY <1>4
      <4> QED BY <4>1, <4>2
    <3>2. <<above(y), T>> \in StrictSubsetOrdering(S)
      BY <2>3, <3>1 DEF StrictSubsetOrdering
    <3> QED BY <2>2, <3>2
  <2> QED BY <2>4
<1>6. \E m \in S : \A y \in S : m <= y
  <2> DEFINE family == {below(x) : x \in S}
  <2>1. family \subseteq SUBSET S /\ family # {}
    OBVIOUS
  <2>2. PICK T \in family : \A U \in family : ~(<<U, T>> \in StrictSubsetOrdering(S))
    <3> HIDE DEF family
    <3> QED BY <1>3, <2>1, WFMin
  <2>3. PICK x \in S : T = below(x)
    BY <2>2
  <2>4. \A y \in S : x <= y
    <3> SUFFICES ASSUME NEW y \in S, y < x
                 PROVE  FALSE
      BY <1>4
    <3>1. below(y) \subseteq below(x) /\ x \in below(x) /\ x \notin below(y)
      <4>1. \A z \in below(y) : z \in S /\ z <= x
        BY <1>4
      <4>2. x <= x /\ ~(x <= y)
        BY <1>4
      <4> QED BY <4>1, <4>2
    <3>2. <<below(y), T>> \in StrictSubsetOrdering(S)
      BY <2>3, <3>1 DEF StrictSubsetOrdering
    <3> QED BY <2>2, <3>2
  <2> QED BY <2>4
<1> QED BY <1>5, <1>6

\* Max and Min of two integers.
LEMMA MaxMinOfTwo ==
  ASSUME NEW a \in Int, NEW b \in Int
  PROVE  /\ Max({a, b}) = IF a >= b THEN a ELSE b
         /\ Min({a, b}) = IF a <= b THEN a ELSE b
<1>1. \E x \in {a, b} : \A y \in {a, b} : x >= y
  OBVIOUS
<1>2. \E x \in {a, b} : \A y \in {a, b} : x <= y
  OBVIOUS
<1>3. Max({a, b}) \in {a, b} /\ \A y \in {a, b} : Max({a, b}) >= y
  BY <1>1 DEF Max
<1>4. Min({a, b}) \in {a, b} /\ \A y \in {a, b} : Min({a, b}) <= y
  BY <1>2 DEF Min
<1> QED BY <1>3, <1>4

\* The ends of the gaps are integers.
LEMMA GapType ==
  ASSUME Typing, NEW g \in gaps
  PROVE  /\ g.Start \in Int /\ 0 <= g.Start /\ g.Start <= StreamLength
         /\ g.End \in Int /\ 0 <= g.End /\ g.End <= StreamLength + 1
         /\ StreamLength \in Int /\ MaxByteCount = StreamLength + 1
         /\ g = [Start |-> g.Start, End |-> g.End]
<1>1. g \in Gap
  BY DEF Typing
<1>2. g.Start \in 0..StreamLength /\ g.End \in 0..MaxByteCount /\ g = [Start |-> g.Start, End |-> g.End]
  BY <1>1 DEF Gap
<1> QED BY <1>2, SorterAssumption DEF MaxByteCount

\* Push finds the gap it looks for from the front.
LEMMA FirstGapFacts ==
  ASSUME Typing, GapsApart, NEW start \in Int, start <= StreamLength
  PROVE  /\ FirstGap(start) \in gaps
         /\ FirstGap(start).End >= start
         /\ \A h \in gaps : h.End >= start => FirstGap(start).Start <= h.Start
<1> DEFINE S == {g.Start : g \in {h \in gaps : h.End >= start}}
<1>1. PICK g \in gaps : g.End = MaxByteCount
  BY DEF GapsApart
<1>2. g.End >= start
  BY <1>1, GapType
<1>3. S # {} /\ S \in SUBSET (0..StreamLength) /\ StreamLength \in Nat
  BY <1>2, GapType, SorterAssumption
<1>4. PICK m \in S : \A x \in S : m <= x
  <2> HIDE DEF S
  <2> QED BY <1>3, ExtremeNumbers
<1>5. PICK f \in gaps : f.End >= start /\ f.Start = m
  BY <1>4
<1>6. \A h \in gaps : h.End >= start => f.Start <= h.Start
  BY <1>4, <1>5
<1>7. \E k \in gaps : k.End >= start /\ \A h \in gaps : h.End >= start => k.Start <= h.Start
  BY <1>5, <1>6
<1> QED BY <1>7 DEF FirstGap

\* And the one it looks for from the back.
LEMMA LastGapFacts ==
  ASSUME Typing, NEW end \in Int, NEW g \in gaps, g.Start < end
  PROVE  /\ LastGap(end) \in gaps
         /\ LastGap(end).Start < end
         /\ \A h \in gaps : h.Start < end => h.Start <= LastGap(end).Start
<1> DEFINE S == {k.Start : k \in {h \in gaps : h.Start < end}}
<1>1. S # {} /\ S \in SUBSET (0..StreamLength) /\ StreamLength \in Nat
  <2>1. \A k \in gaps : k.Start \in 0..StreamLength
    BY GapType
  <2>2. g.Start \in S
    OBVIOUS
  <2> QED BY <2>1, <2>2, SorterAssumption
<1>2. PICK m \in S : \A x \in S : x <= m
  <2> HIDE DEF S
  <2> QED BY <1>1, ExtremeNumbers
<1>3. PICK f \in gaps : f.Start < end /\ f.Start = m
  BY <1>2
<1>4. \A h \in gaps : h.Start < end => h.Start <= f.Start
  BY <1>2, <1>3
<1>5. \E k \in gaps : k.Start < end /\ \A h \in gaps : h.Start < end => h.Start <= k.Start
  BY <1>3, <1>4
<1> QED BY <1>5 DEF LastGap

\* A byte is missing exactly if it lies in a gap.
LEMMA MissingIffInGap ==
  ASSUME Typing, GapsExact, NEW n \in 0..StreamLength
  PROVE  n \notin received <=> \E g \in gaps : g.Start <= n /\ n < g.End
<1>1. n \in 0..(MaxByteCount - 1)
  BY SorterAssumption DEF MaxByteCount
<1>2. n \notin received <=> n \in UNION {g.Start..(g.End - 1) : g \in gaps}
  BY <1>1 DEF GapsExact
<1>3. \A g \in gaps : n \in g.Start..(g.End - 1) <=> g.Start <= n /\ n < g.End
  BY GapType
<1> QED BY <1>2, <1>3

-----------------------------------------------------------------------------
(* What Push does with a frame that brings something new. *)

\* The bytes from start up to end, which reach from one gap to another and are all of the
\* frame that was missing.
Fills(frame, from, to, start, end) ==
  /\ from \in gaps /\ to \in gaps
  /\ from = to \/ from.End < to.Start
  /\ start \in Int /\ end \in Int
  /\ from.Start <= start /\ start < from.End
  /\ to.Start < end /\ end <= to.End
  /\ start < end /\ end <= StreamLength
  /\ frame.Offset <= start /\ end <= frame.Offset + frame.Len
  /\ \A n \in frame.Offset..(frame.Offset + frame.Len - 1) :
       n \notin received => start <= n /\ n < end

\* The frames the peer sends.
LEMMA FrameType ==
  ASSUME NEW frame \in Frames
  PROVE  /\ frame.Offset \in Int /\ 0 <= frame.Offset
         /\ frame.Len \in Int /\ 0 <= frame.Len
         /\ frame.Offset + frame.Len <= StreamLength
         /\ StreamLength \in Int /\ 1 <= StreamLength
         /\ frame.FinBit \in BOOLEAN
         /\ frame.Len = 0 => finAlone = TRUE /\ frame.Offset = StreamLength /\ frame.FinBit = TRUE
BY SorterAssumption DEF Frames

\* With a FIN of its own the peer sets no other; else it is on the frame with the last byte.
LEMMA FrameFin ==
  ASSUME NEW frame \in Frames, frame.Len > 0, finAlone = FALSE,
         frame.Offset + frame.Len = StreamLength
  PROVE  frame.FinBit = TRUE
BY FrameType DEF Frames

\* The frames in the queue.
LEMMA QueueType ==
  ASSUME Typing, NEW o \in DOMAIN queuedFrames
  PROVE  /\ o \in Int /\ 0 <= o /\ o <= StreamLength
         /\ queuedFrames[o].Len \in Int /\ 0 <= queuedFrames[o].Len
         /\ FrameEnd(o) \in Int /\ FrameEnd(o) = o + queuedFrames[o].Len
         /\ queuedFrames[o].FinBit \in BOOLEAN
<1>1. o \in 0..StreamLength /\ queuedFrames[o] \in QueuedFrame
  BY DEF Typing
<1> QED BY <1>1, SorterAssumption DEF QueuedFrame, FrameEnd

\* A frame behind a gap is queued under the end of the gap, and it is not empty.
LEMMA BehindGap ==
  ASSUME Typing, GapsApart, GapsExact, QueueSound, NEW C, Tiles(C), NEW g \in gaps, g.End <= StreamLength
  PROVE  g.End \in C /\ g.End \in DOMAIN queuedFrames /\ g.End < StreamLength
BY GapType DEF Tiles

\* Nothing queued reaches into a gap.
LEMMA QueueOutsideGaps ==
  ASSUME Typing, GapsExact, QueueSound, NEW o \in DOMAIN queuedFrames, NEW g \in gaps,
         NEW n \in Int, o <= n, n < FrameEnd(o)
  PROVE  ~(g.Start <= n /\ n < g.End)
<1>1. n \in received
  BY QueueType DEF QueueSound
<1>2. n \in 0..StreamLength
  BY <1>1, SorterAssumption DEF Typing
<1> QED BY <1>1, <1>2, MissingIffInGap

\* The bytes of the frame before NewStart were there.
LEMMA NewStartFacts ==
  ASSUME Typing, QueueSound, NEW frame \in Frames, frame.Len > 0
  PROVE  /\ NewStart(frame) \in Int /\ NewStart(frame) >= frame.Offset
         /\ \A n \in Int : frame.Offset <= n /\ n < NewStart(frame) => n \in received
         /\ frame.Offset \in DOMAIN queuedFrames
              => NewStart(frame) = FrameEnd(frame.Offset) /\ NewStart(frame) > frame.Offset
         /\ frame.Offset \notin DOMAIN queuedFrames => NewStart(frame) = frame.Offset
<1>1. /\ frame.Offset \in Int /\ frame.Len \in Int /\ StreamLength \in Int
      /\ frame.Offset + frame.Len <= StreamLength
  BY FrameType
<1>2. CASE frame.Offset \notin DOMAIN queuedFrames
  <2>1. NewStart(frame) = frame.Offset
    BY <1>2 DEF NewStart
  <2>2. \A n \in Int : ~(frame.Offset <= n /\ n < frame.Offset)
    BY <1>1
  <2> QED BY <1>1, <1>2, <2>1, <2>2
<1>3. CASE frame.Offset \in DOMAIN queuedFrames
  <2>1. NewStart(frame) = FrameEnd(frame.Offset) /\ NewStart(frame) \in Int
    BY <1>3, QueueType DEF NewStart, FrameEnd
  <2>2. frame.Offset # StreamLength
    BY <1>1
  <2>3. queuedFrames[frame.Offset].Len > 0
    BY <1>3, <2>2, QueueType DEF QueueSound
  <2>4. \A n \in frame.Offset..(FrameEnd(frame.Offset) - 1) : n \in received
    BY <1>3 DEF QueueSound
  <2>5. FrameEnd(frame.Offset) > frame.Offset /\ FrameEnd(frame.Offset) \in Int
    BY <1>3, <2>3, QueueType
  <2>6. \A n \in Int : frame.Offset <= n /\ n < FrameEnd(frame.Offset) => n \in received
    BY <1>1, <2>4, <2>5
  <2> QED BY <1>1, <1>3, <2>1, <2>5, <2>6
<1> QED BY <1>2, <1>3

\* A frame that is not a duplicate fills a part of the gaps.
LEMMA PushFills ==
  ASSUME Typing, GapsApart, GapsExact, QueueSound, NEW C, Tiles(C),
         NEW frame \in Frames, frame.Len > 0, ~IsDuplicate(frame)
  PROVE  LET from  == FirstGap(NewStart(frame))
             to    == LastGap(frame.Offset + frame.Len)
             start == Max({NewStart(frame), from.Start})
             end   == Min({frame.Offset + frame.Len, to.End})
         IN  Fills(frame, from, to, start, end)
<1> DEFINE first == NewStart(frame)
           last  == frame.Offset + frame.Len
           from  == FirstGap(first)
           to    == LastGap(last)
           start == Max({first, from.Start})
           end   == Min({last, to.End})
<1>1. /\ frame.Offset \in Int /\ 0 <= frame.Offset /\ frame.Len \in Int
      /\ last \in Int /\ last <= StreamLength /\ StreamLength \in Int
  <2> HIDE DEF first, from, to, start, end
  <2>1. /\ frame.Offset \in Int /\ 0 <= frame.Offset /\ frame.Len \in Int
        /\ frame.Offset + frame.Len <= StreamLength /\ StreamLength \in Int
    BY FrameType
  <2> QED BY <2>1
<1>2. first \in Int /\ first >= frame.Offset
  BY NewStartFacts
<1>3. first < last /\ from.Start < last
  <2>1. ~(first >= last \/ from.Start >= last)
    BY DEF IsDuplicate
  <2>2. from \in gaps
    <3>1. first < last
      BY <1>1, <1>2, <2>1
    <3> QED BY <1>1, <1>2, <3>1, FirstGapFacts
  <2> QED BY <1>1, <1>2, <2>1, <2>2, GapType
<1>4. from \in gaps /\ from.End >= first /\ \A h \in gaps : h.End >= first => from.Start <= h.Start
  BY <1>1, <1>2, <1>3, FirstGapFacts
<1>5. to \in gaps /\ to.Start < last /\ \A h \in gaps : h.Start < last => h.Start <= to.Start
  BY <1>1, <1>3, <1>4, LastGapFacts
<1>6. start = IF first >= from.Start THEN first ELSE from.Start
  BY <1>2, <1>4, GapType, MaxMinOfTwo
<1>7. end = IF last <= to.End THEN last ELSE to.End
  BY <1>1, <1>5, GapType, MaxMinOfTwo
<1> HIDE DEF first, last, from, to, start, end
<1>8. /\ from.Start \in Int /\ from.End \in Int /\ to.Start \in Int /\ to.End \in Int
      /\ from.Start < from.End /\ to.Start < to.End
  BY <1>4, <1>5, GapType DEF GapsApart
<1>9. from = to \/ from.End < to.Start
  <2>1. from.Start <= to.Start
    BY <1>3, <1>4, <1>5
  <2>2. from = to \/ from.End < to.Start \/ to.End < from.Start
    BY <1>4, <1>5 DEF GapsApart
  <2> QED BY <1>8, <2>1, <2>2
<1>10. first < from.End
  <2> SUFFICES ASSUME first = from.End
               PROVE  FALSE
    BY <1>2, <1>4, <1>8
  <2>1. from.End \in DOMAIN queuedFrames
    BY <1>1, <1>2, <1>3, <1>4, BehindGap
  <2>2. CASE frame.Offset \in DOMAIN queuedFrames
    <3>1. first = FrameEnd(frame.Offset) /\ first > frame.Offset
      BY <2>2, NewStartFacts DEF first
    <3>2. frame.Offset <= first - 1 /\ first - 1 < FrameEnd(frame.Offset) /\ first - 1 \in Int
      BY <1>1, <1>2, <3>1
    <3>3. from.Start <= first - 1 /\ first - 1 < from.End
      BY <1>2, <1>8
    <3> QED BY <1>4, <2>2, <3>2, <3>3, QueueOutsideGaps
  <2>3. CASE frame.Offset \notin DOMAIN queuedFrames
    BY <2>1, <2>3, NewStartFacts DEF first
  <2> QED BY <2>2, <2>3
<1>11. start \in Int /\ end \in Int /\ from.Start <= start /\ start < from.End /\ first <= start
       /\ to.Start < end /\ end <= to.End /\ end <= last
  BY <1>1, <1>2, <1>5, <1>6, <1>7, <1>8, <1>10
<1>12. start < end
  BY <1>1, <1>2, <1>3, <1>6, <1>7, <1>8, <1>9, <1>10
<1>13. ASSUME NEW n \in frame.Offset..(frame.Offset + frame.Len - 1), n \notin received
       PROVE  start <= n /\ n < end
  <2>1. n \in Int /\ frame.Offset <= n /\ n < last
    BY <1>1, <1>13 DEF last
  <2>2. first <= n
    BY <1>2, <1>13, <2>1, NewStartFacts DEF first
  <2>3. n \in 0..StreamLength
    BY <1>1, <2>1
  <2>4. PICK g \in gaps : g.Start <= n /\ n < g.End
    BY <1>13, <2>3, MissingIffInGap
  <2>5. g.Start \in Int /\ g.End \in Int
    BY GapType
  <2>6. from.Start <= g.Start
    BY <1>2, <1>4, <2>1, <2>2, <2>4, <2>5
  <2>7. g.Start <= to.Start
    BY <1>1, <1>5, <2>1, <2>4, <2>5
  <2>8. g = to \/ g.End < to.Start
    <3>1. g = to \/ g.End < to.Start \/ to.End < g.Start
      BY <1>5 DEF GapsApart
    <3> QED BY <1>8, <2>5, <2>7, <3>1
  <2> QED BY <1>1, <1>2, <1>6, <1>7, <1>8, <2>1, <2>2, <2>4, <2>5, <2>6, <2>8
<1>14. Fills(frame, from, to, start, end)
  <2>1. end <= StreamLength /\ frame.Offset <= start /\ end <= frame.Offset + frame.Len
    BY <1>1, <1>2, <1>11 DEF last
  <2> QED BY <1>4, <1>5, <1>9, <1>11, <1>12, <1>13, <2>1 DEF Fills
<1> QED BY <1>14 DEF first, last, from, to, start, end

\* What the gaps are after Push.
LEMMA InFilled ==
  ASSUME NEW from, NEW to, NEW start, NEW end, NEW g
  PROVE  g \in Filled(from, to, start, end) <=>
           \/ g \in gaps /\ (g.Start < from.Start \/ g.Start > to.Start)
           \/ start > from.Start /\ g = [Start |-> from.Start, End |-> start]
           \/ end < to.End /\ g = [Start |-> end, End |-> to.End]
BY DEF Filled

\* Two gaps that overlap are the same.
LEMMA GapOverlap ==
  ASSUME Typing, GapsApart, NEW g \in gaps, NEW h \in gaps, g.Start < h.End, h.Start < g.End
  PROVE  g = h
BY GapType DEF GapsApart

\* The integers of a part that is filled.
LEMMA FillsType ==
  ASSUME Typing, GapsApart, NEW frame, NEW from, NEW to, NEW start, NEW end,
         Fills(frame, from, to, start, end)
  PROVE  /\ from \in gaps /\ to \in gaps
         /\ from = to \/ from.End < to.Start
         /\ from.Start \in Int /\ from.End \in Int /\ to.Start \in Int /\ to.End \in Int
         /\ start \in Int /\ end \in Int /\ StreamLength \in Int /\ MaxByteCount = StreamLength + 1
         /\ 0 <= from.Start /\ from.Start <= start /\ start < from.End
         /\ to.Start < end /\ end <= to.End /\ to.End <= StreamLength + 1
         /\ start < end /\ end <= StreamLength
         /\ from.End <= to.End /\ from.Start <= to.Start
<1>1. from \in gaps /\ to \in gaps
  BY DEF Fills
<1>2. /\ from.Start \in Int /\ from.End \in Int /\ to.Start \in Int /\ to.End \in Int
      /\ StreamLength \in Int /\ MaxByteCount = StreamLength + 1
      /\ 0 <= from.Start /\ to.End <= StreamLength + 1
  BY <1>1, GapType
<1>3. from.Start < from.End /\ to.Start < to.End
  BY <1>1 DEF GapsApart
<1> QED BY <1>1, <1>2, <1>3 DEF Fills

\* A gap that stays lies before or behind the part that is filled.
LEMMA KeptGap ==
  ASSUME Typing, GapsApart, NEW frame, NEW from, NEW to, NEW start, NEW end,
         Fills(frame, from, to, start, end), NEW g \in gaps
  PROVE  /\ g.Start < from.Start => g.End < from.Start
         /\ g.Start > to.Start => to.End < g.Start
<1>1. g.Start \in Int /\ g.End \in Int /\ g.Start < g.End
  BY GapType DEF GapsApart
<1>2. g = from \/ g.End < from.Start \/ from.End < g.Start
  BY FillsType DEF GapsApart
<1>3. g = to \/ g.End < to.Start \/ to.End < g.Start
  BY FillsType DEF GapsApart
<1> HIDE DEF Typing, GapsApart
<1>4. /\ from.Start \in Int /\ from.End \in Int /\ to.Start \in Int /\ to.End \in Int
      /\ from.Start < from.End
  BY FillsType
<1> QED BY <1>1, <1>2, <1>3, <1>4

\* The gaps stay gaps, and the bytes in them are those that were in one and are not filled.
LEMMA FilledGaps ==
  ASSUME Typing, GapsApart, NEW frame, NEW from, NEW to, NEW start, NEW end,
         Fills(frame, from, to, start, end)
  PROVE  /\ \A g \in Filled(from, to, start, end) :
              g \in Gap /\ g.Start < g.End /\ readPosition <= g.Start
         /\ \A g, h \in Filled(from, to, start, end) :
              g = h \/ g.End < h.Start \/ h.End < g.Start
         /\ \E g \in Filled(from, to, start, end) : g.End = MaxByteCount
         /\ \A n \in Int :
              (\E g \in Filled(from, to, start, end) : g.Start <= n /\ n < g.End)
                <=> (\E g \in gaps : g.Start <= n /\ n < g.End) /\ ~(start <= n /\ n < end)
<1> DEFINE G     == Filled(from, to, start, end)
           left  == [Start |-> from.Start, End |-> start]
           right == [Start |-> end, End |-> to.End]
           kept(g) == g \in gaps /\ (g.Start < from.Start \/ g.Start > to.Start)
<1>1. \A g : g \in G <=> kept(g) \/ (start > from.Start /\ g = left) \/ (end < to.End /\ g = right)
  BY InFilled
<1> HIDE DEF G
<1>2. /\ left.Start = from.Start /\ left.End = start
      /\ right.Start = end /\ right.End = to.End
  OBVIOUS
<1>3. ASSUME NEW g, kept(g)
      PROVE  /\ g \in gaps /\ g.Start \in Int /\ g.End \in Int /\ g.Start < g.End
             /\ g.End < from.Start \/ to.End < g.Start
  BY <1>3, KeptGap, GapType DEF GapsApart
<1>4. left \in Gap /\ right \in Gap
  BY FillsType DEF Gap
<1> HIDE DEF left, right, kept
<1>5. ASSUME NEW g \in G
      PROVE  g \in Gap /\ g.Start < g.End /\ readPosition <= g.Start
  <2>1. CASE kept(g)
    BY <1>3, <2>1 DEF GapsApart, Typing
  <2>2. CASE start > from.Start /\ g = left
    <3>1. readPosition <= from.Start
      BY FillsType DEF GapsApart
    <3> QED BY <1>2, <1>4, <2>2, <3>1, FillsType
  <2>3. CASE end < to.End /\ g = right
    <3>1. readPosition <= from.Start /\ readPosition \in Int
      BY FillsType DEF GapsApart, Typing
    <3> QED BY <1>2, <1>4, <2>3, <3>1, FillsType
  <2> QED BY <1>1, <2>1, <2>2, <2>3
<1>6. ASSUME NEW g \in G, NEW h \in G
      PROVE  g = h \/ g.End < h.Start \/ h.End < g.Start
  <2>1. CASE kept(g) /\ kept(h)
    BY <1>3, <2>1 DEF GapsApart
  <2>2. CASE kept(g) /\ ~kept(h)
    BY <1>1, <1>2, <1>3, <2>2, FillsType
  <2>3. CASE ~kept(g) /\ kept(h)
    BY <1>1, <1>2, <1>3, <2>3, FillsType
  <2>4. CASE ~kept(g) /\ ~kept(h)
    BY <1>1, <1>2, <2>4, FillsType
  <2> QED BY <2>1, <2>2, <2>3, <2>4
<1>7. \E g \in G : g.End = MaxByteCount
  <2>1. PICK z \in gaps : z.End = MaxByteCount
    BY DEF GapsApart
  <2>2. CASE z = to
    BY <1>1, <1>2, <2>1, <2>2, FillsType
  <2>3. CASE z # to
    <3>1. z.Start \in Int /\ (z.End < to.Start \/ to.End < z.Start)
      BY <2>3, FillsType, GapType DEF GapsApart
    <3>2. z.Start > to.Start
      BY <2>1, <3>1, FillsType
    <3> QED BY <1>1, <2>1, <3>2 DEF kept
  <2> QED BY <2>2, <2>3
<1>8. ASSUME NEW n \in Int
      PROVE  (\E g \in G : g.Start <= n /\ n < g.End)
                <=> (\E g \in gaps : g.Start <= n /\ n < g.End) /\ ~(start <= n /\ n < end)
  <2>1. ASSUME NEW g \in G, g.Start <= n, n < g.End
        PROVE  (\E h \in gaps : h.Start <= n /\ n < h.End) /\ ~(start <= n /\ n < end)
    <3>1. CASE kept(g)
      BY <1>3, <2>1, <3>1, FillsType
    <3>2. CASE start > from.Start /\ g = left
      BY <1>2, <2>1, <3>2, FillsType
    <3>3. CASE end < to.End /\ g = right
      BY <1>2, <2>1, <3>3, FillsType
    <3> QED BY <1>1, <3>1, <3>2, <3>3
  <2>2. ASSUME NEW h \in gaps, h.Start <= n, n < h.End, ~(start <= n /\ n < end)
        PROVE  \E g \in G : g.Start <= n /\ n < g.End
    <3>1. h.Start \in Int /\ h.End \in Int
      BY GapType
    <3>2. CASE kept(h)
      BY <1>1, <2>2, <3>2
    <3>3. CASE ~kept(h) /\ n < start
      <4>1. from.Start <= h.Start
        BY <3>1, <3>3, FillsType DEF kept
      <4>2. h.Start < from.End /\ from.Start < h.End
        BY <2>2, <3>1, <3>3, <4>1, FillsType
      <4>3. h = from
        BY <4>2, FillsType, GapOverlap
      <4> QED BY <1>1, <1>2, <2>2, <3>3, <4>3, FillsType
    <3>4. CASE ~kept(h) /\ n >= end
      <4>1. h.Start <= to.Start
        BY <3>1, <3>4, FillsType DEF kept
      <4>2. h.Start < to.End /\ to.Start < h.End
        BY <2>2, <3>1, <3>4, <4>1, FillsType
      <4>3. h = to
        BY <4>2, FillsType, GapOverlap
      <4> QED BY <1>1, <1>2, <2>2, <3>4, <4>3, FillsType
    <3> QED BY <2>2, <3>2, <3>3, <3>4, FillsType
  <2> QED BY <2>1, <2>2
<1> QED BY <1>5, <1>6, <1>7, <1>8 DEF G

-----------------------------------------------------------------------------
(* A step of AddStreamFrame. *)

\* What Push leaves behind when it has filled start up to end.
Pushed(frame, from, to, start, end) ==
  /\ Fills(frame, from, to, start, end)
  /\ gaps' = Filled(from, to, start, end)
  /\ \A o : o \in DOMAIN queuedFrames' <=>
              \/ o \in DOMAIN queuedFrames /\ o \notin Covered(from, to)
              \/ failed' = FALSE /\ o = start
  /\ \A o \in DOMAIN queuedFrames' :
       o # start \/ failed' = TRUE => queuedFrames'[o] = queuedFrames[o]
  /\ failed' = FALSE => queuedFrames'[start] = Stored(frame, start, end)
  /\ failed' \in BOOLEAN

\* There are finitely many possible gaps.
LEMMA GapsFinite == IsFiniteSet(Gap)
<1> DEFINE ends     == (0..StreamLength) \X (0..MaxByteCount)
           gap      == [p \in ends |-> [Start |-> p[1], End |-> p[2]]]
           made     == {gap[p] : p \in ends}
<1>1. IsFiniteSet(0..StreamLength) /\ IsFiniteSet(0..MaxByteCount)
  BY FS_Interval, SorterAssumption DEF MaxByteCount
<1>2. IsFiniteSet(ends)
  BY <1>1, FS_Product
<1>3. Gap \subseteq made
  <2> SUFFICES ASSUME NEW g \in Gap
               PROVE  \E p \in ends : g = gap[p]
    OBVIOUS
  <2>1. <<g.Start, g.End>> \in ends /\ g = gap[<<g.Start, g.End>>]
    BY DEF Gap
  <2> QED BY <2>1
<1>4. gap \in Surjection(ends, made)
  <2>1. DOMAIN gap = ends /\ gap = [p \in ends |-> gap[p]]
    OBVIOUS
  <2> HIDE DEF ends, gap
  <2> QED BY <2>1 DEF Surjection
<1>5. IsFiniteSet(made)
  <2> HIDE DEF ends, gap, made
  <2> QED BY <1>2, <1>4, FS_Surjection
<1> QED BY <1>3, <1>5, FS_Subset

\* PushData does that.
LEMMA PushDataPushes ==
  ASSUME IInv, NEW frame \in Frames, AddStreamFrame(frame), PushData(frame)
  PROVE  \E from, to, start, end : Pushed(frame, from, to, start, end)
<1> DEFINE from  == FirstGap(NewStart(frame))
           to    == LastGap(frame.Offset + frame.Len)
           start == Max({NewStart(frame), from.Start})
           end   == Min({frame.Offset + frame.Len, to.End})
           queue == Dequeue(queuedFrames, Covered(from, to))
<1>1. failed = FALSE
  BY DEF AddStreamFrame, IInv, Booleans
<1>2. PICK C : Tiles(C)
  BY <1>1 DEF IInv, Chained
<1>3. frame.Len > 0 /\ ~IsDuplicate(frame)
  BY DEF PushData
<1>4. Fills(frame, from, to, start, end)
  BY <1>2, <1>3, PushFills DEF IInv
<1>5. /\ gaps' = Filled(from, to, start, end)
      /\ failed' = (Cardinality(gaps') > MaxStreamFrameSorterGaps)
      /\ queuedFrames' = IF failed' THEN queue
                         ELSE [o \in DOMAIN queue \cup {start} |->
                                 IF o = start THEN Stored(frame, start, end) ELSE queue[o]]
  BY DEF PushData
<1> HIDE DEF from, to, start, end
<1>6. /\ \A o : o \in DOMAIN queue <=> o \in DOMAIN queuedFrames /\ o \notin Covered(from, to)
      /\ \A o \in DOMAIN queue : queue[o] = queuedFrames[o]
  BY DEF Dequeue
<1> HIDE DEF queue
<1>7. CASE Cardinality(gaps') > MaxStreamFrameSorterGaps
  <2>1. failed' = TRUE
    BY <1>5, <1>7
  <2>2. queuedFrames' = queue
    BY <1>5, <2>1
  <2> QED BY <1>4, <1>5, <1>6, <2>1, <2>2 DEF Pushed
<1>8. CASE ~(Cardinality(gaps') > MaxStreamFrameSorterGaps)
  <2>1. failed' = FALSE
    <3>1. Cardinality(gaps') \in Nat /\ MaxStreamFrameSorterGaps \in Nat
      <4>1. gaps' \subseteq Gap
        BY <1>4, <1>5, FilledGaps DEF IInv
      <4>2. IsFiniteSet(gaps')
        BY <4>1, GapsFinite, FS_Subset
      <4> QED BY <4>2, FS_CardinalityType, SorterAssumption
    <3>2. failed' = (Cardinality(gaps') > MaxStreamFrameSorterGaps)
      BY <1>5
    <3>3. (Cardinality(gaps') > MaxStreamFrameSorterGaps) = FALSE
      BY <1>8, <3>1
    <3> QED BY <3>2, <3>3
  <2>2. queuedFrames' = [o \in DOMAIN queue \cup {start} |->
                           IF o = start THEN Stored(frame, start, end) ELSE queue[o]]
    BY <1>5, <2>1
  <2>3. \A o : o \in DOMAIN queuedFrames' <=> o \in DOMAIN queue \/ o = start
    BY <2>2
  <2>4. \A o \in DOMAIN queuedFrames' :
          queuedFrames'[o] = IF o = start THEN Stored(frame, start, end) ELSE queue[o]
    BY <2>2
  <2> HIDE DEF IInv
  <2>5. \A o \in DOMAIN queuedFrames' : o # start => queuedFrames'[o] = queuedFrames[o]
    BY <1>6, <2>3, <2>4
  <2>6. queuedFrames'[start] = Stored(frame, start, end)
    BY <2>3, <2>4
  <2>7. Pushed(frame, from, to, start, end)
    BY <1>4, <1>5, <1>6, <2>1, <2>3, <2>5, <2>6 DEF Pushed
  <2> QED BY <2>7
<1> QED BY <1>7, <1>8

\* The frames deleted lie behind the first byte that is filled and before the last.
LEMMA CoveredBetween ==
  ASSUME Typing, GapsApart, NEW frame, NEW from, NEW to, NEW start, NEW end,
         Fills(frame, from, to, start, end), NEW o \in Covered(from, to)
  PROVE  o \in Int /\ start < o /\ o < end
<1>1. PICK h \in gaps : from.Start <= h.Start /\ h.Start < to.Start /\ o = h.End
  BY DEF Covered
<1>2. h.Start \in Int /\ h.End \in Int
  BY GapType
<1>3. h = from \/ h.End < from.Start \/ from.End < h.Start
  BY FillsType DEF GapsApart
<1>4. h = to \/ h.End < to.Start \/ to.End < h.Start
  BY FillsType DEF GapsApart
<1>5. h.Start < h.End
  BY DEF GapsApart
<1> QED BY <1>1, <1>2, <1>3, <1>4, <1>5, FillsType

\* What is filled was missing at its first byte, and all of it has come now.
LEMMA PushedBytes ==
  ASSUME IInv, NEW frame \in Frames, AddStreamFrame(frame),
         NEW from, NEW to, NEW start, NEW end, Fills(frame, from, to, start, end)
  PROVE  /\ start \notin received
         /\ \A n \in 0..StreamLength :
              n \notin received' <=> n \notin received /\ ~(start <= n /\ n < end)
         /\ received \subseteq received' /\ received' \subseteq 0..(StreamLength - 1)
<1>1. Typing /\ GapsApart /\ GapsExact
  BY DEF IInv
<1>2. received' = received \cup frame.Offset..(frame.Offset + frame.Len - 1)
  BY DEF AddStreamFrame
<1>3. start \in 0..StreamLength
  BY <1>1, FillsType
<1>4. start \notin received
  BY <1>1, <1>3, FillsType, MissingIffInGap
<1>5. \A n \in 0..StreamLength : start <= n /\ n < end => n \in received'
  <2>1. frame.Offset \in Int /\ frame.Len \in Int /\ StreamLength \in Int
    BY FrameType
  <2>2. start \in Int /\ end \in Int /\ frame.Offset <= start /\ end <= frame.Offset + frame.Len
    BY DEF Fills
  <2>3. \A n \in 0..StreamLength :
          start <= n /\ n < end => n \in frame.Offset..(frame.Offset + frame.Len - 1)
    BY <2>1, <2>2
  <2> QED BY <1>2, <2>3
<1>6. \A n \in 0..StreamLength : n \notin received /\ ~(start <= n /\ n < end) => n \notin received'
  BY <1>2 DEF Fills
<1>7. received' \subseteq 0..(StreamLength - 1)
  <2>1. frame.Offset..(frame.Offset + frame.Len - 1) \subseteq 0..(StreamLength - 1)
    <3>1. /\ frame.Offset \in Int /\ 0 <= frame.Offset /\ frame.Len \in Int
          /\ frame.Offset + frame.Len <= StreamLength /\ StreamLength \in Int
      BY FrameType
    <3> QED BY <3>1
  <2> QED BY <1>1, <1>2, <2>1 DEF Typing
<1> QED BY <1>2, <1>4, <1>5, <1>6, <1>7

\* What the prover needs to know of the invariant's parts at once.
LEMMA SorterTypes ==
  ASSUME Typing
  PROVE  /\ readPosition \in Int /\ 0 <= readPosition /\ readPosition <= StreamLength
         /\ readOffset \in Int /\ 0 <= readOffset /\ readOffset <= StreamLength
         /\ StreamLength \in Int /\ 1 <= StreamLength
         /\ \A n \in received : n \in Int /\ 0 <= n /\ n < StreamLength
         /\ \A o \in DOMAIN queuedFrames : o \in Int
<1>1. readPosition \in 0..StreamLength /\ readOffset \in 0..StreamLength
  BY DEF Typing
<1>2. received \subseteq 0..(StreamLength - 1) /\ DOMAIN queuedFrames \subseteq 0..StreamLength
  BY DEF Typing
<1> QED BY <1>1, <1>2, SorterAssumption

\* Filling a part of the gaps keeps the gaps apart and exact.
LEMMA PushedGaps ==
  ASSUME IInv, NEW frame \in Frames, AddStreamFrame(frame),
         NEW from, NEW to, NEW start, NEW end, Pushed(frame, from, to, start, end)
  PROVE  gaps' \subseteq Gap /\ GapsApart' /\ GapsExact'
<1>1. Typing /\ GapsApart /\ GapsExact /\ Fills(frame, from, to, start, end)
  BY DEF IInv, Pushed
<1>2. gaps' = Filled(from, to, start, end) /\ readPosition' = readPosition
  BY DEF Pushed, AddStreamFrame
<1>3. gaps' \subseteq Gap
  BY <1>1, <1>2, FilledGaps
<1>4. GapsApart'
  BY <1>1, <1>2, FilledGaps DEF GapsApart
<1>5. GapsExact'
  <2> DEFINE inGap(n) == \E g \in gaps' : g.Start <= n /\ n < g.End
  <2>1. \A n \in 0..StreamLength : n \notin received' <=> inGap(n)
    <3> SUFFICES ASSUME NEW n \in 0..StreamLength
                 PROVE  n \notin received' <=> inGap(n)
      OBVIOUS
    <3>1. n \notin received' <=> n \notin received /\ ~(start <= n /\ n < end)
      BY <1>1, PushedBytes
    <3>2. n \notin received <=> \E g \in gaps : g.Start <= n /\ n < g.End
      BY <1>1, MissingIffInGap
    <3>3. n \in Int
      OBVIOUS
    <3>4. inGap(n) <=> (\E g \in gaps : g.Start <= n /\ n < g.End) /\ ~(start <= n /\ n < end)
      BY <1>1, <1>2, <3>3, FilledGaps
    <3> QED BY <3>1, <3>2, <3>4
  <2>2. \A g \in gaps' : \A n : n \in g.Start..(g.End - 1) => n \in 0..StreamLength /\ g.Start <= n /\ n < g.End
    <3> SUFFICES ASSUME NEW g \in gaps', NEW n \in g.Start..(g.End - 1)
                 PROVE  n \in 0..StreamLength /\ g.Start <= n /\ n < g.End
      OBVIOUS
    <3>1. g.Start \in 0..StreamLength /\ g.End \in 0..MaxByteCount
      BY <1>3 DEF Gap
    <3> QED BY <3>1, SorterAssumption DEF MaxByteCount
  <2>3. \A g \in gaps' : \A n \in 0..StreamLength : g.Start <= n /\ n < g.End => n \in g.Start..(g.End - 1)
    <3> SUFFICES ASSUME NEW g \in gaps', NEW n \in 0..StreamLength, g.Start <= n, n < g.End
                 PROVE  n \in g.Start..(g.End - 1)
      OBVIOUS
    <3>1. g.Start \in 0..StreamLength /\ g.End \in 0..MaxByteCount
      BY <1>3 DEF Gap
    <3> QED BY <3>1, SorterAssumption DEF MaxByteCount
  <2>4. 0..(MaxByteCount - 1) = 0..StreamLength
    BY SorterAssumption DEF MaxByteCount
  <2>5. UNION {g.Start..(g.End - 1) : g \in gaps'} = (0..StreamLength) \ received'
    BY <2>1, <2>2, <2>3
  <2>6. MaxByteCount' = MaxByteCount
    BY DEF MaxByteCount
  <2> QED BY <2>4, <2>5, <2>6 DEF GapsExact
<1> QED BY <1>3, <1>4, <1>5

\* What is queued has the bytes it names, also when it has just been cut.
LEMMA PushedQueue ==
  ASSUME IInv, NEW frame \in Frames, AddStreamFrame(frame),
         NEW from, NEW to, NEW start, NEW end, Pushed(frame, from, to, start, end)
  PROVE  Typing' /\ QueueSound'
<1>1. Typing /\ GapsApart /\ QueueSound /\ Fills(frame, from, to, start, end)
  BY DEF IInv, Pushed
<1>2. /\ start \in Int /\ end \in Int /\ 0 <= start /\ start < end /\ end <= StreamLength
      /\ StreamLength \in Int
  BY <1>1, FillsType
<1>3. received \subseteq received' /\ received' \subseteq 0..(StreamLength - 1)
  BY <1>1, PushedBytes
<1>4. \A n \in start..(end - 1) : n \in received'
  <2> SUFFICES ASSUME NEW n \in start..(end - 1)
               PROVE  n \in received'
    OBVIOUS
  <2>1. n \in 0..StreamLength /\ start <= n /\ n < end
    BY <1>2
  <2> QED BY <1>1, <2>1, PushedBytes
<1>5. readPosition' = readPosition /\ readOffset' = readOffset
  BY DEF AddStreamFrame
<1>6. ASSUME NEW o \in DOMAIN queuedFrames'
      PROVE  /\ o \in 0..StreamLength /\ queuedFrames'[o] \in QueuedFrame
             /\ queuedFrames'[o].first = o
             /\ o + queuedFrames'[o].Len <= StreamLength
             /\ \A n \in o..(o + queuedFrames'[o].Len - 1) : n \in received'
             /\ queuedFrames'[o].Len = 0 => o = StreamLength /\ queuedFrames'[o].FinBit = TRUE
  <2>1. CASE o # start \/ failed' = TRUE
    <3>1. o \in DOMAIN queuedFrames /\ queuedFrames'[o] = queuedFrames[o]
      BY <2>1 DEF Pushed
    <3>2. o \in 0..StreamLength /\ queuedFrames[o] \in QueuedFrame
      BY <1>1, <3>1 DEF Typing
    <3>3. /\ queuedFrames[o].first = o
          /\ o + queuedFrames[o].Len <= StreamLength
          /\ \A n \in o..(o + queuedFrames[o].Len - 1) : n \in received
          /\ queuedFrames[o].Len = 0 => o = StreamLength /\ queuedFrames[o].FinBit = TRUE
      <4>1. FrameEnd(o) = o + queuedFrames[o].Len /\ o \in Int /\ queuedFrames[o].Len \in Int
        BY <1>1, <3>1, QueueType
      <4>2. /\ queuedFrames[o].first = o
            /\ FrameEnd(o) <= StreamLength
            /\ \A n \in o..(FrameEnd(o) - 1) : n \in received
            /\ queuedFrames[o].Len = 0 => o = StreamLength /\ queuedFrames[o].FinBit = TRUE
        BY <1>1, <3>1 DEF QueueSound
      <4> QED BY <4>1, <4>2
    <3> QED BY <1>3, <3>1, <3>2, <3>3
  <2>2. CASE o = start /\ failed' = FALSE
    <3>1. queuedFrames'[o] = [first |-> start, Len |-> end - start, FinBit |-> frame.FinBit]
      BY <2>2 DEF Pushed, Stored
    <3>2. frame.FinBit \in BOOLEAN
      BY FrameType
    <3>3. o \in 0..StreamLength /\ start + (end - start) = end /\ end - start \in 0..StreamLength
      BY <1>2, <2>2
    <3>4. /\ queuedFrames'[o].first = o /\ queuedFrames'[o].Len = end - start
          /\ queuedFrames'[o].FinBit = frame.FinBit
      BY <2>2, <3>1
    <3>5. queuedFrames'[o] \in QueuedFrame
      BY <2>2, <3>1, <3>2, <3>3 DEF QueuedFrame
    <3>6. o + queuedFrames'[o].Len = end /\ queuedFrames'[o].Len # 0
      BY <1>2, <2>2, <3>4
    <3> QED BY <1>2, <1>4, <2>2, <3>3, <3>4, <3>5, <3>6
  <2> QED BY <2>1, <2>2 DEF Pushed
<1>7. Typing'
  <2>1. gaps' \subseteq Gap
    BY PushedGaps
  <2>2. Gap' = Gap /\ QueuedFrame' = QueuedFrame
    BY DEF Gap, QueuedFrame, MaxByteCount
  <2> QED BY <1>1, <1>3, <1>5, <1>6, <2>1, <2>2 DEF Typing
<1>8. QueueSound'
  <2> SUFFICES ASSUME NEW o \in DOMAIN queuedFrames'
               PROVE  /\ queuedFrames'[o].first = o
                      /\ FrameEnd(o)' <= StreamLength
                      /\ \A n \in o..(FrameEnd(o)' - 1) : n \in received'
                      /\ queuedFrames'[o].Len = 0 => o = StreamLength /\ queuedFrames'[o].FinBit = TRUE
    BY DEF QueueSound
  <2>1. FrameEnd(o)' = o + queuedFrames'[o].Len
    BY DEF FrameEnd
  <2>2. o \in Int /\ queuedFrames'[o].Len \in Int
    <3>1. o \in 0..StreamLength /\ queuedFrames'[o] \in QueuedFrame
      BY <1>6
    <3> QED BY <3>1, <1>2 DEF QueuedFrame
  <2>3. /\ queuedFrames'[o].first = o
        /\ o + queuedFrames'[o].Len <= StreamLength
        /\ \A n \in o..(o + queuedFrames'[o].Len - 1) : n \in received'
        /\ queuedFrames'[o].Len = 0 => o = StreamLength /\ queuedFrames'[o].FinBit = TRUE
    BY <1>6
  <2> QED BY <2>1, <2>2, <2>3
<1> QED BY <1>7, <1>8

\* The new frame takes its place in the chain, and the frames between its ends leave it.
LEMMA PushedChain ==
  ASSUME IInv, NEW frame \in Frames, AddStreamFrame(frame),
         NEW from, NEW to, NEW start, NEW end, Pushed(frame, from, to, start, end),
         failed' = FALSE
  PROVE  Chained'
<1>1. /\ Typing /\ GapsApart /\ GapsExact /\ QueueSound
      /\ Fills(frame, from, to, start, end)
  BY DEF IInv, Pushed
<1>2. failed = FALSE
  BY DEF AddStreamFrame, IInv, Booleans
<1>3. PICK C \in SUBSET DOMAIN queuedFrames : Tiles(C)
  BY <1>2 DEF IInv, Chained
<1> DEFINE D == {o \in C : o < start \/ o >= end} \cup {start}
           starts == GapStarts'
           endOf(o) == o + queuedFrames'[o].Len
<1>4. /\ start \in Int /\ end \in Int /\ 0 <= start /\ start < end /\ end <= StreamLength
      /\ from.Start \in Int /\ from.End \in Int /\ to.Start \in Int /\ to.End \in Int
      /\ from.Start <= start /\ start < from.End /\ to.Start < end /\ end <= to.End
      /\ from \in gaps /\ to \in gaps /\ from.Start <= to.Start
      /\ StreamLength \in Int /\ MaxByteCount = StreamLength + 1
  BY <1>1, FillsType
<1>5. /\ readPosition' = readPosition /\ finAlone' = finAlone
      /\ readPosition \in Int /\ readPosition <= from.Start
  BY <1>1, <1>4, SorterTypes DEF AddStreamFrame, GapsApart
<1>6. ASSUME NEW o \in C
      PROVE  /\ o \in Int /\ o \in DOMAIN queuedFrames /\ o < StreamLength /\ o >= readPosition
             /\ FrameEnd(o) \in Int /\ o < FrameEnd(o)
             /\ FrameEnd(o) = o + queuedFrames[o].Len
             /\ o # start
             /\ o < start => FrameEnd(o) <= start
             /\ FrameEnd(o) \in C \cup GapStarts
  <2>1. /\ o \in DOMAIN queuedFrames /\ o >= readPosition /\ o < StreamLength
        /\ FrameEnd(o) \in C \cup GapStarts
    BY <1>3 DEF Tiles
  <2>2. /\ o \in Int /\ queuedFrames[o].Len \in Int /\ 0 <= queuedFrames[o].Len
        /\ FrameEnd(o) \in Int /\ FrameEnd(o) = o + queuedFrames[o].Len
    BY <1>1, <2>1, QueueType
  <2>3. queuedFrames[o].Len # 0
    BY <1>1, <1>4, <2>1, <2>2 DEF QueueSound
  <2>4. ~(o <= start /\ start < FrameEnd(o))
    BY <1>1, <1>4, <2>1, QueueOutsideGaps
  <2> QED BY <1>4, <2>1, <2>2, <2>3, <2>4
<1>7. ASSUME NEW o \in D, o # start
      PROVE  /\ o \in C /\ o \in DOMAIN queuedFrames' /\ queuedFrames'[o] = queuedFrames[o]
             /\ endOf(o) = FrameEnd(o)
  <2>1. o \in C /\ (o < start \/ o >= end)
    BY <1>7
  <2>2. o \notin Covered(from, to)
    BY <1>1, <1>4, <1>6, <2>1, CoveredBetween
  <2>3. o \in DOMAIN queuedFrames' /\ queuedFrames'[o] = queuedFrames[o]
    BY <1>6, <1>7, <2>1, <2>2 DEF Pushed
  <2> QED BY <2>1, <2>3 DEF FrameEnd
<1>8. /\ start \in DOMAIN queuedFrames' /\ queuedFrames'[start].FinBit = frame.FinBit
      /\ endOf(start) = end
  <2>1. start \in DOMAIN queuedFrames'
    BY DEF Pushed
  <2>2. queuedFrames'[start] = [first |-> start, Len |-> end - start, FinBit |-> frame.FinBit]
    BY DEF Pushed, Stored
  <2>3. start + (end - start) = end
    BY <1>4
  <2> QED BY <2>1, <2>2, <2>3
<1>9. \A g : g \in gaps' <=>
        \/ g \in gaps /\ (g.Start < from.Start \/ g.Start > to.Start)
        \/ start > from.Start /\ g = [Start |-> from.Start, End |-> start]
        \/ end < to.End /\ g = [Start |-> end, End |-> to.End]
  BY InFilled DEF Pushed
<1>10. \A g \in gaps' : g.Start \in starts
  BY DEF GapStarts
<1>11. \A o \in C : o < start \/ o >= end => o \in D
  OBVIOUS
<1>12. start \in D /\ \A o \in D : o = start \/ o < start \/ o >= end
  OBVIOUS
<1> HIDE DEF D, starts, endOf
<1>13. from.Start \in D \cup starts
  <2>1. CASE start > from.Start
    <3>1. [Start |-> from.Start, End |-> start] \in gaps'
      BY <1>9, <2>1
    <3> QED BY <1>10, <3>1
  <2>2. CASE ~(start > from.Start)
    BY <1>4, <1>12, <2>2
  <2> QED BY <2>1, <2>2
<1>14. end \in D \cup starts
  <2>1. CASE end < to.End
    <3>1. [Start |-> end, End |-> to.End] \in gaps'
      BY <1>9, <2>1
    <3> QED BY <1>10, <3>1
  <2>2. CASE ~(end < to.End)
    <3>1. end = to.End /\ to.End # MaxByteCount
      BY <1>4, <2>2
    <3>2. end \in C
      BY <1>3, <1>4, <3>1 DEF Tiles
    <3> QED BY <1>4, <1>11, <3>2
  <2> QED BY <2>1, <2>2
<1>15. ASSUME NEW g \in gaps
       PROVE  /\ g.Start \in Int /\ g.End \in Int
              /\ g.Start <= start => g.Start \in D \cup starts
              /\ g.Start > end => g.Start \in D \cup starts
  <2>1. g.Start \in Int /\ g.End \in Int /\ g.Start < g.End
    BY <1>1, GapType DEF GapsApart
  <2>2. g.Start < from.Start \/ g.Start > to.Start => g.Start \in D \cup starts
    BY <1>9, <1>10
  <2>3. CASE from.Start <= g.Start /\ g.Start <= start
    <3>1. g.Start < from.End /\ from.Start < g.End
      BY <1>4, <2>1, <2>3
    <3>2. g = from
      BY <1>1, <1>4, <3>1, GapOverlap
    <3> QED BY <1>4, <1>13, <2>1, <3>2
  <2> QED BY <1>4, <2>1, <2>2, <2>3
<1>16. ASSUME NEW o \in D
       PROVE  o >= readPosition /\ o < StreamLength /\ endOf(o) \in D \cup starts
  <2>1. CASE o = start
    BY <1>4, <1>5, <1>8, <1>14, <2>1
  <2>2. CASE o # start
    <3>1. o \in C /\ endOf(o) = FrameEnd(o) /\ (o < start \/ o >= end)
      BY <1>7, <1>12, <2>2
    <3>2. o >= readPosition /\ o < StreamLength
      BY <1>6, <3>1
    <3>3. CASE FrameEnd(o) \in C
      <4>1. FrameEnd(o) < start \/ FrameEnd(o) >= end
        BY <1>4, <1>6, <3>1, <3>3
      <4> QED BY <1>11, <3>1, <3>2, <3>3, <4>1
    <3>4. CASE FrameEnd(o) \in GapStarts
      <4>1. PICK g \in gaps : g.Start = FrameEnd(o)
        BY <3>4 DEF GapStarts
      <4>2. g.Start <= start \/ g.Start > end
        BY <1>4, <1>6, <3>1, <4>1
      <4> QED BY <1>15, <3>1, <3>2, <4>1, <4>2
    <3> QED BY <1>6, <3>1, <3>3, <3>4
  <2> QED BY <2>1, <2>2
<1>17. ASSUME NEW o \in D, NEW q \in D, o < q
       PROVE  endOf(o) <= q
  <2>1. CASE o = start
    BY <1>4, <1>6, <1>7, <1>8, <1>12, <1>17, <2>1
  <2>2. CASE o # start /\ q = start
    BY <1>4, <1>6, <1>7, <1>17, <2>2
  <2>3. CASE o # start /\ q # start
    <3>1. o \in C /\ q \in C /\ endOf(o) = FrameEnd(o)
      BY <1>7, <2>3
    <3> QED BY <1>3, <1>17, <3>1 DEF Tiles
  <2> QED BY <2>1, <2>2, <2>3
<1>18. ASSUME NEW g \in gaps'
       PROVE  g.End \in D \cup {MaxByteCount}
  <2>1. CASE g \in gaps /\ (g.Start < from.Start \/ g.Start > to.Start)
    <3>1. g.End \in C \cup {MaxByteCount}
      BY <1>3, <2>1 DEF Tiles
    <3>2. g.End < from.Start \/ to.End < g.Start
      BY <1>1, <2>1, KeptGap
    <3>3. g.Start \in Int /\ g.End \in Int /\ g.Start < g.End
      BY <1>1, <2>1, GapType DEF GapsApart
    <3>4. g.End < start \/ g.End >= end
      BY <1>4, <3>2, <3>3
    <3> QED BY <1>11, <3>1, <3>4
  <2>2. CASE start > from.Start /\ g = [Start |-> from.Start, End |-> start]
    BY <1>12, <2>2
  <2>3. CASE end < to.End /\ g = [Start |-> end, End |-> to.End]
    <3>1. g.End = to.End /\ to.End \in C \cup {MaxByteCount}
      BY <1>3, <1>4, <2>3 DEF Tiles
    <3> QED BY <1>4, <1>11, <2>3, <3>1
  <2> QED BY <1>9, <2>1, <2>2, <2>3
<1>19. readPosition \in D \cup starts
  <2>1. CASE readPosition \in C
    BY <1>4, <1>5, <1>6, <1>11, <2>1
  <2>2. CASE readPosition \in GapStarts
    <3>1. PICK g \in gaps : g.Start = readPosition
      BY <2>2 DEF GapStarts
    <3> QED BY <1>4, <1>5, <1>15, <3>1
  <2> QED BY <1>3, <2>1, <2>2 DEF Tiles
<1>20. ASSUME finAlone = FALSE, NEW o \in D, endOf(o) = StreamLength
       PROVE  queuedFrames'[o].FinBit = TRUE
  <2>1. CASE o = start
    <3>1. end = StreamLength
      BY <1>8, <1>20, <2>1
    <3>2. end <= frame.Offset + frame.Len /\ frame.Offset <= start
      BY <1>1 DEF Fills
    <3>3. /\ frame.Offset \in Int /\ frame.Len \in Int
          /\ frame.Offset + frame.Len <= StreamLength
      BY FrameType
    <3>4. frame.Len > 0 /\ frame.Offset + frame.Len = StreamLength
      BY <1>4, <3>1, <3>2, <3>3
    <3> QED BY <1>8, <1>20, <2>1, <3>4, FrameFin
  <2>2. CASE o # start
    <3>1. o \in C /\ queuedFrames'[o] = queuedFrames[o] /\ endOf(o) = FrameEnd(o)
      BY <1>7, <2>2
    <3> QED BY <1>3, <1>20, <3>1 DEF Tiles
  <2> QED BY <2>1, <2>2
<1>21. D \subseteq DOMAIN queuedFrames'
  BY <1>7, <1>8
<1>22. \A o : FrameEnd(o)' = endOf(o)
  BY DEF FrameEnd, endOf
<1>23. MaxByteCount' = MaxByteCount
  BY DEF MaxByteCount
<1>24. Tiles(D)'
  BY <1>5, <1>16, <1>17, <1>18, <1>19, <1>20, <1>21, <1>22, <1>23 DEF Tiles, starts
<1> QED BY <1>21, <1>24 DEF Chained

\* A frame with data has no FinBit if the FIN travels on its own.
LEMMA FrameNoFin ==
  ASSUME NEW frame \in Frames, frame.Len > 0, finAlone = TRUE
  PROVE  frame.FinBit = FALSE
<1>1. frame.Len # 0
  BY SMT
<1>2. frame.FinBit = (frame.Offset + frame.Len = StreamLength /\ ~finAlone)
  BY <1>1 DEF Frames
<1> QED BY <1>1, <1>2

\* A step that fills a part of the gaps keeps the invariant, also when it fails on the
\* limit of gaps.
LEMMA PushedKeeps ==
  ASSUME IInv, NEW frame \in Frames, AddStreamFrame(frame), frame.Len > 0,
         NEW from, NEW to, NEW start, NEW end, Pushed(frame, from, to, start, end)
  PROVE  IInv'
<1>1. /\ Typing /\ GapsApart /\ QueueSound /\ ReadInFrame /\ FinHeld /\ Booleans
      /\ Fills(frame, from, to, start, end)
  BY DEF IInv, Pushed
<1>2. /\ readPosition' = readPosition /\ readOffset' = readOffset /\ delivered' = delivered
      /\ finAlone' = finAlone /\ finishedReading' = finishedReading
      /\ finReceived' = (finReceived \/ frame.FinBit)
  BY DEF AddStreamFrame
<1>3. Typing' /\ GapsApart' /\ GapsExact' /\ QueueSound'
  BY PushedGaps, PushedQueue
<1>4. finReceived' \in BOOLEAN /\ (finAlone = TRUE => finReceived' = finReceived)
  BY <1>1, <1>2, FrameType, FrameNoFin DEF Booleans
<1>5. Booleans'
  BY <1>1, <1>2, <1>4 DEF Booleans, Pushed
<1>6. Chained'
  <2>1. CASE failed' = FALSE
    BY <2>1, PushedChain
  <2>2. CASE failed' # FALSE
    BY <2>2 DEF Chained
  <2> QED BY <2>1, <2>2
<1>7. /\ start \in Int /\ end \in Int /\ start < end /\ end <= StreamLength /\ StreamLength \in Int
      /\ from.Start \in Int /\ from.Start <= start /\ readPosition <= from.Start
      /\ readPosition \in Int /\ readOffset \in Int /\ readOffset <= StreamLength
  BY <1>1, FillsType, SorterTypes DEF GapsApart
<1>8. \A o \in DOMAIN queuedFrames : o <= start \/ o >= end => o \notin Covered(from, to)
  BY <1>1, <1>7, CoveredBetween, SorterTypes
<1>9. ReadInFrame'
  <2> SUFFICES ASSUME readPosition < readOffset
               PROVE  readPosition \in DOMAIN queuedFrames' /\ readOffset < FrameEnd(readPosition)'
    BY <1>1, <1>2 DEF ReadInFrame
  <2>1. readPosition \in DOMAIN queuedFrames /\ readOffset < FrameEnd(readPosition)
    BY <1>1 DEF ReadInFrame
  <2>2. readPosition # start
    <3> SUFFICES ASSUME readPosition = start
                 PROVE  FALSE
      OBVIOUS
    <3>1. FrameEnd(start) \in Int /\ start < FrameEnd(start)
      BY <1>1, <1>7, <2>1, QueueType
    <3>2. start \in start..(FrameEnd(start) - 1)
      BY <1>7, <3>1
    <3>3. start \in received
      BY <1>1, <2>1, <3>2 DEF QueueSound
    <3> QED BY <1>1, <3>3, PushedBytes
  <2>3. readPosition \notin Covered(from, to)
    BY <1>7, <1>8, <2>1
  <2>4. readPosition \in DOMAIN queuedFrames' /\ queuedFrames'[readPosition] = queuedFrames[readPosition]
    BY <2>1, <2>2, <2>3 DEF Pushed
  <2>5. FrameEnd(readPosition)' = FrameEnd(readPosition)
    BY <1>2, <2>4 DEF FrameEnd
  <2> QED BY <2>1, <2>4, <2>5
<1>10. FinHeld'
  <2>1. failed = FALSE
    BY <1>1 DEF AddStreamFrame, Booleans
  <2>2. StreamLength \in DOMAIN queuedFrames => StreamLength \in DOMAIN queuedFrames'
    BY <1>7, <1>8 DEF Pushed
  <2> QED BY <1>1, <1>2, <1>4, <2>1, <2>2 DEF FinHeld
<1>11. DeliveredInOrder'
  BY <1>2 DEF IInv, DeliveredInOrder
<1> QED BY <1>3, <1>5, <1>6, <1>9, <1>10, <1>11 DEF IInv

\* All bytes of a duplicate are there.
LEMMA DuplicateBytes ==
  ASSUME IInv, NEW frame \in Frames, IsDuplicate(frame),
         NEW n \in frame.Offset..(frame.Offset + frame.Len - 1)
  PROVE  n \in received
<1> DEFINE first == NewStart(frame)
<1>1. Typing /\ GapsApart /\ GapsExact /\ QueueSound
  BY DEF IInv
<1>2. /\ frame.Offset \in Int /\ 0 <= frame.Offset /\ frame.Len \in Int
      /\ frame.Offset + frame.Len <= StreamLength /\ StreamLength \in Int
  BY FrameType
<1>3. frame.Len > 0 /\ (first >= frame.Offset + frame.Len \/ FirstGap(first).Start >= frame.Offset + frame.Len)
  BY DEF IsDuplicate
<1>4. /\ first \in Int /\ first >= frame.Offset
      /\ \A m \in Int : frame.Offset <= m /\ m < first => m \in received
  BY <1>1, <1>3, NewStartFacts
<1>5. n \in Int /\ frame.Offset <= n /\ n < frame.Offset + frame.Len /\ n \in 0..StreamLength
  BY <1>2
<1> HIDE DEF first
<1>6. CASE n < first
  BY <1>4, <1>5, <1>6
<1>7. CASE ~(n < first)
  <2>1. first <= StreamLength /\ FirstGap(first).Start >= frame.Offset + frame.Len
    BY <1>2, <1>3, <1>4, <1>5, <1>7
  <2> SUFFICES ASSUME n \notin received
               PROVE  FALSE
    OBVIOUS
  <2>2. PICK g \in gaps : g.Start <= n /\ n < g.End
    BY <1>1, <1>5, MissingIffInGap
  <2>3. g.Start \in Int /\ g.End \in Int
    BY <1>1, GapType
  <2>4. FirstGap(first) \in gaps /\ FirstGap(first).Start <= g.Start
    BY <1>1, <1>4, <1>5, <1>7, <2>1, <2>2, <2>3, FirstGapFacts
  <2>5. FirstGap(first).Start \in Int
    BY <1>1, <2>4, GapType
  <2> QED BY <1>2, <1>5, <2>1, <2>2, <2>3, <2>4, <2>5
<1> QED BY <1>6, <1>7

\* A duplicate changes nothing.
LEMMA DuplicateKeeps ==
  ASSUME IInv, NEW frame \in Frames, AddStreamFrame(frame), PushDuplicate(frame)
  PROVE  IInv'
<1>1. IsDuplicate(frame) /\ frame.Len > 0
  BY DEF PushDuplicate, IsDuplicate
<1>2. received' = received
  BY <1>1, DuplicateBytes DEF AddStreamFrame
<1>3. /\ gaps' = gaps /\ queuedFrames' = queuedFrames /\ failed' = failed
      /\ finAlone' = finAlone /\ readPosition' = readPosition /\ readOffset' = readOffset
      /\ finishedReading' = finishedReading /\ delivered' = delivered
      /\ finReceived' = (finReceived \/ frame.FinBit)
  BY DEF PushDuplicate, AddStreamFrame
<1>4. finReceived' \in BOOLEAN /\ (finAlone = TRUE => finReceived' = finReceived)
  BY <1>1, <1>3, FrameType, FrameNoFin DEF IInv, Booleans
<1>5. Typing' /\ GapsApart' /\ GapsExact'
  BY <1>2, <1>3 DEF IInv, Typing, GapsApart, GapsExact, MaxByteCount, Gap, QueuedFrame
<1>6. QueueSound'
  BY <1>2, <1>3 DEF IInv, QueueSound, FrameEnd
<1>7. Chained'
  BY <1>3 DEF IInv, Chained, Tiles, GapStarts, FrameEnd, MaxByteCount
<1>8. ReadInFrame' /\ FinHeld' /\ Booleans' /\ DeliveredInOrder'
  BY <1>3, <1>4 DEF IInv, ReadInFrame, FrameEnd, FinHeld, Booleans, DeliveredInOrder
<1> QED BY <1>5, <1>6, <1>7, <1>8 DEF IInv

\* A FIN of its own is queued behind everything.
LEMMA FinKeeps ==
  ASSUME IInv, NEW frame \in Frames, AddStreamFrame(frame), PushFin(frame)
  PROVE  IInv'
<1>1. /\ Typing /\ GapsApart /\ GapsExact /\ QueueSound /\ ReadInFrame /\ FinHeld /\ Booleans
      /\ failed = FALSE
  BY DEF IInv, AddStreamFrame, Booleans
<1>2. /\ frame.Offset = StreamLength /\ finAlone = TRUE /\ frame.Len = 0
      /\ StreamLength \in Int /\ 1 <= StreamLength
  BY FrameType DEF PushFin
<1>3. received' = received
  <2>1. frame.Offset..(frame.Offset + frame.Len - 1) = {}
    BY <1>2
  <2> QED BY <2>1 DEF AddStreamFrame
<1>4. /\ gaps' = gaps /\ failed' = failed
      /\ finAlone' = finAlone /\ readPosition' = readPosition /\ readOffset' = readOffset
      /\ finishedReading' = finishedReading /\ delivered' = delivered
      /\ finReceived' = (finReceived \/ frame.FinBit)
  BY DEF PushFin, AddStreamFrame
<1>5. /\ \A o : o \in DOMAIN queuedFrames' <=> o \in DOMAIN queuedFrames \/ o = StreamLength
      /\ \A o \in DOMAIN queuedFrames' : o # StreamLength => queuedFrames'[o] = queuedFrames[o]
      /\ queuedFrames'[StreamLength] = [first |-> StreamLength, Len |-> 0, FinBit |-> TRUE]
  BY <1>2 DEF PushFin, Queue
<1>6. finReceived' \in BOOLEAN
  BY <1>1, <1>4, FrameType DEF Booleans
<1>7. /\ StreamLength \in 0..StreamLength /\ queuedFrames'[StreamLength] \in QueuedFrame
  BY <1>2, <1>5 DEF QueuedFrame
<1>8. Typing' /\ GapsApart' /\ GapsExact'
  <2>1. Gap' = Gap /\ QueuedFrame' = QueuedFrame /\ MaxByteCount' = MaxByteCount
    BY DEF Gap, QueuedFrame, MaxByteCount
  <2>2. Typing'
    BY <1>1, <1>3, <1>4, <1>5, <1>7, <2>1 DEF Typing
  <2> QED BY <1>1, <1>3, <1>4, <2>1, <2>2 DEF GapsApart, GapsExact
<1>9. \A o \in DOMAIN queuedFrames : o # StreamLength => FrameEnd(o)' = FrameEnd(o)
  BY <1>5 DEF FrameEnd
<1>10. FrameEnd(StreamLength)' = StreamLength
  <2>1. FrameEnd(StreamLength)' = StreamLength + queuedFrames'[StreamLength].Len
    BY DEF FrameEnd
  <2>2. queuedFrames'[StreamLength].Len = 0
    BY <1>5
  <2> QED BY <1>2, <2>1, <2>2
<1>11. QueueSound'
  <2> SUFFICES ASSUME NEW o \in DOMAIN queuedFrames'
               PROVE  /\ queuedFrames'[o].first = o
                      /\ FrameEnd(o)' <= StreamLength
                      /\ \A n \in o..(FrameEnd(o)' - 1) : n \in received'
                      /\ queuedFrames'[o].Len = 0 => o = StreamLength /\ queuedFrames'[o].FinBit = TRUE
    BY DEF QueueSound
  <2>1. CASE o = StreamLength
    <3>1. o..(FrameEnd(o)' - 1) = {}
      BY <1>2, <1>10, <2>1
    <3> QED BY <1>2, <1>5, <1>10, <2>1, <3>1
  <2>2. CASE o # StreamLength
    <3>1. o \in DOMAIN queuedFrames /\ queuedFrames'[o] = queuedFrames[o] /\ FrameEnd(o)' = FrameEnd(o)
      BY <1>5, <1>9, <2>2
    <3> QED BY <1>1, <1>3, <3>1 DEF QueueSound
  <2> QED BY <2>1, <2>2
<1>12. Chained'
  <2>1. PICK C \in SUBSET DOMAIN queuedFrames : Tiles(C)
    BY <1>1 DEF IInv, Chained
  <2>2. \A o \in C : o < StreamLength /\ o # StreamLength
    BY <1>1, <1>2, <2>1, SorterTypes DEF Tiles
  <2>3. \A o \in C : o \in DOMAIN queuedFrames' /\ FrameEnd(o)' = FrameEnd(o)
    BY <1>5, <1>9, <2>1, <2>2 DEF Tiles
  <2>4. GapStarts' = GapStarts /\ MaxByteCount' = MaxByteCount
    BY <1>4 DEF GapStarts, MaxByteCount
  <2>5. Tiles(C)'
    BY <1>2, <1>4, <2>1, <2>3, <2>4 DEF Tiles
  <2>6. C \in SUBSET DOMAIN queuedFrames'
    BY <2>3
  <2> QED BY <2>5, <2>6 DEF Chained
<1>13. ReadInFrame'
  <2>1. readPosition < readOffset => readPosition # StreamLength
    BY <1>1, SorterTypes
  <2>2. readPosition < readOffset =>
          readPosition \in DOMAIN queuedFrames' /\ FrameEnd(readPosition)' = FrameEnd(readPosition)
    BY <1>1, <1>4, <1>5, <2>1 DEF ReadInFrame, FrameEnd
  <2> QED BY <1>1, <1>4, <2>2 DEF ReadInFrame
<1>14. FinHeld' /\ Booleans' /\ DeliveredInOrder'
  BY <1>1, <1>2, <1>4, <1>5, <1>6 DEF IInv, FinHeld, Booleans, DeliveredInOrder
<1> QED BY <1>8, <1>11, <1>12, <1>13, <1>14 DEF IInv

-----------------------------------------------------------------------------
(* A step of Read. *)

\* The bytes that follow in order.
LEMMA BytesInOrder ==
  ASSUME NEW m \in Nat, NEW n \in Nat
  PROVE  [i \in 1..m |-> i - 1] \o [i \in 1..n |-> m + i - 1] = [i \in 1..(m + n) |-> i - 1]
<1> DEFINE s == [i \in 1..m |-> i - 1]
           t == [i \in 1..n |-> m + i - 1]
           u == [i \in 1..(m + n) |-> i - 1]
<1>1. s \in Seq(Int) /\ t \in Seq(Int) /\ Len(s) = m /\ Len(t) = n
  OBVIOUS
<1>2. DOMAIN s = 1..m /\ \A i \in 1..m : s[i] = i - 1
  OBVIOUS
<1>3. \A i \in 1..n : t[i] = m + i - 1
  OBVIOUS
<1>4. DOMAIN u = 1..(m + n) /\ \A i \in 1..(m + n) : u[i] = i - 1
  OBVIOUS
<1>5. u \in Seq(Int) /\ Len(u) = m + n
  OBVIOUS
<1> HIDE DEF s, t, u
<1>6. s \o t \in Seq(Int) /\ Len(s \o t) = m + n
  BY <1>1, ConcatProperties
<1>7. \A i \in 1..(m + n) : (s \o t)[i] = IF i <= m THEN s[i] ELSE t[i - m]
  BY <1>1, ConcatProperties
<1>8. ASSUME NEW i \in 1..(m + n)
      PROVE  (s \o t)[i] = u[i]
  <2>1. CASE i <= m
    <3>1. i \in 1..m
      BY <2>1
    <3> QED BY <1>2, <1>4, <1>7, <2>1, <3>1
  <2>2. CASE ~(i <= m)
    <3>1. i - m \in 1..n /\ m + (i - m) - 1 = i - 1
      BY <2>2
    <3> QED BY <1>3, <1>4, <1>7, <2>2, <3>1
  <2> QED BY <2>1, <2>2
<1>9. s \o t = u
  BY <1>5, <1>6, <1>8, SeqEqual
<1> QED BY <1>9 DEF s, t, u

\* A frame at the reader's position that has data belongs to the chain.
LEMMA HeadInChain ==
  ASSUME Typing, GapsApart, GapsExact, NEW C, Tiles(C), readPosition \in received
  PROVE  readPosition \in C /\ readPosition \in DOMAIN queuedFrames
<1>1. readPosition \in C \cup GapStarts /\ C \subseteq DOMAIN queuedFrames
  BY DEF Tiles
<1>2. readPosition \notin GapStarts
  <2> SUFFICES ASSUME NEW g \in gaps, g.Start = readPosition
               PROVE  FALSE
    BY DEF GapStarts
  <2>1. readPosition \in 0..StreamLength
    BY DEF Typing
  <2>2. g.Start < g.End /\ g.Start <= g.Start
    BY GapType DEF GapsApart
  <2> QED BY <2>1, <2>2, MissingIffInGap
<1> QED BY <1>1, <1>2

\* What Read finds at the head of the queue.
LEMMA HeadFacts ==
  ASSUME IInv, failed = FALSE, readPosition \in DOMAIN queuedFrames
  PROVE  LET frame == queuedFrames[readPosition] IN
         /\ frame.Len \in Int /\ 0 <= frame.Len /\ frame.first = readPosition
         /\ FrameEnd(readPosition) = readPosition + frame.Len
         /\ FrameEnd(readPosition) \in Int /\ FrameEnd(readPosition) <= StreamLength
         /\ readPosition <= readOffset /\ readOffset <= FrameEnd(readPosition)
         /\ frame.FinBit \in BOOLEAN
         /\ frame.Len = 0 => readPosition = StreamLength /\ frame.FinBit = TRUE
         /\ frame.Len > 0 =>
              /\ readOffset < FrameEnd(readPosition)
              /\ readPosition \in received
              /\ \A n \in Int : readPosition <= n /\ n < FrameEnd(readPosition) => n \in received
<1> DEFINE frame == queuedFrames[readPosition]
<1>1. Typing /\ QueueSound /\ ReadInFrame
  BY DEF IInv
<1>2. /\ readPosition \in Int /\ readOffset \in Int /\ StreamLength \in Int
  BY <1>1, SorterTypes
<1>3. /\ frame.Len \in Int /\ 0 <= frame.Len /\ frame.FinBit \in BOOLEAN
      /\ FrameEnd(readPosition) = readPosition + frame.Len
      /\ FrameEnd(readPosition) \in Int
  BY <1>1, QueueType
<1>4. /\ frame.first = readPosition /\ FrameEnd(readPosition) <= StreamLength
      /\ frame.Len = 0 => readPosition = StreamLength /\ frame.FinBit = TRUE
      /\ \A n \in readPosition..(FrameEnd(readPosition) - 1) : n \in received
  BY <1>1 DEF QueueSound
<1>5. /\ readPosition <= readOffset
      /\ readPosition < readOffset => readOffset < FrameEnd(readPosition)
  BY <1>1 DEF ReadInFrame
<1> HIDE DEF frame
<1>6. /\ readOffset <= FrameEnd(readPosition)
      /\ frame.Len > 0 => readOffset < FrameEnd(readPosition)
  BY <1>2, <1>3, <1>5
<1>7. \A n \in Int : readPosition <= n /\ n < FrameEnd(readPosition) => n \in received
  BY <1>2, <1>3, <1>4
<1>8. frame.Len > 0 => readPosition \in received
  BY <1>2, <1>3, <1>7
<1> QED BY <1>3, <1>4, <1>5, <1>6, <1>7, <1>8 DEF frame

\* Read copies a part of the frame at the head, or the rest of it and takes the frame out.
ReadSome(n) ==
  /\ readOffset' = readOffset + n /\ readOffset + n < FrameEnd(readPosition)
  /\ UNCHANGED <<queuedFrames, readPosition, finishedReading>>

ReadRest(n) ==
  /\ readOffset' = FrameEnd(readPosition) /\ readOffset + n = FrameEnd(readPosition)
  /\ queuedFrames' = Dequeue(queuedFrames, {readPosition})
  /\ readPosition' = FrameEnd(readPosition)
  /\ finishedReading' = queuedFrames[readPosition].FinBit

\* Read delivers a part of the frame at its position, or the rest of it.
LEMMA ReadCases ==
  ASSUME IInv, Read
  PROVE  /\ failed = FALSE /\ finishedReading = FALSE /\ readPosition \in DOMAIN queuedFrames
         /\ UNCHANGED <<finAlone, gaps, failed, received, finReceived>>
         /\ \E n \in Nat :
              /\ delivered' = delivered \o [i \in 1..n |-> readOffset + i - 1]
              /\ ReadSome(n) \/ ReadRest(n)
<1> DEFINE frame == queuedFrames[readPosition]
           used  == readOffset - readPosition
<1>1. failed = FALSE /\ finishedReading = FALSE /\ readPosition \in DOMAIN queuedFrames
  BY DEF IInv, Booleans, Read
<1>2. UNCHANGED <<finAlone, gaps, failed, received, finReceived>>
  BY DEF Read
<1>3. PICK n \in (IF frame.Len = 0 THEN {0} ELSE 1..(frame.Len - used)) :
        /\ readOffset' = readOffset + n
        /\ delivered' = delivered \o [i \in 1..n |-> frame.first + used + i - 1]
        /\ IF used + n < frame.Len
           THEN UNCHANGED <<queuedFrames, readPosition, finishedReading>>
           ELSE /\ queuedFrames' = Dequeue(queuedFrames, {readPosition})
                /\ readPosition' = readPosition + frame.Len
                /\ finishedReading' = frame.FinBit
  BY DEF Read
<1>4. /\ frame.Len \in Int /\ 0 <= frame.Len /\ frame.first = readPosition
      /\ FrameEnd(readPosition) = readPosition + frame.Len
      /\ FrameEnd(readPosition) \in Int
      /\ readPosition <= readOffset /\ readOffset <= FrameEnd(readPosition)
  BY <1>1, HeadFacts
<1>5. readPosition \in Int /\ readOffset \in Int
  BY SorterTypes DEF IInv
<1> HIDE DEF frame
<1>6. n \in Nat /\ used + n <= frame.Len /\ readOffset + n <= FrameEnd(readPosition)
  BY <1>3, <1>4, <1>5
<1>7. delivered' = delivered \o [i \in 1..n |-> readOffset + i - 1]
  <2>1. [i \in 1..n |-> frame.first + used + i - 1] = [i \in 1..n |-> readOffset + i - 1]
    BY <1>4, <1>5, <1>6
  <2> QED BY <1>3, <2>1
<1>8. CASE used + n < frame.Len
  <2>1. readOffset + n < FrameEnd(readPosition)
    BY <1>4, <1>5, <1>6, <1>8
  <2>2. ReadSome(n)
    BY <1>3, <1>8, <2>1 DEF ReadSome
  <2> QED BY <1>1, <1>2, <1>6, <1>7, <2>2
<1>9. CASE ~(used + n < frame.Len)
  <2>1. readOffset + n = FrameEnd(readPosition)
    BY <1>4, <1>5, <1>6, <1>9
  <2>2. ReadRest(n)
    BY <1>3, <1>4, <1>9, <2>1 DEF ReadRest, frame
  <2> QED BY <1>1, <1>2, <1>6, <1>7, <2>2
<1> QED BY <1>8, <1>9

\* Reading a part of the frame at the head keeps the invariant.
LEMMA ReadSomeKeeps ==
  ASSUME IInv, readPosition \in DOMAIN queuedFrames, NEW n \in Nat, ReadSome(n),
         delivered' = delivered \o [i \in 1..n |-> readOffset + i - 1],
         failed = FALSE, UNCHANGED <<finAlone, gaps, failed, received, finReceived>>
  PROVE  IInv'
<1>1. /\ readOffset' = readOffset + n /\ readOffset + n < FrameEnd(readPosition)
      /\ UNCHANGED <<queuedFrames, readPosition, finishedReading>>
  BY DEF ReadSome
<1>2. /\ readPosition \in Int /\ readOffset \in Int /\ 0 <= readOffset /\ StreamLength \in Int
  BY SorterTypes DEF IInv
<1>3. /\ FrameEnd(readPosition) \in Int /\ FrameEnd(readPosition) <= StreamLength
      /\ readPosition <= readOffset
  BY HeadFacts
<1>4. readOffset' \in 0..StreamLength /\ readPosition <= readOffset'
  BY <1>1, <1>2, <1>3
<1>5. Typing' /\ GapsApart' /\ GapsExact'
  BY <1>1, <1>4 DEF IInv, Typing, GapsApart, GapsExact, MaxByteCount, Gap, QueuedFrame
<1>6. QueueSound'
  BY <1>1 DEF IInv, QueueSound, FrameEnd
<1>7. Chained'
  BY <1>1 DEF IInv, Chained, Tiles, GapStarts, FrameEnd, MaxByteCount
<1>8. FrameEnd(readPosition)' = FrameEnd(readPosition)
  BY <1>1 DEF FrameEnd
<1>9. ReadInFrame'
  BY <1>1, <1>4, <1>8 DEF ReadInFrame
<1>10. FinHeld' /\ Booleans'
  BY <1>1 DEF IInv, FinHeld, Booleans
<1>11. DeliveredInOrder'
  <2>1. delivered = [i \in 1..readOffset |-> i - 1] /\ readOffset \in Nat
    BY <1>2 DEF IInv, DeliveredInOrder
  <2>2. delivered' = [i \in 1..(readOffset + n) |-> i - 1]
    BY <2>1, BytesInOrder
  <2> QED BY <1>1, <2>2 DEF DeliveredInOrder
<1> QED BY <1>5, <1>6, <1>7, <1>9, <1>10, <1>11 DEF IInv

\* Reading its rest moves the reader on to the next frame of the chain, or to a gap.
LEMMA ReadRestChain ==
  ASSUME IInv, readPosition \in DOMAIN queuedFrames, NEW n \in Nat, ReadRest(n),
         failed = FALSE, UNCHANGED <<finAlone, gaps, failed, received, finReceived>>
  PROVE  Chained'
<1>1. Typing /\ GapsApart /\ GapsExact /\ QueueSound
  BY DEF IInv
<1>2. PICK C \in SUBSET DOMAIN queuedFrames : Tiles(C)
  BY DEF IInv, Chained
<1> PICK D : D = C \ {readPosition}
  OBVIOUS
<1> DEFINE next == FrameEnd(readPosition)
<1>3. readPosition' = next /\ queuedFrames' = Dequeue(queuedFrames, {readPosition})
  BY DEF ReadRest
<1>4. /\ \A o : o \in DOMAIN queuedFrames' <=> o \in DOMAIN queuedFrames /\ o # readPosition
      /\ \A o \in DOMAIN queuedFrames' : queuedFrames'[o] = queuedFrames[o]
  BY <1>3 DEF Dequeue
<1>5. \A o \in DOMAIN queuedFrames' : FrameEnd(o)' = FrameEnd(o)
  BY <1>4 DEF FrameEnd
<1>6. /\ readPosition \in Int /\ next \in Int /\ readPosition <= next
      /\ next = readPosition => readPosition = StreamLength
      /\ readPosition < next => readPosition \in received
      /\ StreamLength \in Int
  <2> DEFINE frame == queuedFrames[readPosition]
  <2>1. /\ frame.Len \in Int /\ 0 <= frame.Len
        /\ next = readPosition + frame.Len /\ next \in Int
        /\ frame.Len = 0 => readPosition = StreamLength
        /\ frame.Len > 0 => readPosition \in received
    BY HeadFacts
  <2>2. readPosition \in Int /\ StreamLength \in Int
    BY <1>1, SorterTypes
  <2> HIDE DEF frame, next
  <2> QED BY <2>1, <2>2
<1>7. ASSUME NEW o \in D
      PROVE  /\ o \in DOMAIN queuedFrames' /\ o \in Int /\ o >= next /\ o < StreamLength
             /\ FrameEnd(o) \in D \cup GapStarts
  <2>1. /\ o \in C /\ o # readPosition /\ o \in DOMAIN queuedFrames
        /\ o >= readPosition /\ o < StreamLength /\ FrameEnd(o) \in C \cup GapStarts
    BY <1>2 DEF Tiles
  <2>2. /\ o \in Int /\ queuedFrames[o].Len \in Int /\ 0 <= queuedFrames[o].Len
        /\ FrameEnd(o) = o + queuedFrames[o].Len
    BY <1>1, <2>1, QueueType
  <2>3. next # readPosition /\ readPosition < o
    BY <1>6, <2>1, <2>2
  <2>4. readPosition \in C
    BY <1>1, <1>2, <1>6, <2>3, HeadInChain
  <2>5. next <= o
    BY <1>2, <2>1, <2>3, <2>4 DEF Tiles
  <2>6. FrameEnd(o) # readPosition
    BY <1>6, <2>2, <2>3
  <2> QED BY <1>4, <2>1, <2>2, <2>5, <2>6
<1>8. ASSUME NEW g \in gaps
      PROVE  g.End \in D \cup {MaxByteCount}
  <2>1. g.Start \in Int /\ g.End \in Int /\ readPosition <= g.Start /\ g.Start < g.End
    BY <1>1, GapType DEF GapsApart
  <2>2. g.End \in C \cup {MaxByteCount}
    BY <1>2 DEF Tiles
  <2> QED BY <1>6, <2>1, <2>2
<1>9. next \in D \cup GapStarts
  <2>1. CASE next = readPosition
    <3>1. readPosition \in C \cup GapStarts
      BY <1>2 DEF Tiles
    <3>2. readPosition \notin C
      BY <1>2, <1>6, <2>1 DEF Tiles
    <3> QED BY <2>1, <3>1, <3>2
  <2>2. CASE next # readPosition
    <3>1. readPosition \in C
      BY <1>1, <1>2, <1>6, <2>2, HeadInChain
    <3>2. next \in C \cup GapStarts
      BY <1>2, <3>1 DEF Tiles
    <3> QED BY <2>2, <3>2
  <2> QED BY <2>1, <2>2
<1>10. \A o, q \in D : o < q => FrameEnd(o) <= q
  BY <1>2 DEF Tiles
<1>11. finAlone = FALSE =>
         \A o \in D : FrameEnd(o) = StreamLength => queuedFrames'[o].FinBit = TRUE
  BY <1>2, <1>4, <1>7 DEF Tiles
<1>12. GapStarts' = GapStarts /\ MaxByteCount' = MaxByteCount
  BY DEF GapStarts, MaxByteCount
<1> HIDE DEF next
<1>13. Tiles(D)'
  BY <1>3, <1>5, <1>7, <1>8, <1>9, <1>10, <1>11, <1>12 DEF Tiles
<1>14. D \in SUBSET DOMAIN queuedFrames'
  BY <1>7
<1> QED BY <1>13, <1>14 DEF Chained

\* And the rest of the invariant.
LEMMA ReadRestKeeps ==
  ASSUME IInv, readPosition \in DOMAIN queuedFrames, NEW n \in Nat, ReadRest(n),
         delivered' = delivered \o [i \in 1..n |-> readOffset + i - 1],
         failed = FALSE, finishedReading = FALSE,
         UNCHANGED <<finAlone, gaps, failed, received, finReceived>>
  PROVE  IInv'
<1> DEFINE frame == queuedFrames[readPosition]
           next  == FrameEnd(readPosition)
<1>1. /\ readOffset' = next /\ readOffset + n = next /\ readPosition' = next
      /\ queuedFrames' = Dequeue(queuedFrames, {readPosition})
      /\ finishedReading' = frame.FinBit
  BY DEF ReadRest
<1>2. /\ \A o : o \in DOMAIN queuedFrames' <=> o \in DOMAIN queuedFrames /\ o # readPosition
      /\ \A o \in DOMAIN queuedFrames' : queuedFrames'[o] = queuedFrames[o]
  BY <1>1 DEF Dequeue
<1>3. \A o \in DOMAIN queuedFrames' : FrameEnd(o)' = FrameEnd(o)
  BY <1>2 DEF FrameEnd
<1>4. /\ frame.Len \in Int /\ 0 <= frame.Len /\ frame.FinBit \in BOOLEAN
      /\ next = readPosition + frame.Len
      /\ next \in Int /\ next <= StreamLength
      /\ frame.Len = 0 => readPosition = StreamLength /\ frame.FinBit = TRUE
      /\ frame.Len > 0 => readPosition \in received
      /\ frame.Len > 0 => \A m \in Int : readPosition <= m /\ m < next => m \in received
  BY HeadFacts
<1>5. /\ Typing /\ GapsApart /\ GapsExact /\ QueueSound /\ FinHeld /\ Booleans
  BY DEF IInv
<1>6. /\ readPosition \in Int /\ 0 <= readPosition /\ readOffset \in Int /\ 0 <= readOffset
      /\ StreamLength \in Int
  BY <1>5, SorterTypes
<1> HIDE DEF frame, next
<1>7. next \in 0..StreamLength /\ readPosition <= next
  BY <1>4, <1>6
<1>8. Typing'
  <2>1. Gap' = Gap /\ QueuedFrame' = QueuedFrame
    BY DEF Gap, QueuedFrame, MaxByteCount
  <2> QED BY <1>1, <1>2, <1>5, <1>7, <2>1 DEF Typing
<1>9. \A g \in gaps : next <= g.Start
  <2> SUFFICES ASSUME NEW g \in gaps, g.Start < next
               PROVE  FALSE
    BY <1>4, <1>5, GapType
  <2>1. /\ g.Start \in Int /\ g.Start <= StreamLength /\ 0 <= g.Start
        /\ readPosition <= g.Start /\ g.Start < g.End
    BY <1>5, GapType DEF GapsApart
  <2>2. frame.Len > 0 /\ g.Start \in received
    BY <1>4, <1>6, <2>1
  <2>3. g.Start \in 0..StreamLength /\ g.Start <= g.Start
    BY <1>6, <2>1
  <2> QED BY <1>5, <2>1, <2>2, <2>3, MissingIffInGap
<1>10. GapsApart' /\ GapsExact'
  BY <1>1, <1>5, <1>9 DEF GapsApart, GapsExact, MaxByteCount
<1>11. QueueSound'
  BY <1>2, <1>3, <1>5 DEF QueueSound
<1>12. Chained'
  BY ReadRestChain
<1>13. ReadInFrame'
  BY <1>1, <1>4 DEF ReadInFrame
<1>14. Booleans'
  BY <1>1, <1>4, <1>5 DEF Booleans
<1>15. FinHeld'
  <2>1. ASSUME readPosition = StreamLength
        PROVE  finishedReading' = TRUE
    <3>1. frame.Len = 0
      BY <1>4, <1>6, <2>1
    <3> QED BY <1>1, <1>4, <3>1
  <2>2. ASSUME finAlone = FALSE, next = StreamLength
        PROVE  finishedReading' = TRUE
    <3>1. CASE frame.Len = 0
      BY <1>1, <1>4, <3>1
    <3>2. CASE frame.Len # 0
      <4>1. readPosition \in received
        BY <1>4, <3>2
      <4>2. PICK C \in SUBSET DOMAIN queuedFrames : Tiles(C)
        BY DEF IInv, Chained
      <4>3. readPosition \in C
        BY <1>5, <4>1, <4>2, HeadInChain
      <4> QED BY <1>1, <2>2, <4>2, <4>3 DEF Tiles, frame, next
    <3> QED BY <3>1, <3>2
  <2>3. finAlone = TRUE /\ finReceived = TRUE =>
          finishedReading' = TRUE \/ StreamLength \in DOMAIN queuedFrames'
    BY <1>2, <1>5, <2>1 DEF FinHeld
  <2> QED BY <1>1, <2>2, <2>3 DEF FinHeld
<1>16. DeliveredInOrder'
  <2>1. delivered = [i \in 1..readOffset |-> i - 1] /\ readOffset \in Nat
    BY <1>6 DEF IInv, DeliveredInOrder
  <2>2. delivered' = [i \in 1..(readOffset + n) |-> i - 1]
    BY <2>1, BytesInOrder
  <2> QED BY <1>1, <2>2 DEF DeliveredInOrder
<1> QED BY <1>8, <1>10, <1>11, <1>12, <1>13, <1>14, <1>15, <1>16 DEF IInv

-----------------------------------------------------------------------------
(* The invariant and what follows from it. *)

\* At first all of the stream is one gap.
LEMMA InitEstablishes == Init => IInv
<1> SUFFICES ASSUME Init
             PROVE  IInv
  OBVIOUS
<1> DEFINE whole == [Start |-> 0, End |-> MaxByteCount]
<1>1. /\ finAlone \in BOOLEAN /\ finishedReading = FALSE /\ failed = FALSE /\ finReceived = FALSE
      /\ gaps = {whole} /\ queuedFrames = <<>> /\ readPosition = 0 /\ readOffset = 0
      /\ received = {} /\ delivered = <<>>
  BY DEF Init
<1>2. DOMAIN queuedFrames = {}
  BY <1>1
<1>3. StreamLength \in Int /\ 1 <= StreamLength /\ MaxByteCount = StreamLength + 1
  BY SorterAssumption DEF MaxByteCount
<1>4. whole.Start = 0 /\ whole.End = MaxByteCount /\ whole \in Gap
  BY <1>3 DEF Gap
<1> HIDE DEF whole
<1>5. Typing
  <2>1. 0 \in 0..StreamLength /\ {} \subseteq 0..(StreamLength - 1)
    BY <1>3
  <2> QED BY <1>1, <1>2, <1>4, <2>1 DEF Typing
<1>6. GapsApart
  BY <1>1, <1>3, <1>4 DEF GapsApart
<1>7. GapsExact
  <2>1. UNION {g.Start..(g.End - 1) : g \in gaps} = 0..(MaxByteCount - 1)
    BY <1>1, <1>4
  <2> QED BY <1>1, <2>1 DEF GapsExact
<1>8. QueueSound
  BY <1>2 DEF QueueSound
<1>9. Chained
  <2>1. 0 \in GapStarts
    BY <1>1, <1>4 DEF GapStarts
  <2>2. Tiles({})
    BY <1>1, <1>2, <1>4, <2>1 DEF Tiles
  <2> QED BY <2>2 DEF Chained
<1>10. ReadInFrame /\ FinHeld /\ Booleans
  <2>1. readPosition <= readOffset /\ ~(readPosition < readOffset) /\ readPosition # StreamLength
    BY <1>1, <1>3
  <2>2. FinHeld /\ Booleans
    BY <1>1, <2>1 DEF FinHeld, Booleans
  <2> QED BY <2>1, <2>2 DEF ReadInFrame
<1>11. DeliveredInOrder
  <2>1. 1..readOffset = {}
    BY <1>1
  <2>2. [i \in 1..readOffset |-> i - 1] = <<>>
    BY <2>1
  <2> QED BY <1>1, <2>2 DEF DeliveredInOrder
<1> QED BY <1>5, <1>6, <1>7, <1>8, <1>9, <1>10, <1>11 DEF IInv

\* Push and Read keep the invariant.
LEMMA StepKeeps == IInv /\ [Next]_vars => IInv'
<1> SUFFICES ASSUME IInv, [Next]_vars
             PROVE  IInv'
  OBVIOUS
<1>1. CASE Read
  <2>1. /\ failed = FALSE /\ finishedReading = FALSE /\ readPosition \in DOMAIN queuedFrames
        /\ UNCHANGED <<finAlone, gaps, failed, received, finReceived>>
    BY <1>1, ReadCases
  <2>2. PICK n \in Nat : /\ delivered' = delivered \o [i \in 1..n |-> readOffset + i - 1]
                         /\ ReadSome(n) \/ ReadRest(n)
    BY <1>1, ReadCases
  <2> QED BY <2>1, <2>2, ReadSomeKeeps, ReadRestKeeps
<1>2. ASSUME NEW frame \in Frames, AddStreamFrame(frame)
      PROVE  IInv'
  <2>1. CASE PushFin(frame)
    BY <1>2, <2>1, FinKeeps
  <2>2. CASE PushDuplicate(frame)
    BY <1>2, <2>2, DuplicateKeeps
  <2>3. CASE PushData(frame)
    <3>1. PICK from, to, start, end : Pushed(frame, from, to, start, end)
      BY <1>2, <2>3, PushDataPushes
    <3>2. frame.Len > 0
      BY <2>3 DEF PushData
    <3> QED BY <1>2, <3>1, <3>2, PushedKeeps
  <2> QED BY <1>2, <2>1, <2>2, <2>3 DEF AddStreamFrame
<1>3. CASE UNCHANGED vars
  <2>1. /\ finAlone' = finAlone /\ gaps' = gaps /\ queuedFrames' = queuedFrames
        /\ readPosition' = readPosition /\ readOffset' = readOffset
        /\ finishedReading' = finishedReading /\ failed' = failed /\ received' = received
        /\ finReceived' = finReceived /\ delivered' = delivered
    BY <1>3 DEF vars
  <2>2. Typing' /\ GapsApart' /\ GapsExact' /\ QueueSound'
    BY <2>1 DEF IInv, Typing, GapsApart, GapsExact, QueueSound, FrameEnd, MaxByteCount, Gap, QueuedFrame
  <2>3. Chained'
    BY <2>1 DEF IInv, Chained, Tiles, GapStarts, FrameEnd, MaxByteCount
  <2>4. ReadInFrame' /\ FinHeld' /\ Booleans' /\ DeliveredInOrder'
    BY <2>1 DEF IInv, ReadInFrame, FrameEnd, FinHeld, Booleans, DeliveredInOrder
  <2> QED BY <2>2, <2>3, <2>4 DEF IInv
<1> QED BY <1>1, <1>2, <1>3 DEF Next

\* The gaps, the queue and the reader's position fit together in every state: a chain of
\* queued frames covers what Push took and Read did not read.
THEOREM InductiveInvariant == Spec => []IInv
<1> QED BY InitEstablishes, StepKeeps, PTL DEF Spec

\* The application gets the bytes of the stream in order and once, for whatever frames the
\* network brings in whatever order (Push cuts them, Read joins them).
THEOREM BytesDeliveredInOrder == Spec => []DeliveredInOrder
<1>1. IInv => DeliveredInOrder
  BY DEF IInv
<1> QED BY <1>1, InductiveInvariant, PTL

\* The gap list of the sorter is what has not arrived, however Push splits and joins gaps.
THEOREM GapsAreExact == Spec => []GapsExact
<1>1. IInv => GapsExact
  BY DEF IInv
<1> QED BY <1>1, InductiveInvariant, PTL

\* Read finds the frame for the byte it wants whenever that byte came: no deletion of a
\* covered frame and no cut of a new one leaves the reader waiting in front of data.
THEOREM HeadIsAvailable == Spec => []HeadAvailable
<1>1. IInv => HeadAvailable
  <2> SUFFICES ASSUME IInv, ~failed, readPosition \in received
               PROVE  readPosition \in DOMAIN queuedFrames /\ queuedFrames[readPosition].Len > 0
    BY DEF HeadAvailable
  <2>1. Typing /\ GapsApart /\ GapsExact /\ QueueSound /\ failed = FALSE
    BY DEF IInv, Booleans
  <2>2. PICK C \in SUBSET DOMAIN queuedFrames : Tiles(C)
    BY <2>1 DEF IInv, Chained
  <2>3. readPosition \in DOMAIN queuedFrames
    BY <2>1, <2>2, HeadInChain
  <2>4. queuedFrames[readPosition].Len # 0
    BY <2>1, <2>3, SorterTypes DEF QueueSound
  <2>5. queuedFrames[readPosition].Len \in Int /\ 0 <= queuedFrames[readPosition].Len
    BY <2>1, <2>3, QueueType
  <2> QED BY <2>3, <2>4, <2>5
<1> QED BY <1>1, InductiveInvariant, PTL

\* A FIN that came is there when the reader has read all bytes, whether it came with the
\* last byte or in a frame of its own, before the data or after it.
THEOREM FinIsKept == Spec => []FinKept
<1>1. IInv => FinKept
  <2> SUFFICES ASSUME IInv, ~failed, finReceived, readPosition = StreamLength, ~finishedReading
               PROVE  StreamLength \in DOMAIN queuedFrames /\ queuedFrames[StreamLength].FinBit
    BY DEF FinKept
  <2>1. /\ Typing /\ QueueSound /\ failed = FALSE /\ finReceived = TRUE /\ finishedReading = FALSE
        /\ finAlone \in BOOLEAN
    BY DEF IInv, Booleans
  <2>2. StreamLength \in DOMAIN queuedFrames
    BY <2>1 DEF IInv, FinHeld
  <2>3. queuedFrames[StreamLength].Len = 0
    <3>1. /\ queuedFrames[StreamLength].Len \in Int /\ 0 <= queuedFrames[StreamLength].Len
          /\ FrameEnd(StreamLength) = StreamLength + queuedFrames[StreamLength].Len
          /\ StreamLength \in Int
      BY <2>1, <2>2, QueueType
    <3>2. FrameEnd(StreamLength) <= StreamLength
      BY <2>1, <2>2 DEF QueueSound
    <3> QED BY <3>1, <3>2
  <2>4. queuedFrames[StreamLength].FinBit = TRUE
    BY <2>1, <2>2, <2>3 DEF QueueSound
  <2> QED BY <2>2, <2>4
<1> QED BY <1>1, InductiveInvariant, PTL

=============================================================================
