---------------------------- MODULE AckFrameWire ----------------------------
(***************************************************************************)
(* ACK frames on the wire: internal/wire/ack_frame.go, applied to every    *)
(* frame a ReceivedPacketHandler can hand out.  close_path_frame.go has    *)
(* the same code a second time, for the frame of a CLOSE_PATH.             *)
(*                                                                         *)
(* A frame carries the number of the largest packet, the length of the     *)
(* highest range, and blocks of a gap and a length, from the highest range *)
(* down.  A gap is one byte, so a longer one is cut into blocks of length  *)
(* zero; the number of blocks is one byte too, so the lowest ranges may be *)
(* left out.  Both limits are 0xFF in the code and small constants here.   *)
(* Lengths and packet numbers are written with as many bytes as they need. *)
(***************************************************************************)
EXTENDS ReceivedPacketHandler
LOCAL INSTANCE SequencesExt

CONSTANTS
  MaxGap,                           \* the longest gap of one block, 0xFF
  MaxBlocks                         \* the most blocks of a frame, 0xFF

ASSUME WireAssumption == MaxGap \in Nat \ {0} /\ MaxBlocks \in Nat \ {0}

\* The session closes with an error: the frame was not written, or not accepted.
Refused == [refused |-> TRUE]

Size(range) == range.Last - range.First + 1

-----------------------------------------------------------------------------
(* The frame of GetAckFrame: AckRanges from the highest to the lowest, and *)
(* none at all if there is one range only.                                 *)

AckRanges(r) == [i \in 1..Len(r) |-> [First |-> r[Len(r) + 1 - i].Start, Last |-> r[Len(r) + 1 - i].End]]

AckFrame ==
  [LargestAcked |-> largestObserved,
   LowestAcked |-> ranges[1].Start,
   AckRanges |-> IF Len(ranges) > 1 THEN AckRanges(ranges) ELSE <<>>]

-----------------------------------------------------------------------------
(* Write *)

GapBelow(rs, i) == rs[i].First - rs[i + 1].Last - 1

\* The blocks a gap takes.
NumBlocks(gap) == (gap + MaxGap - 1) \div MaxGap

\* Fault: the last block holds gap % 0xFF, nothing if the gap is a multiple of it.
BlocksRemainder(gap, length) ==
  [i \in 1..NumBlocks(gap) |->
     IF i = NumBlocks(gap) THEN [gap |-> gap % MaxGap, length |-> length]
     ELSE [gap |-> MaxGap, length |-> 0]]

\* A gap and the range below it.
Blocks(gap, length) ==
  [i \in 1..NumBlocks(gap) |->
     IF i = NumBlocks(gap) THEN [gap |-> 1 + ((gap - 1) % MaxGap), length |-> length]
     ELSE [gap |-> MaxGap, length |-> 0]]

\* The blocks of the k ranges below the highest one.
BlocksOf(rs, k) == FlattenSeq([i \in 1..k |-> Blocks(GapBelow(rs, i), Size(rs[i + 1]))])

\* numWritableNackRanges: as many ranges as fit, beginning with the highest.
WritableBelow(rs) == Max({k \in 0..(Len(rs) - 1) : k = 0 \/ Len(BlocksOf(rs, k)) < MaxBlocks})

\* The count is announced before the blocks are written, and at least one range is: a
\* first gap that takes all the blocks leaves an inconsistent count behind, an error.
Write(f) ==
  IF f.AckRanges = <<>>
  THEN [LargestAcked |-> f.LargestAcked, missing |-> FALSE, blocks |-> <<>>,
        length |-> f.LargestAcked - f.LowestAcked + 1]
  ELSE IF \/ f.LargestAcked # f.AckRanges[1].Last
          \/ f.LowestAcked # f.AckRanges[Len(f.AckRanges)].First
          \/ WritableBelow(f.AckRanges) = 0
       THEN Refused
       ELSE [LargestAcked |-> f.LargestAcked, missing |-> TRUE,
             blocks |-> BlocksOf(f.AckRanges, WritableBelow(f.AckRanges)),
             length |-> Size(f.AckRanges[1])]

-----------------------------------------------------------------------------
(* ParseAckFrame *)

validateAckRanges(f) ==
  LET rs == f.AckRanges IN
  rs # <<>> => /\ Len(rs) > 1
               /\ rs[1].Last = f.LargestAcked
               /\ \A i \in 1..Len(rs) : rs[i].First <= rs[i].Last
               /\ \A i \in 1..(Len(rs) - 1) : rs[i].First > rs[i + 1].Last + 1

\* One block: it goes on with the range of a block of length zero, or begins a new one.
ParseBlock(s, block) ==
  LET last == s.ranges[Len(s.ranges)]
      end == last.First - block.gap - 1
  IN [ranges |-> IF s.inLongBlock
                 THEN [s.ranges EXCEPT ![Len(s.ranges)] =
                         [First |-> last.First - block.gap - block.length,
                          Last |-> last.Last - block.gap]]
                 ELSE Append(s.ranges, [First |-> end - block.length + 1, Last |-> end]),
      inLongBlock |-> block.length = 0,
      lastRangeComplete |-> block.length > 0 \/ (s.inLongBlock /\ s.lastRangeComplete)]

ParsedRanges(w) ==
  LET highest == [First |-> w.LargestAcked - w.length + 1, Last |-> w.LargestAcked]
      parsed == FoldLeft(ParseBlock,
                         [ranges |-> <<highest>>, inLongBlock |-> FALSE,
                          lastRangeComplete |-> FALSE], w.blocks)
  IN IF parsed.lastRangeComplete THEN parsed.ranges ELSE Front(parsed.ranges)

Parse(w) ==
  IF w = Refused \/ (w.missing /\ w.blocks = <<>>) \/ w.length \notin 1..w.LargestAcked
  THEN Refused
  ELSE LET rs == IF w.missing THEN ParsedRanges(w) ELSE <<>>
           f == [LargestAcked |-> w.LargestAcked, AckRanges |-> rs,
                 LowestAcked |-> IF w.missing THEN rs[Len(rs)].First
                                 ELSE w.LargestAcked + 1 - w.length]
       IN IF validateAckRanges(f) THEN f ELSE Refused

\* AckFrame.AcksPacket
AcksPacket(f, p) ==
  /\ p \in f.LowestAcked..f.LargestAcked
  /\ f.AckRanges # <<>> =>
       \E i \in 1..Len(f.AckRanges) : p \in f.AckRanges[i].First..f.AckRanges[i].Last

-----------------------------------------------------------------------------
\* The peer reads from an ACK frame exactly the packets the receiver has, from the largest
\* one down to LowestAcked: a cut leaves out the lowest ranges, and only if their blocks do not fit.  The
\* frame fails to be written only if the gap below the highest range takes all the blocks.
AckFrameSurvivesTheWire ==
  ranges # <<>> /\ ~closed /\ AckDue =>
    LET read == Parse(Write(AckFrame))
        tooLong == Len(ranges) > 1 /\ GapBelow(AckRanges(ranges), 1) > MaxGap * (MaxBlocks - 1)
        all == Len(BlocksOf(AckRanges(ranges), Len(ranges) - 1)) < MaxBlocks
    IN /\ (read = Refused) = tooLong
       /\ all => read.LowestAcked = ranges[1].Start
       /\ read # Refused =>
            \A p \in Numbers : AcksPacket(read, p) = (p \in Covered(ranges) /\ p >= read.LowestAcked)

=============================================================================
