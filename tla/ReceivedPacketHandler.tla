------------------------ MODULE ReceivedPacketHandler ------------------------
(***************************************************************************)
(* The receiving half of one path: ackhandler/received_packet_handler.go   *)
(* with its receivedPacketHistory, driven the way path.handlePacketImpl    *)
(* drives it: a packet is registered first, then its frames are handled,   *)
(* STOP_WAITING among them.                                                *)
(*                                                                         *)
(* From Version39 on, the multipath version included, every use of         *)
(* packetsReceivedSinceLastAck is switched off, so it is left out.  The    *)
(* clock is left out too: an armed ackAlarm may have passed at any time.   *)
(***************************************************************************)
EXTENDS Integers, Sequences, FiniteSets, FiniteSetsExt

CONSTANTS
  MaxPacketNumber,                  \* bound: packets arrive with numbers 1..MaxPacketNumber
  MaxTrackedReceivedAckRanges,      \* protocol.MaxTrackedReceivedAckRanges
  RetransmittablePacketsBeforeAck   \* protocol.RetransmittablePacketsBeforeAck

ASSUME LimitsAssumption ==
  /\ MaxPacketNumber \in Nat
  /\ MaxTrackedReceivedAckRanges \in Nat \ {0}
  /\ RetransmittablePacketsBeforeAck \in Nat \ {0}

Numbers == 1..MaxPacketNumber
Intervals == [Start : Numbers, End : Numbers]

VARIABLES
  largestObserved,
  lowerLimit,
  ranges,                           \* receivedPacketHistory.ranges, a list of intervals
  retransmittablePacketsReceivedSinceLastAck,
  ackQueued,
  ackAlarm,                         \* !ackAlarm.IsZero()
  lastAck,                          \* lastAck.LargestAcked, 0 before the first ACK frame
  closed                            \* a returned error is closing the session

vars == <<largestObserved, lowerLimit, ranges, retransmittablePacketsReceivedSinceLastAck,
          ackQueued, ackAlarm, lastAck, closed>>

Init ==
  /\ largestObserved = 0
  /\ lowerLimit = 0
  /\ ranges = <<>>
  /\ retransmittablePacketsReceivedSinceLastAck = 0
  /\ ackQueued = FALSE
  /\ ackAlarm = FALSE
  /\ lastAck = 0
  /\ closed = FALSE

-----------------------------------------------------------------------------
(* receivedPacketHistory *)

Singleton(p) == [Start |-> p, End |-> p]

\* Fault: a gap of one number counts as touching.
MergeWithPreviousGap(r, i) ==
  IF i > 1 /\ r[i - 1].End + 2 >= r[i].Start
  THEN SubSeq(r, 1, i - 2) \o <<[Start |-> r[i - 1].Start, End |-> r[i].End]>>
         \o SubSeq(r, i + 1, Len(r))
  ELSE r

\* Merge the range at i with the one before it if they touch.
MergeWithPrevious(r, i) ==
  IF i > 1 /\ r[i - 1].End + 1 = r[i].Start
  THEN SubSeq(r, 1, i - 2) \o <<[Start |-> r[i - 1].Start, End |-> r[i].End]>>
         \o SubSeq(r, i + 1, Len(r))
  ELSE r

\* The loop of ReceivedPacket runs from the back over the ranges that start beyond
\* p + 1 and ends at the first other one; 0 if there is none.
Reached(r, p) ==
  LET at == {i \in 1..Len(r) : r[i].Start <= p + 1} IN IF at = {} THEN 0 ELSE Max(at)

\* Fault: a range extended at its beginning is not merged with the one before it.
InsertNoMerge(r, p) ==
  LET i == Reached(r, p) IN
  IF i = 0 THEN <<Singleton(p)>> \o r
  ELSE IF p \in r[i].Start..r[i].End THEN r
  ELSE IF r[i].End = p - 1 THEN [r EXCEPT ![i].End = p]
  ELSE IF r[i].Start = p + 1 THEN [r EXCEPT ![i].Start = p]
  ELSE SubSeq(r, 1, i) \o <<Singleton(p)>> \o SubSeq(r, i + 1, Len(r))

\* receivedPacketHistory.ReceivedPacket
Insert(r, p) ==
  LET i == Reached(r, p) IN
  IF i = 0 THEN <<Singleton(p)>> \o r
  ELSE IF p \in r[i].Start..r[i].End THEN r
  ELSE IF r[i].End = p - 1 THEN MergeWithPrevious([r EXCEPT ![i].End = p], i)
  ELSE IF r[i].Start = p + 1 THEN MergeWithPrevious([r EXCEPT ![i].Start = p], i)
  ELSE SubSeq(r, 1, i) \o <<Singleton(p)>> \o SubSeq(r, i + 1, Len(r))

\* Fault: a range that holds p loses one number too few.
DeleteUpToOffByOne(r, p) ==
  LET rest == SubSeq(r, Cardinality({i \in 1..Len(r) : r[i].End <= p}) + 1, Len(r)) IN
  [i \in 1..Len(rest) |->
     IF rest[i].Start <= p THEN [rest[i] EXCEPT !.Start = p] ELSE rest[i]]

\* receivedPacketHistory.DeleteUpTo: whole ranges go from the front, the next one is trimmed.
DeleteUpTo(r, p) ==
  LET rest == SubSeq(r, Cardinality({i \in 1..Len(r) : r[i].End <= p}) + 1, Len(r)) IN
  [i \in 1..Len(rest) |->
     IF rest[i].Start <= p THEN [rest[i] EXCEPT !.Start = p + 1] ELSE rest[i]]

Covered(r) == UNION {r[i].Start..r[i].End : i \in 1..Len(r)}

-----------------------------------------------------------------------------
\* The count of retransmittable packets, cut at the value it is compared with.
CountUpTo(count) ==
  IF count < RetransmittablePacketsBeforeAck THEN count + 1 ELSE count

\* What asks for an ACK at once: the first packet, one that was reported missing, a new
\* missing range, or enough retransmittable packets.
AckAtOnce(p, retransmittable, count, r) ==
  \/ lastAck = 0
  \/ p < lastAck
  \/ r # <<>> /\ r[Len(r)].Start > lastAck
  \/ retransmittable /\ count >= RetransmittablePacketsBeforeAck

\* Fault: the alarm waits for the second retransmittable packet.
MaybeQueueAckLate(p, retransmittable, r) ==
  LET count == IF retransmittable THEN CountUpTo(retransmittablePacketsReceivedSinceLastAck)
               ELSE retransmittablePacketsReceivedSinceLastAck
      queued == ackQueued \/ AckAtOnce(p, retransmittable, count, r)
  IN /\ retransmittablePacketsReceivedSinceLastAck' = count
     /\ ackQueued' = queued
     /\ ackAlarm' = (~queued /\ (ackAlarm \/ (retransmittable /\ count > 1)))

\* maybeQueueAck, with the history r that holds p already.
MaybeQueueAck(p, retransmittable, r) ==
  LET count == IF retransmittable THEN CountUpTo(retransmittablePacketsReceivedSinceLastAck)
               ELSE retransmittablePacketsReceivedSinceLastAck
      queued == ackQueued \/ AckAtOnce(p, retransmittable, count, r)
  IN /\ retransmittablePacketsReceivedSinceLastAck' = count
     /\ ackQueued' = queued
     /\ ackAlarm' = (~queued /\ (ackAlarm \/ retransmittable))

\* Fault: SetLowerLimit(leastUnacked) instead of SetLowerLimit(leastUnacked - 1).
HandlePacketLimitOffByOne(p, retransmittable, leastUnacked) ==
  /\ ~closed
  /\ p <= lowerLimit \/ Len(ranges) < MaxTrackedReceivedAckRanges
  /\ largestObserved' = IF p > largestObserved THEN p ELSE largestObserved
  /\ lowerLimit' = IF leastUnacked = 0 THEN lowerLimit ELSE leastUnacked
  /\ LET r == IF p <= lowerLimit THEN ranges ELSE Insert(ranges, p) IN
     /\ ranges' = IF leastUnacked = 0 THEN r ELSE DeleteUpTo(r, leastUnacked)
     /\ IF p <= lowerLimit
        THEN UNCHANGED <<retransmittablePacketsReceivedSinceLastAck, ackQueued, ackAlarm>>
        ELSE MaybeQueueAck(p, retransmittable, r)
  /\ UNCHANGED <<lastAck, closed>>

\* path.handlePacketImpl: ReceivedPacket, then SetLowerLimit(leastUnacked - 1) if the
\* packet carries a STOP_WAITING frame.  largestObserved moves even when the packet is
\* below the limit and otherwise ignored.
HandlePacket(p, retransmittable, leastUnacked) ==
  /\ ~closed
  /\ p <= lowerLimit \/ Len(ranges) < MaxTrackedReceivedAckRanges
  /\ largestObserved' = IF p > largestObserved THEN p ELSE largestObserved
  /\ lowerLimit' = IF leastUnacked = 0 THEN lowerLimit ELSE leastUnacked - 1
  /\ LET r == IF p <= lowerLimit THEN ranges ELSE Insert(ranges, p) IN
     /\ ranges' = IF leastUnacked = 0 THEN r ELSE DeleteUpTo(r, leastUnacked - 1)
     /\ IF p <= lowerLimit
        THEN UNCHANGED <<retransmittablePacketsReceivedSinceLastAck, ackQueued, ackAlarm>>
        ELSE MaybeQueueAck(p, retransmittable, r)
  /\ UNCHANGED <<lastAck, closed>>

\* errTooManyOutstandingReceivedAckRanges, returned before the packet is looked at.
TooManyRanges(p) ==
  /\ ~closed
  /\ p > lowerLimit
  /\ Len(ranges) >= MaxTrackedReceivedAckRanges
  /\ largestObserved' = IF p > largestObserved THEN p ELSE largestObserved
  /\ closed' = TRUE
  /\ UNCHANGED <<lowerLimit, ranges, retransmittablePacketsReceivedSinceLastAck, ackQueued,
                 ackAlarm, lastAck>>

AckDue == ackQueued \/ ackAlarm

\* Fault: only the oldest range goes into the frame.
AckFrameNumbersFirstRange == ranges[1].Start..ranges[1].End

\* Fault: the frame leaves the AckRanges out even if there is more than one.
AckFrameNumbersNoRanges == ranges[1].Start..largestObserved

\* The numbers an ACK frame built now acknowledges: AckRanges is left out when there
\* is one range only, and the frame then reads as LowestAcked..LargestAcked.
AckFrameNumbers ==
  IF Len(ranges) > 1 THEN Covered(ranges) ELSE ranges[1].Start..largestObserved

\* GetAckFrame
GetAckFrame ==
  /\ ~closed
  /\ AckDue
  /\ lastAck' = largestObserved
  /\ ackAlarm' = FALSE
  /\ ackQueued' = FALSE
  /\ retransmittablePacketsReceivedSinceLastAck' = 0
  /\ UNCHANGED <<largestObserved, lowerLimit, ranges, closed>>

Next ==
  \/ \E p \in Numbers, retransmittable \in BOOLEAN : \E leastUnacked \in 0..p :
       HandlePacket(p, retransmittable, leastUnacked)
  \/ \E p \in Numbers : TooManyRanges(p)
  \/ GetAckFrame

Spec == Init /\ [][Next]_vars

-----------------------------------------------------------------------------
TypeOK ==
  /\ largestObserved \in 0..MaxPacketNumber
  /\ lowerLimit \in 0..MaxPacketNumber
  /\ ranges \in Seq(Intervals)
  /\ retransmittablePacketsReceivedSinceLastAck \in 0..RetransmittablePacketsBeforeAck
  /\ ackQueued \in BOOLEAN
  /\ ackAlarm \in BOOLEAN
  /\ lastAck \in 0..MaxPacketNumber
  /\ closed \in BOOLEAN

\* The list stays sorted, its ranges are not empty and there is a gap between any two:
\* the peer's validateAckRanges refuses every other frame and closes the session.
RangesWellFormed ==
  /\ \A i \in 1..Len(ranges) : ranges[i].Start <= ranges[i].End
  /\ \A i \in 1..(Len(ranges) - 1) : ranges[i].End + 1 < ranges[i + 1].Start

\* GetAckFrame reads the last range without looking whether there is one, and the peer
\* takes LargestAcked for the end of the first AckRange.  Whatever STOP_WAITING deleted,
\* a frame that is due has a range, and the highest one ends at largestObserved.
AckFrameSound ==
  AckDue /\ ~closed => ranges # <<>> /\ ranges[Len(ranges)].End = largestObserved

\* A retransmittable packet that no ACK frame has covered yet keeps an ACK due.
RetransmittableIsDue == retransmittablePacketsReceivedSinceLastAck > 0 => AckDue

\* The interval list implements a set of numbers.
Reported == INSTANCE ReceivedNumbers
              WITH numbers <- Covered(ranges), limit <- lowerLimit, stopped <- closed
ImplementsReceivedNumbers == Reported!Spec

=============================================================================
