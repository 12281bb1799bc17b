-------------------------- MODULE StreamFrameSorter --------------------------
(***************************************************************************)
(* The receiving side of one stream: stream_frame_sorter.go with the       *)
(* reading half of stream.go around it.  The session pushes STREAM frames  *)
(* under the stream's mutex, the application reads; both are atomic.       *)
(*                                                                         *)
(* The peer sends StreamLength bytes.  Its framer may cut a frame it sends *)
(* again at any byte (maybeSplitOffFrame), and cut the rest again, so      *)
(* frames of every extent occur; FinBit goes with the last byte, or with   *)
(* a frame of its own when the stream was closed after the data had left.  *)
(* The network loses, repeats and reorders them.                           *)
(*                                                                         *)
(* A byte is its position in the stream.  A queued frame has the position  *)
(* of its first byte, so that a frame stored at the wrong offset shows.    *)
(***************************************************************************)
EXTENDS Integers, Sequences, FiniteSets, FiniteSetsExt

CONSTANTS
  StreamLength,             \* bound: bytes the peer writes before it closes the stream
  MaxStreamFrameSorterGaps  \* protocol.MaxStreamFrameSorterGaps

ASSUME SorterAssumption ==
  /\ StreamLength \in Nat \ {0}
  /\ MaxStreamFrameSorterGaps \in Nat \ {0}

MaxByteCount == StreamLength + 1   \* stands for the end of the last gap, beyond every frame

VARIABLES
  finAlone,         \* the peer's FIN travels in a frame without data
  gaps,             \* the intervals of the stream not received yet
  queuedFrames,     \* Offset -> frame; frames that lie behind are left in it
  readPosition,     \* of the sorter: the offset of the frame to read next
  readOffset,       \* of the stream: bytes handed to the application
  finishedReading,  \* Read has returned io.EOF
  failed,           \* errTooManyGapsInReceivedStreamData closes the session
  received,         \* history: the bytes of all frames that came
  finReceived,      \* history: a frame with FinBit came
  delivered         \* history: the bytes the application got

vars == <<finAlone, gaps, queuedFrames, readPosition, readOffset, finishedReading, failed,
          received, finReceived, delivered>>

Frames ==
  {f \in [Offset : 0..StreamLength, Len : 0..StreamLength, FinBit : BOOLEAN] :
     /\ f.Offset + f.Len <= StreamLength
     /\ IF f.Len = 0 THEN finAlone /\ f.Offset = StreamLength /\ f.FinBit
        ELSE f.FinBit = (f.Offset + f.Len = StreamLength /\ ~finAlone)}

Init ==
  /\ finAlone \in BOOLEAN
  /\ gaps = {[Start |-> 0, End |-> MaxByteCount]}
  /\ queuedFrames = <<>>
  /\ readPosition = 0
  /\ readOffset = 0
  /\ finishedReading = FALSE
  /\ failed = FALSE
  /\ received = {}
  /\ finReceived = FALSE
  /\ delivered = <<>>

-----------------------------------------------------------------------------
Queue(offset, frame) ==
  [o \in DOMAIN queuedFrames \cup {offset} |-> IF o = offset THEN frame ELSE queuedFrames[o]]

Dequeue(queue, offsets) == [o \in DOMAIN queue \ offsets |-> queue[o]]

\* The bytes of the frame that the frame queued at its offset does not have already.
NewStart(frame) ==
  IF frame.Offset \in DOMAIN queuedFrames
  THEN frame.Offset + queuedFrames[frame.Offset].Len ELSE frame.Offset

\* The first gap that does not end before start, and the last one that begins before end.
FirstGap(start) ==
  CHOOSE g \in gaps : g.End >= start /\ \A h \in gaps : h.End >= start => g.Start <= h.Start
LastGap(end) ==
  CHOOSE g \in gaps : g.Start < end /\ \A h \in gaps : h.Start < end => h.Start <= g.Start

\* Push returns errDuplicateStreamData, which AddStreamFrame ignores.
IsDuplicate(frame) ==
  LET end == frame.Offset + frame.Len IN
  /\ frame.Len > 0
  /\ \/ NewStart(frame) >= end
     \/ FirstGap(NewStart(frame)).Start >= end

\* Fault: the gaps in between are left in the list.
FilledForgetMiddle(from, to, start, end) ==
  (gaps \ {from, to})
    \cup (IF start > from.Start THEN {[Start |-> from.Start, End |-> start]} ELSE {})
    \cup (IF end < to.End THEN {[Start |-> end, End |-> to.End]} ELSE {})

\* The gaps left once start..end is filled, which reaches from one gap to another.
Filled(from, to, start, end) ==
  {g \in gaps : g.Start < from.Start \/ g.Start > to.Start}
    \cup (IF start > from.Start THEN {[Start |-> from.Start, End |-> start]} ELSE {})
    \cup (IF end < to.End THEN {[Start |-> end, End |-> to.End]} ELSE {})

\* Fault: the offset moves, the data stays.
StoredUncut(frame, start, end) ==
  [first |-> frame.Offset, Len |-> end - start, FinBit |-> frame.FinBit]

\* What is stored of a frame: both ends are cut to the gaps, FinBit stays as it came.
Stored(frame, start, end) ==
  [first |-> start, Len |-> end - start, FinBit |-> frame.FinBit]

\* Fault: the frame behind the last gap is deleted as well.
CoveredOneTooMany(from, to) ==
  {g.End : g \in {h \in gaps : from.Start <= h.Start /\ h.Start <= to.Start}}

\* The queued frames that are deleted as covered: those right behind a gap that is filled.
Covered(from, to) == {g.End : g \in {h \in gaps : from.Start <= h.Start /\ h.Start < to.Start}}

\* Fault: FinBit of an empty frame is ignored.
PushFinDropped(frame) ==
  /\ frame.Len = 0 /\ frame.FinBit
  /\ UNCHANGED <<gaps, queuedFrames, failed>>

PushFin(frame) ==
  /\ frame.Len = 0 /\ frame.FinBit
  /\ queuedFrames' = Queue(frame.Offset, [first |-> frame.Offset, Len |-> 0, FinBit |-> TRUE])
  /\ UNCHANGED <<gaps, failed>>

PushDuplicate(frame) ==
  /\ IsDuplicate(frame)
  /\ UNCHANGED <<gaps, queuedFrames, failed>>

PushData(frame) ==
  /\ frame.Len > 0 /\ ~IsDuplicate(frame)
  /\ LET from  == FirstGap(NewStart(frame))
         to    == LastGap(frame.Offset + frame.Len)
         start == Max({NewStart(frame), from.Start})
         end   == Min({frame.Offset + frame.Len, to.End})
         queue == Dequeue(queuedFrames, Covered(from, to))
     IN /\ gaps' = Filled(from, to, start, end)
        /\ failed' = (Cardinality(gaps') > MaxStreamFrameSorterGaps)
        /\ queuedFrames' =
             IF failed' THEN queue
             ELSE [o \in DOMAIN queue \cup {start} |->
                     IF o = start THEN Stored(frame, start, end) ELSE queue[o]]

\* stream.AddStreamFrame
AddStreamFrame(frame) ==
  /\ ~failed
  /\ PushFin(frame) \/ PushDuplicate(frame) \/ PushData(frame)
  /\ received' = received \cup frame.Offset..(frame.Offset + frame.Len - 1)
  /\ finReceived' = (finReceived \/ frame.FinBit)
  /\ UNCHANGED <<finAlone, readPosition, readOffset, finishedReading, delivered>>

\* One round of the loop of stream.Read: it copies as much of the frame at the head as
\* fits into the caller's buffer and pops the frame once it is used up.
Read ==
  /\ ~failed /\ ~finishedReading
  /\ readPosition \in DOMAIN queuedFrames
  /\ LET frame == queuedFrames[readPosition]
         used  == readOffset - readPosition
     IN \E n \in (IF frame.Len = 0 THEN {0} ELSE 1..(frame.Len - used)) :
          /\ readOffset' = readOffset + n
          /\ delivered' = delivered \o [i \in 1..n |-> frame.first + used + i - 1]
          /\ IF used + n < frame.Len
             THEN UNCHANGED <<queuedFrames, readPosition, finishedReading>>
             ELSE /\ queuedFrames' = Dequeue(queuedFrames, {readPosition})
                  /\ readPosition' = readPosition + frame.Len
                  /\ finishedReading' = frame.FinBit
  /\ UNCHANGED <<finAlone, gaps, failed, received, finReceived>>

Next == Read \/ \E frame \in Frames : AddStreamFrame(frame)

Spec == Init /\ [][Next]_vars

-----------------------------------------------------------------------------
\* The application gets the bytes of the stream in their order, each once, however the
\* frames that brought them overlap.
DeliveredInOrder == delivered = [i \in 1..readOffset |-> i - 1]

\* The gaps are exactly what has not arrived: no byte that came is asked for again, and
\* none that is missing is taken for received.
GapsExact == UNION {g.Start..(g.End - 1) : g \in gaps} = (0..(MaxByteCount - 1)) \ received

\* The reader is never stuck in front of data: as long as the bytes at readPosition have
\* come, the frame queued under that offset has them.  Deleting covered frames and
\* cutting new ones must not tear the chain.
HeadAvailable ==
  ~failed /\ readPosition \in received =>
    readPosition \in DOMAIN queuedFrames /\ queuedFrames[readPosition].Len > 0

\* A FIN that came is not lost: once all bytes are read, Read can tell the end.
FinKept ==
  ~failed /\ finReceived /\ readPosition = StreamLength =>
    finishedReading \/ (StreamLength \in DOMAIN queuedFrames /\ queuedFrames[StreamLength].FinBit)

\* stream_test.go:530: Read "returns an EOF when reading past the offset, if the stream
\* received a finbit": io.EOF stands for the offset the peer closed the stream at.
EofAtFinalOffset == finishedReading => readOffset = StreamLength

=============================================================================
