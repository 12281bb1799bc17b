-------------------------- MODULE AckExchangeProofs --------------------------
(***************************************************************************)
(* The invariants of AckExchange, for any number of packets in either      *)
(* direction, lost, repeated and reordered at will, and that               *)
(* acknowledgements never take the sender back.                            *)
(*                                                                         *)
(* Each host keeps the inductive invariant proved of its handler alone;    *)
(* what is new here is what the two say about each other.  The proofs of   *)
(* the handlers are instances of their own, so the first lemmas say that   *)
(* an action of the composition's instance is one of theirs.               *)
(*                                                                         *)
(* The last section is about the packet numbers the two write and read:    *)
(* the bytes they leave out are found again.                               *)
(***************************************************************************)
EXTENDS AckExchange, PacketNumbers, FiniteSetTheorems, SequenceTheorems, TLAPS

ReceiverProofs == INSTANCE ReceivedPacketHandlerProofs
SenderProofs == INSTANCE SentPacketHandlerProofs WITH MaxSkip <- 0, MaxTrackedSkippedPackets <- 1

-----------------------------------------------------------------------------
(* The instances of the proofs are those of the handlers. *)

\* Both instances count alike.
LEMMA CardinalityIsProofs ==
  /\ \A S : Receiver!Cardinality(S) = ReceiverProofs!Cardinality(S)
  /\ \A S : Sender!Cardinality(S) = SenderProofs!Cardinality(S)
<1>1. \A S : Receiver!Cardinality(S) = ReceiverProofs!Cardinality(S)
  BY Zenon DEF Receiver!Cardinality, ReceiverProofs!Cardinality
<1>2. \A S : Sender!Cardinality(S) = SenderProofs!Cardinality(S)
  BY Zenon DEF Sender!Cardinality, SenderProofs!Cardinality
<1> QED BY <1>1, <1>2

\* The start, a refused packet and an ACK frame of the receiving host.
LEMMA ReceiverIsProofs ==
  /\ Receiver!Init => ReceiverProofs!Init
  /\ \A r : Receiver!Covered(r) = ReceiverProofs!Covered(r)
  /\ \A p : Receiver!TooManyRanges(p) => ReceiverProofs!TooManyRanges(p)
  /\ Receiver!GetAckFrame => ReceiverProofs!GetAckFrame
  /\ Receiver!AckFrameNumbers = ReceiverProofs!AckFrameNumbers
<1>1. Receiver!Init => ReceiverProofs!Init
  BY DEF Receiver!Init, ReceiverProofs!Init
<1>2. \A r : Receiver!Covered(r) = ReceiverProofs!Covered(r)
  BY Zenon DEF Receiver!Covered, ReceiverProofs!Covered
<1>3. \A p : Receiver!TooManyRanges(p) => ReceiverProofs!TooManyRanges(p)
  BY DEF Receiver!TooManyRanges, ReceiverProofs!TooManyRanges
<1>4. Receiver!GetAckFrame => ReceiverProofs!GetAckFrame
  BY DEF Receiver!GetAckFrame, ReceiverProofs!GetAckFrame, Receiver!AckDue, ReceiverProofs!AckDue
<1>5. Receiver!AckFrameNumbers = ReceiverProofs!AckFrameNumbers
  BY Zenon DEF Receiver!AckFrameNumbers, ReceiverProofs!AckFrameNumbers, Receiver!Covered, ReceiverProofs!Covered
<1> QED BY <1>1, <1>2, <1>3, <1>4, <1>5

\* A packet at the receiving host.
LEMMA HandlePacketIsProofs ==
  ASSUME NEW p, NEW retransmittable, NEW leastUnacked,
         Receiver!HandlePacket(p, retransmittable, leastUnacked)
  PROVE  ReceiverProofs!HandlePacket(p, retransmittable, leastUnacked)
<1>1. \A r, i : Receiver!MergeWithPrevious(r, i) = ReceiverProofs!MergeWithPrevious(r, i)
  BY Zenon DEF Receiver!MergeWithPrevious, ReceiverProofs!MergeWithPrevious
<1>2. \A r, i : Receiver!Reached(r, i) = ReceiverProofs!Reached(r, i)
  BY Zenon DEF Receiver!Reached, ReceiverProofs!Reached, Receiver!Max, ReceiverProofs!Max
<1>3. \A r : Receiver!Insert(r, p) = ReceiverProofs!Insert(r, p)
  BY <1>1, <1>2 DEF Receiver!Insert, ReceiverProofs!Insert,
     Receiver!Singleton, ReceiverProofs!Singleton
<1>4. \A r, m : Receiver!DeleteUpTo(r, m) = ReceiverProofs!DeleteUpTo(r, m)
  BY Zenon DEF Receiver!DeleteUpTo, ReceiverProofs!DeleteUpTo,
     Receiver!Cardinality, ReceiverProofs!Cardinality
<1> QED BY <1>3, <1>4
  DEF Receiver!HandlePacket, ReceiverProofs!HandlePacket,
      Receiver!MaybeQueueAck, ReceiverProofs!MaybeQueueAck,
      Receiver!AckAtOnce, ReceiverProofs!AckAtOnce,
      Receiver!CountUpTo, ReceiverProofs!CountUpTo

\* The start, a packet, a retransmission and a STOP_WAITING frame of the sending host.
LEMMA SenderIsProofs ==
  /\ Sender!Init => SenderProofs!Init
  /\ \A p, content : Sender!SentPacket(p, content) => SenderProofs!SentPacket(p, content)
  /\ Sender!DequeuePacketForRetransmission => SenderProofs!DequeuePacketForRetransmission
  /\ Sender!GetStopWaitingFrame => SenderProofs!GetStopWaitingFrame
<1>1. Sender!Init => SenderProofs!Init
  BY DEF Sender!Init, SenderProofs!Init
<1>2. Sender!UpdateLossDetectionAlarm => SenderProofs!UpdateLossDetectionAlarm
  BY Zenon DEF Sender!UpdateLossDetectionAlarm, SenderProofs!UpdateLossDetectionAlarm,
     Sender!AlarmAfter, SenderProofs!AlarmAfter
<1>3. \A S : Sender!Newest(S) = SenderProofs!Newest(S)
  BY CardinalityIsProofs DEF Sender!Newest, SenderProofs!Newest
<1>4. \A p, content : Sender!SentPacket(p, content) => SenderProofs!SentPacket(p, content)
  BY <1>2, <1>3, CardinalityIsProofs DEF Sender!SentPacket, SenderProofs!SentPacket
<1>5. Sender!DequeuePacketForRetransmission => SenderProofs!DequeuePacketForRetransmission
  BY DEF Sender!DequeuePacketForRetransmission, SenderProofs!DequeuePacketForRetransmission
<1>6. Sender!GetStopWaitingFrame => SenderProofs!GetStopWaitingFrame
  BY DEF Sender!GetStopWaitingFrame, SenderProofs!GetStopWaitingFrame
<1> QED BY <1>1, <1>4, <1>5, <1>6

\* The alarm and an ACK frame at the sending host.
LEMMA LossDetectionIsProofs ==
  /\ Sender!OnAlarm => SenderProofs!OnAlarm
  /\ \A largest, ranges_, with :
       Sender!ReceivedAck(largest, ranges_, with) => SenderProofs!ReceivedAck(largest, ranges_, with)
<1>1. Sender!UpdateLossDetectionAlarm => SenderProofs!UpdateLossDetectionAlarm
  BY Zenon DEF Sender!UpdateLossDetectionAlarm, SenderProofs!UpdateLossDetectionAlarm,
     Sender!AlarmAfter, SenderProofs!AlarmAfter
<1>2. \A S : Sender!ListOrders(S) = SenderProofs!ListOrders(S)
  BY CardinalityIsProofs DEF Sender!ListOrders, SenderProofs!ListOrders
<1>3. \A S, n : Sender!Overdue(S, n) = SenderProofs!Overdue(S, n)
  BY Zenon DEF Sender!Overdue, SenderProofs!Overdue
<1>4. \A sw, order : Sender!StopWaitingRequeued(sw, order) = SenderProofs!StopWaitingRequeued(sw, order)
  BY Zenon DEF Sender!StopWaitingRequeued, SenderProofs!StopWaitingRequeued
<1>5. \A sw, n : Sender!StopWaitingReceivedAck(sw, n) = SenderProofs!StopWaitingReceivedAck(sw, n)
  BY Zenon DEF Sender!StopWaitingReceivedAck, SenderProofs!StopWaitingReceivedAck
<1>6. \A f, l, o : Sender!RemovePackets(f, l, o) => SenderProofs!RemovePackets(f, l, o)
  BY CardinalityIsProofs DEF Sender!RemovePackets, SenderProofs!RemovePackets
<1>7. \A S : Sender!AlarmLoses(S) => SenderProofs!AlarmLoses(S)
  BY <1>2, <1>4, <1>6 DEF Sender!AlarmLoses, SenderProofs!AlarmLoses
<1>8. \A p : Sender!IsRetransmittable(p) = SenderProofs!IsRetransmittable(p)
  BY DEF Sender!IsRetransmittable, SenderProofs!IsRetransmittable
<1>9. Sender!CancelAlarm => SenderProofs!CancelAlarm
  BY <1>8 DEF Sender!CancelAlarm, SenderProofs!CancelAlarm
<1>10. Sender!EarlyRetransmit => SenderProofs!EarlyRetransmit
  BY <1>3, <1>7, <1>8 DEF Sender!EarlyRetransmit, SenderProofs!EarlyRetransmit
<1>11. Sender!TailLossProbe => SenderProofs!TailLossProbe
  BY <1>7, <1>8 DEF Sender!TailLossProbe, SenderProofs!TailLossProbe
<1>12. Sender!RetransmissionTimeout => SenderProofs!RetransmissionTimeout
  BY <1>7, <1>8, CardinalityIsProofs DEF Sender!RetransmissionTimeout, SenderProofs!RetransmissionTimeout
<1>13. Sender!OnAlarm => SenderProofs!OnAlarm
  BY <1>1, <1>9, <1>10, <1>11, <1>12 DEF Sender!OnAlarm, SenderProofs!OnAlarm
<1>14. \A p, h, l : Sender!AboveInOrderAcked(p, h, l) <=> SenderProofs!AboveInOrderAcked(p, h, l)
  BY DEF Sender!AboveInOrderAcked, SenderProofs!AboveInOrderAcked
<1>15. \A l, w : Sender!InOrder(l, w) => SenderProofs!InOrder(l, w)
  BY DEF Sender!InOrder, SenderProofs!InOrder
<1>16. \A l : Sender!AckForUnsentPacket(l) => SenderProofs!AckForUnsentPacket(l)
  BY DEF Sender!AckForUnsentPacket, SenderProofs!AckForUnsentPacket
<1>17. \A l, w : Sender!RepeatedAck(l, w) => SenderProofs!RepeatedAck(l, w)
  BY <1>14, <1>15 DEF Sender!RepeatedAck, SenderProofs!RepeatedAck
<1>18. \A l, r, w : Sender!AckForSkippedPacket(l, r, w) => SenderProofs!AckForSkippedPacket(l, r, w)
  BY <1>14, <1>15 DEF Sender!AckForSkippedPacket, SenderProofs!AckForSkippedPacket
<1>19. \A l, n : Sender!UpdateRTT(l, n) => SenderProofs!UpdateRTT(l, n)
  BY DEF Sender!UpdateRTT, SenderProofs!UpdateRTT
<1>20. \A l : Sender!GarbageCollectSkippedPackets(l) => SenderProofs!GarbageCollectSkippedPackets(l)
  BY <1>14 DEF Sender!GarbageCollectSkippedPackets, SenderProofs!GarbageCollectSkippedPackets
<1>21. \A l, r, w : Sender!ProcessedAck(l, r, w) => SenderProofs!ProcessedAck(l, r, w)
  BY <1>1, <1>2, <1>3, <1>4, <1>5, <1>6, <1>14, <1>15, <1>19, <1>20
  DEF Sender!ProcessedAck, SenderProofs!ProcessedAck
<1>22. \A l, r, w : Sender!ReceivedAck(l, r, w) => SenderProofs!ReceivedAck(l, r, w)
  BY <1>16, <1>17, <1>18, <1>21 DEF Sender!ReceivedAck, SenderProofs!ReceivedAck
<1> QED BY <1>13, <1>22
-----------------------------------------------------------------------------
(* The inductive invariant. *)

\* A packet on its way has a number that was sent, and its STOP_WAITING fits under it.
PacketsSound ==
  \A m \in packets : /\ m.number \in 1..lastSentPacketNumber
                     /\ m.retransmittable \in BOOLEAN
                     /\ m.leastUnacked \in 0..m.number

\* From the sender's numbers over what was received to what is reported and acknowledged.
ReceivedSound ==
  /\ received \subseteq 1..lastSentPacketNumber
  /\ ReceiverProofs!Covered(ranges) \subseteq received
  /\ acked \subseteq received

\* The ACK frames on their way, in the order they were sent.
AcksSound ==
  /\ IsFiniteSet(acks)
  /\ Cardinality(acks) <= MaxAckPackets
  /\ \A a \in acks : /\ a.number \in 1..Cardinality(acks)
                     /\ a.largest \in a.numbers
                     /\ a.numbers \subseteq received
                     /\ a.largest <= largestObserved
  /\ \A a, b \in acks : a.number <= b.number => a.largest <= b.largest

\* A frame that the sender would still take does not lie behind what it has seen.
AckedInOrder ==
  /\ LargestAcked <= largestObserved
  /\ \A a \in acks : a.number > largestReceivedPacketWithAck => LargestAcked <= a.largest

\* The repeated STOP_WAITING frame is the last one written.
StopWaitingSound ==
  /\ stopWaitingManager.lastStopWaitingFrame = stopWaitingManager.largestLeastUnackedSent
  /\ stopWaiting \in Nat
  /\ StopWaitingWritable

IInv ==
  /\ SenderProofs!IInv
  /\ ReceiverProofs!IInv
  /\ PacketsSound
  /\ ReceivedSound
  /\ AcksSound
  /\ AckedInOrder
  /\ StopWaitingSound

\* The numbers the two handlers keep are natural numbers.
LEMMA Types ==
  ASSUME SenderProofs!IInv, ReceiverProofs!IInv
  PROVE  /\ lastSentPacketNumber \in Nat /\ lastSentPacketNumber <= MaxPacketNumber
         /\ LargestAcked \in Nat
         /\ largestReceivedPacketWithAck \in Nat
         /\ largestObserved \in Nat
         /\ stopWaitingManager \in SenderProofs!StopWaitingType
         /\ stopWaitingManager.nextLeastUnacked \in Nat
         /\ stopWaitingManager.largestLeastUnackedSent \in Nat
         /\ stopWaitingManager.nextLeastUnacked <= lastSentPacketNumber + 1
         /\ stopWaitingManager.largestLeastUnackedSent <= stopWaitingManager.nextLeastUnacked
         /\ MaxPacketNumber \in Nat
<1>1. SenderProofs!TypeOK /\ SenderProofs!StopWaitingCoversRequeued /\ ReceiverProofs!TypeOK
  BY DEF SenderProofs!IInv, ReceiverProofs!IInv
<1>2. stopWaitingManager \in SenderProofs!StopWaitingType
  BY <1>1 DEF SenderProofs!TypeOK, SenderProofs!StopWaitingType
<1>3. /\ stopWaitingManager.nextLeastUnacked \in 0..(MaxPacketNumber + 1)
      /\ stopWaitingManager.largestLeastUnackedSent \in 0..(MaxPacketNumber + 1)
  BY <1>2 DEF SenderProofs!StopWaitingType
<1>4. /\ lastSentPacketNumber \in 0..MaxPacketNumber
      /\ LargestAcked \in 0..MaxPacketNumber
      /\ largestReceivedPacketWithAck \in 0..MaxAckPackets
      /\ largestObserved \in 0..MaxPacketNumber
  BY <1>1 DEF SenderProofs!TypeOK, ReceiverProofs!TypeOK
<1>5. /\ stopWaitingManager.nextLeastUnacked <= lastSentPacketNumber + 1
      /\ stopWaitingManager.largestLeastUnackedSent <= stopWaitingManager.nextLeastUnacked
  BY <1>1 DEF SenderProofs!StopWaitingCoversRequeued
<1> QED BY <1>2, <1>3, <1>4, <1>5, ExchangeAssumption

\* Received numbers are integers the sender has used.
LEMMA ReceivedType ==
  ASSUME SenderProofs!IInv, ReceiverProofs!IInv, ReceivedSound
  PROVE  /\ received \in SUBSET Int
         /\ received \subseteq 1..lastSentPacketNumber
         /\ \A n \in received : n \in Int
<1>1. lastSentPacketNumber \in Nat
  BY Types
<1>2. received \subseteq 1..lastSentPacketNumber
  BY DEF ReceivedSound
<1>3. ASSUME NEW n \in received PROVE n \in Int
  BY <1>1, <1>2
<1> QED BY <1>2, <1>3

\* Loss and acknowledgement move nextLeastUnacked only.
LEMMA StopWaitingKept ==
  ASSUME NEW sw \in SenderProofs!StopWaitingType, NEW order, NEW largest
  PROVE  LET requeuedSW == SenderProofs!StopWaitingRequeued(sw, order)
             ackedSW == SenderProofs!StopWaitingReceivedAck(requeuedSW, largest) IN
         /\ requeuedSW.lastStopWaitingFrame = sw.lastStopWaitingFrame
         /\ requeuedSW.largestLeastUnackedSent = sw.largestLeastUnackedSent
         /\ ackedSW.lastStopWaitingFrame = sw.lastStopWaitingFrame
         /\ ackedSW.largestLeastUnackedSent = sw.largestLeastUnackedSent
<1> DEFINE r == SenderProofs!StopWaitingRequeued(sw, order)
<1>1. \A n : /\ [sw EXCEPT !.nextLeastUnacked = n].lastStopWaitingFrame = sw.lastStopWaitingFrame
             /\ [sw EXCEPT !.nextLeastUnacked = n].largestLeastUnackedSent = sw.largestLeastUnackedSent
             /\ DOMAIN [sw EXCEPT !.nextLeastUnacked = n] = DOMAIN sw
             /\ DOMAIN sw = {"nextLeastUnacked", "largestLeastUnackedSent", "lastStopWaitingFrame"}
  BY DEF SenderProofs!StopWaitingType
<1>2. \E n : r \in {sw, [sw EXCEPT !.nextLeastUnacked = n]}
  BY Zenon DEF SenderProofs!StopWaitingRequeued
<1>3. /\ r.lastStopWaitingFrame = sw.lastStopWaitingFrame
      /\ r.largestLeastUnackedSent = sw.largestLeastUnackedSent
  BY <1>1, <1>2
<1>4. SenderProofs!StopWaitingReceivedAck(r, largest) \in {r, [r EXCEPT !.nextLeastUnacked = largest + 1]}
  BY Zenon DEF SenderProofs!StopWaitingReceivedAck
<1>5. /\ [r EXCEPT !.nextLeastUnacked = largest + 1].lastStopWaitingFrame = r.lastStopWaitingFrame
      /\ [r EXCEPT !.nextLeastUnacked = largest + 1].largestLeastUnackedSent = r.largestLeastUnackedSent
  <2> HIDE DEF r
  <2>1. PICK n : r \in {sw, [sw EXCEPT !.nextLeastUnacked = n]}
    BY <1>2
  <2>2. "lastStopWaitingFrame" \in DOMAIN r /\ "largestLeastUnackedSent" \in DOMAIN r
    BY <1>1, <2>1
  <2> QED BY <2>2, Zenon
<1> QED BY <1>3, <1>4, <1>5

-----------------------------------------------------------------------------
(* The sending host's steps, as far as the other host can see them. *)

\* What a step of the sender that sends nothing and takes no ACK keeps.
SenderQuiet ==
  UNCHANGED <<lastSentPacketNumber, LargestAcked, largestReceivedPacketWithAck, acked>>

\* The frame kept for GetStopWaitingFrame(true) stays the one that was counted.
StopWaitingUnsent ==
  /\ stopWaitingManager'.lastStopWaitingFrame = stopWaitingManager.lastStopWaitingFrame
  /\ stopWaitingManager'.largestLeastUnackedSent = stopWaitingManager.largestLeastUnackedSent

\* The alarm acknowledges nothing.
LEMMA AlarmSeen ==
  ASSUME SenderProofs!IInv, ReceiverProofs!IInv, SenderProofs!OnAlarm
  PROVE  SenderQuiet /\ StopWaitingUnsent
<1>1. stopWaitingManager \in SenderProofs!StopWaitingType
  BY Types
<1>2. acked \cup {} = acked
  OBVIOUS
<1>3. \A S : SenderProofs!AlarmLoses(S) => UNCHANGED acked /\ StopWaitingUnsent
  <2> SUFFICES ASSUME NEW S, SenderProofs!AlarmLoses(S)
               PROVE  UNCHANGED acked /\ StopWaitingUnsent
    OBVIOUS
  <2>1. PICK order : /\ SenderProofs!RemovePackets({}, S, order)
                     /\ stopWaitingManager' = SenderProofs!StopWaitingRequeued(stopWaitingManager, order)
    BY DEF SenderProofs!AlarmLoses
  <2>2. acked' = acked \cup {}
    BY <2>1 DEF SenderProofs!RemovePackets
  <2> QED BY <1>1, <1>2, <2>1, <2>2, StopWaitingKept DEF StopWaitingUnsent
<1>4. UNCHANGED <<lastSentPacketNumber, LargestAcked, largestReceivedPacketWithAck>>
  BY DEF SenderProofs!OnAlarm
<1>5. \/ UNCHANGED <<acked, stopWaitingManager>>
      \/ \E S : SenderProofs!AlarmLoses(S)
  BY DEF SenderProofs!OnAlarm, SenderProofs!CancelAlarm, SenderProofs!EarlyRetransmit,
         SenderProofs!TailLossProbe, SenderProofs!RetransmissionTimeout
<1> QED BY <1>3, <1>4, <1>5 DEF SenderQuiet, StopWaitingUnsent

\* An ACK frame acknowledges its own numbers only, and only a frame that came after the
\* last one counted moves LargestAcked.
LEMMA AckSeen ==
  ASSUME SenderProofs!IInv, ReceiverProofs!IInv,
         NEW largest, NEW numbers, NEW with,
         SenderProofs!ReceivedAck(largest, numbers, with)
  PROVE  /\ UNCHANGED lastSentPacketNumber
         /\ acked' \subseteq acked \cup numbers
         /\ StopWaitingUnsent
         /\ \/ UNCHANGED <<LargestAcked, largestReceivedPacketWithAck>>
            \/ /\ with > largestReceivedPacketWithAck
               /\ largestReceivedPacketWithAck' = with
               /\ LargestAcked' \in {LargestAcked, largest}
<1>1. stopWaitingManager \in SenderProofs!StopWaitingType
  BY Types
<1>2. CASE SenderProofs!AckForUnsentPacket(largest)
  BY <1>2 DEF SenderProofs!AckForUnsentPacket, StopWaitingUnsent
<1>3. CASE SenderProofs!RepeatedAck(largest, with)
  BY <1>3 DEF SenderProofs!RepeatedAck, SenderProofs!InOrder, StopWaitingUnsent
<1>4. CASE SenderProofs!AckForSkippedPacket(largest, numbers, with)
  BY <1>4 DEF SenderProofs!AckForSkippedPacket, SenderProofs!InOrder, StopWaitingUnsent
<1>5. CASE SenderProofs!ProcessedAck(largest, numbers, with)
  <2>1. /\ UNCHANGED lastSentPacketNumber
        /\ with > largestReceivedPacketWithAck
        /\ largestReceivedPacketWithAck' = with
        /\ LargestAcked' = largest
    BY <1>5 DEF SenderProofs!ProcessedAck, SenderProofs!InOrder
  <2>2. PICK newly, lost, order :
          /\ newly = packetHistory \cap numbers
          /\ SenderProofs!RemovePackets(newly, lost, order)
          /\ stopWaitingManager' =
               SenderProofs!StopWaitingReceivedAck(
                 SenderProofs!StopWaitingRequeued(stopWaitingManager, order), largest)
    BY <1>5 DEF SenderProofs!ProcessedAck
  <2>3. acked' = acked \cup newly
    BY <2>2 DEF SenderProofs!RemovePackets
  <2>4. StopWaitingUnsent
    BY <1>1, <2>2, StopWaitingKept DEF StopWaitingUnsent
  <2> QED BY <2>1, <2>2, <2>3, <2>4
<1> QED BY <1>2, <1>3, <1>4, <1>5 DEF SenderProofs!ReceivedAck

-----------------------------------------------------------------------------
(* One lemma per action. *)

\* What the sender's steps that touch neither packets nor ACK frames leave to show.
LEMMA QuietStep ==
  ASSUME IInv, SenderProofs!IInv', SenderQuiet, StopWaitingSound',
         UNCHANGED <<receiverVars, packets, acks, received>>
  PROVE  IInv'
<1>1. UNCHANGED <<largestObserved, lowerLimit, ranges,
                  retransmittablePacketsReceivedSinceLastAck, ackQueued, ackAlarm, lastAck, closed>>
  BY DEF receiverVars
<1>2. ReceiverProofs!IInv'
  BY <1>1, ReceiverProofs!OtherSteps, ExchangeAssumption DEF IInv, ReceiverProofs!vars
<1>3. ReceiverProofs!Covered(ranges)' = ReceiverProofs!Covered(ranges)
  BY <1>1 DEF ReceiverProofs!Covered
<1>4. PacketsSound' /\ ReceivedSound' /\ AcksSound' /\ AckedInOrder'
  BY <1>1, <1>3 DEF IInv, SenderQuiet, PacketsSound, ReceivedSound, AcksSound, AckedInOrder
<1> QED BY <1>2, <1>4 DEF IInv

\* STOP_WAITING: a new frame, or the last one again.
LEMMA StopWaitingSteps ==
  ASSUME IInv, QueueStopWaiting \/ RepeatStopWaiting
  PROVE  IInv'
<1>1. /\ stopWaitingManager.nextLeastUnacked \in Nat
      /\ stopWaitingManager.largestLeastUnackedSent \in Nat
      /\ stopWaitingManager.nextLeastUnacked <= lastSentPacketNumber + 1
      /\ stopWaitingManager.largestLeastUnackedSent <= stopWaitingManager.nextLeastUnacked
      /\ lastSentPacketNumber \in Nat
      /\ SenderProofs!IInv /\ StopWaitingSound
  BY Types DEF IInv
<1>2. CASE QueueStopWaiting
  <2>1. SenderProofs!GetStopWaitingFrame
    BY <1>2, SenderIsProofs DEF QueueStopWaiting
  <2>2. SenderProofs!IInv'
    BY <1>1, <2>1, SenderProofs!BookkeepingStep, ExchangeAssumption
  <2>3. PICK next : /\ next = stopWaitingManager.nextLeastUnacked
                    /\ stopWaitingManager' = [nextLeastUnacked |-> next, largestLeastUnackedSent |-> next,
                                              lastStopWaitingFrame |-> next]
                    /\ SenderQuiet
    BY <2>1 DEF SenderProofs!GetStopWaitingFrame, SenderQuiet
  <2>4. StopWaitingSound'
    <3>1. stopWaiting' = next /\ UNCHANGED lastSentPacketNumber
      BY <1>2, <2>3 DEF QueueStopWaiting, SenderQuiet
    <3> QED BY <1>1, <2>3, <3>1 DEF StopWaitingSound, StopWaitingWritable
  <2> QED BY <1>2, <2>2, <2>3, <2>4, QuietStep DEF QueueStopWaiting
<1>3. CASE RepeatStopWaiting
  <2>1. /\ UNCHANGED SenderProofs!vars /\ SenderQuiet
        /\ stopWaitingManager' = stopWaitingManager
        /\ UNCHANGED <<receiverVars, packets, acks, received>>
        /\ stopWaiting' = stopWaitingManager.lastStopWaitingFrame
    BY <1>3 DEF RepeatStopWaiting, senderVars, SenderProofs!vars, SenderQuiet
  <2>2. SenderProofs!IInv'
    BY <1>1, <2>1, SenderProofs!NextIInv, ExchangeAssumption
  <2>3. StopWaitingSound'
    BY <1>1, <2>1 DEF StopWaitingSound, StopWaitingWritable, SenderQuiet
  <2> QED BY <2>1, <2>2, <2>3, QuietStep
<1> QED BY <1>2, <1>3

\* Retransmit and Timeout.
LEMMA RetransmitSteps ==
  ASSUME IInv, Retransmit \/ Timeout
  PROVE  IInv'
<1>1. SenderProofs!IInv /\ ReceiverProofs!IInv /\ StopWaitingSound
  BY DEF IInv
<1>2. SenderProofs!IInv' /\ SenderQuiet /\ StopWaitingUnsent
  <2>1. CASE Retransmit
    <3>1. SenderProofs!DequeuePacketForRetransmission
      BY <2>1, SenderIsProofs DEF Retransmit
    <3>2. SenderProofs!IInv'
      BY <1>1, <3>1, SenderProofs!BookkeepingStep, ExchangeAssumption
    <3> QED BY <3>1, <3>2 DEF SenderProofs!DequeuePacketForRetransmission, SenderQuiet, StopWaitingUnsent
  <2>2. CASE Timeout
    <3>1. SenderProofs!OnAlarm
      BY <2>2, LossDetectionIsProofs DEF Timeout
    <3>2. SenderProofs!IInv'
      BY <1>1, <3>1, SenderProofs!OnAlarmStep, ExchangeAssumption
    <3> QED BY <1>1, <3>1, <3>2, AlarmSeen
  <2> QED BY <2>1, <2>2
<1>3. UNCHANGED <<receiverVars, stopWaiting, packets, acks, received>>
  BY DEF Retransmit, Timeout
<1>4. StopWaitingSound'
  BY <1>1, <1>2, <1>3 DEF StopWaitingSound, StopWaitingWritable, StopWaitingUnsent, SenderQuiet
<1> QED BY <1>2, <1>3, <1>4, QuietStep

\* A new packet: its number is above all those used so far.
LEMMA SendStep ==
  ASSUME IInv, NEW content \in {"none", "data"}, Send(content)
  PROVE  IInv'
<1> DEFINE n == lastSentPacketNumber + 1
           m == [number |-> n, retransmittable |-> content = "data", leastUnacked |-> stopWaiting]
<1>1. /\ SenderProofs!IInv /\ ReceiverProofs!IInv
      /\ PacketsSound /\ ReceivedSound /\ AcksSound /\ AckedInOrder /\ StopWaitingSound
  BY DEF IInv
<1>2. lastSentPacketNumber \in Nat /\ MaxPacketNumber \in Nat
  BY <1>1, Types
<1>3. SenderProofs!SentPacket(n, content)
  BY SenderIsProofs DEF Send
<1>4. SenderProofs!IInv'
  <2>1. n \in SenderProofs!PacketNumbers /\ content \in SenderProofs!Contents
    BY <1>2 DEF Send, SenderProofs!PacketNumbers, SenderProofs!Contents
  <2> QED BY <1>1, <1>3, <2>1, SenderProofs!SentPacketStep, ExchangeAssumption
<1>5. /\ lastSentPacketNumber' = lastSentPacketNumber + 1
      /\ UNCHANGED <<LargestAcked, largestReceivedPacketWithAck, stopWaitingManager, acked>>
  BY <1>3 DEF SenderProofs!SentPacket
<1>6. /\ UNCHANGED <<largestObserved, lowerLimit, ranges,
                     retransmittablePacketsReceivedSinceLastAck, ackQueued, ackAlarm, lastAck, closed>>
      /\ UNCHANGED <<acks, received>>
      /\ packets' = packets \cup {m}
      /\ stopWaiting' = 0
  BY DEF Send, receiverVars
<1>7. ReceiverProofs!IInv'
  BY <1>1, <1>6, ReceiverProofs!OtherSteps, ExchangeAssumption DEF ReceiverProofs!vars
<1>8. PacketsSound'
  <2>1. m.number = n /\ m.retransmittable \in BOOLEAN /\ m.leastUnacked = stopWaiting
    OBVIOUS
  <2>2. stopWaiting \in 0..n
    BY <1>1, <1>2 DEF StopWaitingSound, StopWaitingWritable
  <2>3. \A q \in packets : q.number \in 1..n /\ q.retransmittable \in BOOLEAN /\ q.leastUnacked \in 0..q.number
    BY <1>1, <1>2 DEF PacketsSound
  <2> HIDE DEF m
  <2> QED BY <1>2, <1>5, <1>6, <2>1, <2>2, <2>3 DEF PacketsSound
<1>9. ReceivedSound'
  <2>1. ReceiverProofs!Covered(ranges)' = ReceiverProofs!Covered(ranges)
    BY <1>6 DEF ReceiverProofs!Covered
  <2> QED BY <1>1, <1>2, <1>5, <1>6, <2>1 DEF ReceivedSound
<1>10. AcksSound' /\ AckedInOrder'
  BY <1>1, <1>5, <1>6 DEF AcksSound, AckedInOrder
<1>11. StopWaitingSound'
  BY <1>1, <1>2, <1>5, <1>6 DEF StopWaitingSound, StopWaitingWritable
<1> QED BY <1>4, <1>7, <1>8, <1>9, <1>10, <1>11 DEF IInv

\* A frame the sender has sent before, or one that was overtaken on the way, changes nothing;
\* any other one acknowledges numbers that were received and does not lie behind.
LEMMA ReceiveAckStep ==
  ASSUME IInv, NEW a \in acks, ReceiveAck(a)
  PROVE  IInv' /\ LargestAcked' >= LargestAcked
<1>1. /\ SenderProofs!IInv /\ ReceiverProofs!IInv
      /\ PacketsSound /\ ReceivedSound /\ AcksSound /\ AckedInOrder /\ StopWaitingSound
  BY DEF IInv
<1>2. /\ lastSentPacketNumber \in Nat /\ lastSentPacketNumber <= MaxPacketNumber
      /\ MaxPacketNumber \in Nat
      /\ LargestAcked \in Nat /\ largestObserved \in Nat /\ largestReceivedPacketWithAck \in Nat
  BY <1>1, Types
<1>3. /\ a.number \in 1..Cardinality(acks) /\ Cardinality(acks) \in Nat
      /\ Cardinality(acks) <= MaxAckPackets
      /\ a.numbers \subseteq received /\ a.largest \in a.numbers
      /\ a.largest <= largestObserved
  BY <1>1, FS_CardinalityType DEF AcksSound
<1>4. /\ a.largest \in 1..lastSentPacketNumber /\ a.numbers \in SUBSET Int
      /\ a.largest \in Int
  BY <1>1, <1>3, ReceivedType
<1>5. a.largest \in Int /\ a.number \in Int
  BY <1>3, <1>4
<1>6. SenderProofs!ReceivedAck(a.largest, a.numbers, a.number)
  BY LossDetectionIsProofs DEF ReceiveAck
<1>7. SenderProofs!IInv'
  <2>1. a.largest \in SenderProofs!PacketNumbers /\ a.number \in 1..MaxAckPackets
    BY <1>2, <1>3, <1>4, ExchangeAssumption DEF SenderProofs!PacketNumbers
  <2> QED BY <1>1, <1>4, <1>6, <2>1, SenderProofs!ReceivedAckStep, ExchangeAssumption
<1>8. /\ UNCHANGED lastSentPacketNumber
      /\ acked' \subseteq acked \cup a.numbers
      /\ StopWaitingUnsent
      /\ \/ UNCHANGED <<LargestAcked, largestReceivedPacketWithAck>>
         \/ /\ a.number > largestReceivedPacketWithAck
            /\ largestReceivedPacketWithAck' = a.number
            /\ LargestAcked' \in {LargestAcked, a.largest}
  BY <1>1, <1>6, AckSeen
<1>9. /\ UNCHANGED <<largestObserved, lowerLimit, ranges,
                     retransmittablePacketsReceivedSinceLastAck, ackQueued, ackAlarm, lastAck, closed>>
      /\ UNCHANGED <<stopWaiting, packets, acks, received>>
  BY DEF ReceiveAck, receiverVars
<1>10. ReceiverProofs!IInv'
  BY <1>1, <1>9, ReceiverProofs!OtherSteps, ExchangeAssumption DEF ReceiverProofs!vars
<1>11. PacketsSound' /\ AcksSound' /\ StopWaitingSound'
  BY <1>1, <1>8, <1>9
  DEF PacketsSound, AcksSound, StopWaitingSound, StopWaitingWritable, StopWaitingUnsent
<1>12. ReceivedSound'
  <2>1. ReceiverProofs!Covered(ranges)' = ReceiverProofs!Covered(ranges)
    BY <1>9 DEF ReceiverProofs!Covered
  <2> QED BY <1>1, <1>3, <1>8, <1>9, <2>1 DEF ReceivedSound
<1>13. AckedInOrder' /\ LargestAcked' >= LargestAcked
  <2>1. CASE UNCHANGED <<LargestAcked, largestReceivedPacketWithAck>>
    BY <1>1, <1>2, <1>9, <2>1 DEF AckedInOrder
  <2>2. CASE /\ a.number > largestReceivedPacketWithAck
             /\ largestReceivedPacketWithAck' = a.number
             /\ LargestAcked' \in {LargestAcked, a.largest}
    <3>1. LargestAcked <= a.largest
      BY <1>1, <2>2 DEF AckedInOrder
    <3>2. LargestAcked' <= a.largest /\ LargestAcked <= LargestAcked' /\ LargestAcked' <= largestObserved
          /\ LargestAcked' \in Int
      BY <1>2, <1>3, <1>5, <2>2, <3>1
    <3>3. ASSUME NEW b \in acks, b.number > a.number
          PROVE  LargestAcked' <= b.largest
      <4>1. /\ b.number \in 1..Cardinality(acks) /\ b.largest \in b.numbers
            /\ b.numbers \subseteq received
        BY <1>1 DEF AcksSound
      <4>2. b.number \in Int /\ b.largest \in Int
        BY <1>1, <1>3, <4>1, ReceivedType
      <4>3. a.number <= b.number
        BY <1>5, <3>3, <4>2
      <4>4. a.largest <= b.largest
        BY <1>1, <4>3 DEF AcksSound
      <4> QED BY <1>5, <3>2, <4>2, <4>4
    <3> QED BY <1>9, <2>2, <3>2, <3>3 DEF AckedInOrder
  <2> QED BY <1>8, <2>1, <2>2
<1> QED BY <1>7, <1>10, <1>11, <1>12, <1>13 DEF IInv

\* A packet at the receiving host, in whatever order and however often it comes.
LEMMA ReceivePacketStep ==
  ASSUME IInv, NEW m \in packets, ReceivePacket(m)
  PROVE  IInv'
<1>1. /\ SenderProofs!IInv /\ ReceiverProofs!IInv
      /\ PacketsSound /\ ReceivedSound /\ AcksSound /\ AckedInOrder /\ StopWaitingSound
  BY DEF IInv
<1>2. /\ lastSentPacketNumber \in Nat /\ lastSentPacketNumber <= MaxPacketNumber
      /\ MaxPacketNumber \in Nat
      /\ LargestAcked \in Nat /\ largestObserved \in Nat
  BY <1>1, Types
<1>3. /\ m.number \in 1..lastSentPacketNumber
      /\ m.retransmittable \in BOOLEAN
      /\ m.leastUnacked \in 0..m.number
  BY <1>1 DEF PacketsSound
<1>4. m.number \in ReceiverProofs!Numbers /\ m.number \in Int
  BY <1>2, <1>3 DEF ReceiverProofs!Numbers
<1>5. UNCHANGED <<senderVars, stopWaiting, packets, acks>> /\ received' = received \cup {m.number}
  BY DEF ReceivePacket
<1>6. SenderProofs!IInv'
  <2>1. UNCHANGED SenderProofs!vars
    BY <1>5 DEF senderVars, SenderProofs!vars
  <2> QED BY <1>1, <2>1, SenderProofs!NextIInv, ExchangeAssumption
<1>7. ReceiverProofs!IInv' /\ ReceiverProofs!Covered(ranges') \subseteq received'
      /\ largestObserved' \in Int /\ largestObserved <= largestObserved'
  <2>1. CASE ReceiverProofs!HandlePacket(m.number, m.retransmittable, m.leastUnacked)
    <3>1. ReceiverProofs!IInv'
      BY <1>1, <1>3, <1>4, <2>1, ReceiverProofs!HandlePacketStep, ExchangeAssumption
    <3>2. ReceiverProofs!Represents(ranges', ReceiverProofs!NumbersAfter(m.number, m.leastUnacked))
      <4>1. ReceiverProofs!TypeOK /\ ReceiverProofs!Sorted(ranges)
        BY <1>1 DEF ReceiverProofs!IInv
      <4> QED BY <1>3, <1>4, <2>1, <4>1, ReceiverProofs!ListAfterPacket, ExchangeAssumption
    <3>3. ReceiverProofs!NumbersAfter(m.number, m.leastUnacked) \subseteq received \cup {m.number}
      BY <1>1 DEF ReceiverProofs!NumbersAfter, ReceivedSound
    <3>4. largestObserved' = IF m.number > largestObserved THEN m.number ELSE largestObserved
      BY <2>1 DEF ReceiverProofs!HandlePacket
    <3> QED BY <1>2, <1>4, <1>5, <3>1, <3>2, <3>3, <3>4 DEF ReceiverProofs!Represents
  <2>2. CASE ReceiverProofs!TooManyRanges(m.number)
    <3>1. ReceiverProofs!IInv'
      BY <1>1, <1>4, <2>2, ReceiverProofs!OtherSteps, ExchangeAssumption
    <3>2. /\ largestObserved' = IF m.number > largestObserved THEN m.number ELSE largestObserved
          /\ UNCHANGED ranges
      BY <2>2 DEF ReceiverProofs!TooManyRanges
    <3> QED BY <1>1, <1>2, <1>4, <1>5, <3>1, <3>2 DEF ReceivedSound
  <2> QED BY <2>1, <2>2, HandlePacketIsProofs, ReceiverIsProofs DEF ReceivePacket
<1>8. ReceiverProofs!Covered(ranges)' = ReceiverProofs!Covered(ranges')
  BY DEF ReceiverProofs!Covered
<1>9. UNCHANGED <<lastSentPacketNumber, LargestAcked, largestReceivedPacketWithAck, stopWaitingManager, acked>>
  BY <1>5 DEF senderVars
<1>10. PacketsSound' /\ StopWaitingSound'
  BY <1>1, <1>5, <1>9 DEF PacketsSound, StopWaitingSound, StopWaitingWritable
<1>11. ReceivedSound'
  BY <1>1, <1>3, <1>5, <1>7, <1>8, <1>9 DEF ReceivedSound
<1>12. AcksSound'
  <2>1. ASSUME NEW a \in acks
        PROVE  /\ a.number \in 1..Cardinality(acks) /\ a.largest \in a.numbers
               /\ a.numbers \subseteq received' /\ a.largest <= largestObserved'
    <3>1. /\ a.number \in 1..Cardinality(acks) /\ a.largest \in a.numbers
          /\ a.numbers \subseteq received /\ a.largest <= largestObserved
      BY <1>1 DEF AcksSound
    <3>2. a.largest \in Int
      BY <1>1, <3>1, ReceivedType
    <3> QED BY <1>2, <1>5, <1>7, <3>1, <3>2
  <2> QED BY <1>1, <1>5, <2>1 DEF AcksSound
<1>13. AckedInOrder'
  BY <1>1, <1>2, <1>5, <1>7, <1>9 DEF AckedInOrder
<1> QED BY <1>6, <1>7, <1>10, <1>11, <1>12, <1>13 DEF IInv

\* The frame that is due covers what the list covers, largestObserved included.
LEMMA FrameCovers ==
  ASSUME ReceiverProofs!IInv, ReceiverProofs!GetAckFrame
  PROVE  /\ ReceiverProofs!AckFrameNumbers = ReceiverProofs!Covered(ranges)
         /\ largestObserved \in ReceiverProofs!Covered(ranges)
<1>1. /\ ReceiverProofs!AckDue /\ closed = FALSE
      /\ ranges \in Seq(ReceiverProofs!Intervals) /\ ReceiverProofs!Sorted(ranges)
      /\ ReceiverProofs!LargestKept
  BY DEF ReceiverProofs!GetAckFrame, ReceiverProofs!IInv, ReceiverProofs!TypeOK
<1>2. /\ largestObserved \in ReceiverProofs!Covered(ranges)
      /\ \A n \in ReceiverProofs!Covered(ranges) : n <= largestObserved
  BY <1>1 DEF ReceiverProofs!LargestKept
<1>3. ranges # <<>> /\ ranges[Len(ranges)].End = largestObserved
  BY <1>1, <1>2, ReceiverProofs!LargestIsLast, ExchangeAssumption
<1>4. CASE Len(ranges) > 1
  BY <1>2, <1>4 DEF ReceiverProofs!AckFrameNumbers
<1>5. CASE ~(Len(ranges) > 1)
  <2>1. Len(ranges) = 1
    <3>1. Len(ranges) \in Nat
      BY <1>1, LenProperties
    <3>2. Len(ranges) = 0 => ranges = <<>>
      BY <1>1, EmptySeq
    <3>3. Len(ranges) # 0
      BY <1>3, <3>2, Zenon
    <3> DEFINE n == Len(ranges)
    <3>4. n \in Nat /\ n # 0 /\ ~(n > 1)
      BY <1>5, <3>1, <3>3
    <3> HIDE DEF n
    <3>5. n = 1
      BY <3>4
    <3> QED BY <3>5 DEF n
  <2>2. ReceiverProofs!AckFrameNumbers = ranges[1].Start..ranges[1].End
    BY <1>3, <2>1 DEF ReceiverProofs!AckFrameNumbers
  <2>3. ReceiverProofs!Covered(ranges) = ranges[1].Start..ranges[1].End
    <3>1. 1..Len(ranges) = {1}
      BY <2>1
    <3> QED BY <3>1, Zenon DEF ReceiverProofs!Covered
  <2> QED BY <1>2, <2>2, <2>3
<1> QED BY <1>4, <1>5

\* A new ACK frame: it has the highest number, and covers the largest packet received.
LEMMA SendAckStep ==
  ASSUME IInv, SendAck
  PROVE  IInv'
<1> DEFINE a == [number |-> Cardinality(acks) + 1, largest |-> largestObserved,
                 numbers |-> ReceiverProofs!AckFrameNumbers]
<1>1. /\ SenderProofs!IInv /\ ReceiverProofs!IInv
      /\ PacketsSound /\ ReceivedSound /\ AcksSound /\ AckedInOrder /\ StopWaitingSound
  BY DEF IInv
<1>2. /\ lastSentPacketNumber \in Nat /\ LargestAcked \in Nat /\ largestObserved \in Nat
  BY <1>1, Types
<1>3. ReceiverProofs!GetAckFrame
  BY ReceiverIsProofs DEF SendAck
<1>4. /\ Cardinality(acks) < MaxAckPackets
      /\ acks' = acks \cup {a}
      /\ UNCHANGED <<senderVars, stopWaiting, packets, received>>
  BY ReceiverIsProofs DEF SendAck
<1>5. SenderProofs!IInv'
  <2>1. UNCHANGED SenderProofs!vars
    BY <1>4 DEF senderVars, SenderProofs!vars
  <2> QED BY <1>1, <2>1, SenderProofs!NextIInv, ExchangeAssumption
<1>6. ReceiverProofs!IInv' /\ UNCHANGED <<largestObserved, ranges>>
  <2>1. ReceiverProofs!IInv'
    BY <1>1, <1>3, ReceiverProofs!OtherSteps, ExchangeAssumption
  <2> QED BY <1>3, <2>1 DEF ReceiverProofs!GetAckFrame
<1>7. UNCHANGED <<lastSentPacketNumber, LargestAcked, largestReceivedPacketWithAck, stopWaitingManager, acked>>
  BY <1>4 DEF senderVars
<1>8. PacketsSound' /\ StopWaitingSound'
  BY <1>1, <1>4, <1>7 DEF PacketsSound, StopWaitingSound, StopWaitingWritable
<1>9. ReceivedSound'
  <2>1. ReceiverProofs!Covered(ranges)' = ReceiverProofs!Covered(ranges)
    BY <1>6 DEF ReceiverProofs!Covered
  <2> QED BY <1>1, <1>4, <1>7, <2>1 DEF ReceivedSound
<1>10. /\ a.number = Cardinality(acks) + 1
       /\ a.largest = largestObserved
       /\ a.numbers \subseteq received
       /\ a.largest \in a.numbers
  BY <1>1, <1>3, FrameCovers DEF ReceivedSound
<1>11. Cardinality(acks) \in Nat /\ IsFiniteSet(acks)
  BY <1>1, FS_CardinalityType DEF AcksSound
<1>12. ASSUME NEW b \in acks
       PROVE  /\ b.number \in Int /\ 1 <= b.number /\ b.number <= Cardinality(acks)
              /\ b.largest \in b.numbers /\ b.numbers \subseteq received
              /\ b.largest <= largestObserved
  BY <1>1, <1>11 DEF AcksSound
<1> HIDE DEF a
<1>13. IsFiniteSet(acks') /\ Cardinality(acks') = Cardinality(acks) + 1
  <2>1. a \notin acks
    BY <1>10, <1>11, <1>12
  <2> QED BY <1>4, <1>11, <2>1, FS_AddElement
<1>14. AcksSound'
  <2>1. Cardinality(acks') <= MaxAckPackets
    BY <1>4, <1>11, <1>13, ExchangeAssumption
  <2>2. ASSUME NEW b \in acks'
        PROVE  /\ b.number \in 1..Cardinality(acks') /\ b.largest \in b.numbers
               /\ b.numbers \subseteq received' /\ b.largest <= largestObserved'
    BY <1>2, <1>4, <1>6, <1>10, <1>11, <1>12, <1>13
  <2>3. ASSUME NEW b \in acks', NEW c \in acks', b.number <= c.number
        PROVE  b.largest <= c.largest
    <3>1. CASE b \in acks /\ c \in acks
      BY <1>1, <2>3, <3>1 DEF AcksSound
    <3>2. CASE c = a
      BY <1>2, <1>4, <1>10, <1>12, <3>2
    <3>3. CASE b = a /\ c \in acks
      BY <1>10, <1>11, <1>12, <2>3, <3>3
    <3> QED BY <1>4, <3>1, <3>2, <3>3
  <2> QED BY <1>13, <2>1, <2>2, <2>3 DEF AcksSound
<1>15. AckedInOrder'
  BY <1>1, <1>4, <1>6, <1>7, <1>10 DEF AckedInOrder
<1> QED BY <1>5, <1>6, <1>8, <1>9, <1>14, <1>15 DEF IInv

-----------------------------------------------------------------------------
(* The theorems. *)

\* Nothing was sent.
LEMMA InitIInv == Init => IInv
<1> SUFFICES ASSUME Init PROVE IInv
  OBVIOUS
<1>1. SenderProofs!Init /\ ReceiverProofs!Init
  BY SenderIsProofs, ReceiverIsProofs DEF Init
<1>2. SenderProofs!IInv /\ ReceiverProofs!IInv
  BY <1>1, SenderProofs!InitIInv, ReceiverProofs!InitIInv, ExchangeAssumption
<1>3. /\ lastSentPacketNumber = 0 /\ LargestAcked = 0 /\ acked = {}
      /\ stopWaitingManager = [nextLeastUnacked |-> 0, largestLeastUnackedSent |-> 0,
                               lastStopWaitingFrame |-> 0]
      /\ largestObserved = 0 /\ ranges = <<>>
  BY <1>1 DEF SenderProofs!Init, ReceiverProofs!Init
<1>4. stopWaiting = 0 /\ packets = {} /\ acks = {} /\ received = {}
  BY DEF Init
<1>5. ReceiverProofs!Covered(ranges) = {}
  BY <1>3, ReceiverProofs!EmptyCovers, ExchangeAssumption
<1>6. PacketsSound /\ ReceivedSound /\ AckedInOrder /\ StopWaitingSound
  BY <1>3, <1>4, <1>5
  DEF PacketsSound, ReceivedSound, AckedInOrder, StopWaitingSound, StopWaitingWritable
<1>7. AcksSound
  BY <1>4, FS_EmptySet, ExchangeAssumption DEF AcksSound
<1> QED BY <1>2, <1>6, <1>7 DEF IInv

\* Every step keeps the invariant, whatever the network does.
LEMMA NextIInv == IInv /\ [Next]_vars => IInv'
<1> SUFFICES ASSUME IInv, [Next]_vars PROVE IInv'
  OBVIOUS
<1>1. CASE UNCHANGED vars
  <2>1. UNCHANGED SenderProofs!vars /\ SenderQuiet
        /\ UNCHANGED <<receiverVars, stopWaiting, packets, acks, received, stopWaitingManager>>
    BY <1>1 DEF vars, senderVars, SenderProofs!vars, SenderQuiet
  <2>2. SenderProofs!IInv'
    BY <2>1, SenderProofs!NextIInv, ExchangeAssumption DEF IInv
  <2>3. StopWaitingSound'
    BY <2>1 DEF IInv, StopWaitingSound, StopWaitingWritable, SenderQuiet
  <2> QED BY <2>1, <2>2, <2>3, QuietStep
<1> QED BY <1>1, StopWaitingSteps, SendStep, RetransmitSteps, ReceiveAckStep, ReceivePacketStep,
          SendAckStep DEF Next

\* What the two hosts and the packets between them say about each other.
THEOREM InductiveInvariant == Spec => []IInv
<1>1. Init => IInv
  BY InitIInv
<1>2. IInv /\ [Next]_vars => IInv'
  BY NextIInv
<1> QED BY <1>1, <1>2, PTL DEF Spec

\* sentPacketHandler takes no packet off its history as acknowledged that the peer's
\* receivedPacketHandler has not seen.
THEOREM AckedAreReceived == Spec => []AckedWereReceived
<1>1. IInv => AckedWereReceived
  BY DEF IInv, ReceivedSound, AckedWereReceived
<1> QED BY <1>1, InductiveInvariant, PTL

\* No ACK frame of an honest peer, however late, ends in errAckForUnsentPacket or carries a
\* LargestAcked outside its own ranges.
THEOREM AcksAreAccepted == Spec => []HonestAcksAccepted
<1>1. IInv => HonestAcksAccepted
  <2> SUFFICES ASSUME IInv, NEW a \in acks
               PROVE  a.largest \in a.numbers /\ a.numbers \subseteq 1..lastSentPacketNumber
    BY DEF HonestAcksAccepted
  <2> QED BY DEF IInv, AcksSound, ReceivedSound
<1> QED BY <1>1, InductiveInvariant, PTL

\* StopWaitingFrame.Write never finds LeastUnacked above the packet that takes it along.
THEOREM StopWaitingFits == Spec => []StopWaitingWritable
<1>1. IInv => StopWaitingWritable
  BY DEF IInv, StopWaitingSound
<1> QED BY <1>1, InductiveInvariant, PTL

\* Every step of the exchange, the arrival of an old ACK frame included, leaves LargestAcked
\* where it is or moves it on.
LEMMA AckedNotBack == IInv /\ [Next]_vars => [LargestAcked' >= LargestAcked]_vars
<1> SUFFICES ASSUME IInv, [Next]_vars PROVE LargestAcked' >= LargestAcked
  OBVIOUS
<1>1. /\ SenderProofs!IInv /\ ReceiverProofs!IInv /\ LargestAcked \in Nat
  BY Types DEF IInv
<1>2. SUFFICES ASSUME ~ \E a \in acks : ReceiveAck(a)
               PROVE  UNCHANGED LargestAcked
  BY <1>1, ReceiveAckStep
<1>3. CASE QueueStopWaiting
  BY <1>3, SenderIsProofs DEF QueueStopWaiting, SenderProofs!GetStopWaitingFrame
<1>4. CASE \E content \in {"none", "data"} : Send(content)
  BY <1>4, SenderIsProofs DEF Send, SenderProofs!SentPacket
<1>5. CASE Retransmit
  BY <1>5, SenderIsProofs DEF Retransmit, SenderProofs!DequeuePacketForRetransmission
<1>6. CASE Timeout
  BY <1>1, <1>6, LossDetectionIsProofs, AlarmSeen DEF Timeout, SenderQuiet
<1>7. CASE RepeatStopWaiting \/ (\E m \in packets : ReceivePacket(m)) \/ SendAck \/ UNCHANGED vars
  BY <1>7 DEF RepeatStopWaiting, ReceivePacket, SendAck, vars, senderVars
<1> QED BY <1>2, <1>3, <1>4, <1>5, <1>6, <1>7 DEF Next

\* ACK frames that overtake each other never move LargestAcked back.
THEOREM LargestAckedNeverFalls == Spec => LargestAckedMonotone
<1>1. IInv /\ [Next]_vars => [LargestAcked' >= LargestAcked]_vars
  BY AckedNotBack
<1> QED BY <1>1, InductiveInvariant, PTL DEF Spec, LargestAckedMonotone

-----------------------------------------------------------------------------
(* Packet numbers in the public header: arithmetic *)

\* A word below 2^64 is not cut.
LEMMA ModWord ==
  ASSUME NEW x \in Int, 0 <= x, x < Word
  PROVE  x % Word = x
BY SMT DEF Word

\* A difference below zero wraps around, as in uint64.
LEMMA ModWordBelow ==
  ASSUME NEW x \in Int, -Word <= x, x < 0
  PROVE  x % Word = x + Word
BY SMT DEF Word

\* Quotient and remainder.
LEMMA Division ==
  ASSUME NEW n \in Nat, NEW d \in Nat \ {0}
  PROVE  /\ n \div d \in Nat
         /\ n % d \in 0..(d - 1)
         /\ n = ((n \div d) * d) + (n % d)
BY SMT

\* Whole epochs are ordered like their numbers.
LEMMA ProductMonotone ==
  ASSUME NEW a \in Int, NEW b \in Int, NEW d \in Nat, a <= b
  PROVE  a * d <= b * d
BY SMT

\* The four sizes of an epoch.
LEMMA EpochDeltas ==
  ASSUME NEW length \in PacketNumberLengths
  PROVE  EpochDelta(length) \in {256, 65536, 4294967296, 281474976710656}
BY SMT DEF EpochDelta, PacketNumberLengths

\* Two numbers less than half an epoch apart are in the same epoch or in adjacent ones.
LEMMA AdjacentEpochs ==
  ASSUME NEW d \in Nat \ {0}, NEW last \in Nat, NEW n \in Nat,
         2 * delta(last + 1, n) < d
  PROVE  LET epoch == last - (last % d) IN
         n \in {epoch + (n % d), (epoch + d) + (n % d), (epoch - d) + (n % d)}
<1> DEFINE p == last \div d
           q == n \div d
<1>1. p \in Nat /\ last % d \in 0..(d - 1) /\ last = (p * d) + (last % d)
  BY Division
<1>2. q \in Nat /\ n % d \in 0..(d - 1) /\ n = (q * d) + (n % d)
  BY Division
<1>3. 2 * ((last + 1) - n) < d /\ 2 * (n - (last + 1)) < d
  BY SMT DEF delta
<1> HIDE DEF p, q
<1>4. q - p \in {-1, 0, 1}
  <2>1. ASSUME q >= p + 2 PROVE FALSE
    <3>1. (p + 2) * d <= q * d
      BY <1>1, <1>2, <2>1, ProductMonotone
    <3>2. (p + 2) * d = (p * d) + (2 * d)
      BY <1>1, SMT
    <3> QED
      BY <1>1, <1>2, <1>3, <3>1, <3>2, SMT
  <2>2. ASSUME q <= p - 2 PROVE FALSE
    <3>1. q * d <= (p - 2) * d
      BY <1>1, <1>2, <2>2, ProductMonotone
    <3>2. (p - 2) * d = (p * d) - (2 * d)
      BY <1>1, SMT
    <3> QED
      BY <1>1, <1>2, <1>3, <3>1, <3>2, SMT
  <2> QED
    BY <1>1, <1>2, <2>1, <2>2, SMT
<1>5. q * d = (p * d) + ((q - p) * d)
  BY <1>1, <1>2, SMT
<1>6. (q - p) * d \in {-d, 0, d}
  BY <1>1, <1>2, <1>4, SMT
<1> QED
  BY <1>1, <1>2, <1>5, <1>6, SMT

-----------------------------------------------------------------------------
\* A number less than half an epoch away from the next one expected is read back from
\* its last bytes, whichever of the two is larger and wherever the epochs begin.
THEOREM InferenceExact ==
  ASSUME NEW length \in PacketNumberLengths,
         NEW last \in Reachable, NEW n \in Reachable,
         2 * delta(last + 1, n) < EpochDelta(length)
  PROVE  InferPacketNumber(length, last, Truncated(length, n)) = n
<1> DEFINE d == EpochDelta(length)
           w == n % d
           epoch == last - (last % d)
           prev == (epoch - d) % Word
           next == (epoch + d) % Word
<1>1. d \in {256, 65536, 4294967296, 281474976710656}
  BY EpochDeltas, SMT
<1>2. 2 * delta(last + 1, n) < d
  BY SMT
<1> HIDE DEF d
<1>3. last \in Nat /\ n \in Nat /\ 4 * last < Word /\ 4 * n < Word
  BY SMT DEF Reachable
<1>0. d \in Nat \ {0}
  BY <1>1, SMT
<1>4. w \in 0..(d - 1) /\ last % d \in 0..(d - 1)
  BY <1>0, <1>3, Division
<1>5. epoch \in Nat /\ epoch <= last /\ last < epoch + d /\ (epoch < d => epoch = 0)
  <2> DEFINE p == last \div d
  <2>1. p \in Nat /\ last = (p * d) + (last % d)
    BY <1>0, <1>3, Division
  <2> HIDE DEF p
  <2>2. p >= 1 => d <= p * d
    BY <1>0, <2>1, ProductMonotone, SMT
  <2>3. p * d \in Nat /\ (p = 0 => p * d = 0)
    BY <1>0, <2>1, SMT
  <2>4. epoch = p * d
    <3> DEFINE r == last % d
    <3>1. r \in Int /\ last = (p * d) + r /\ epoch = last - r
      BY <1>0, <1>4, <2>1, SMT
    <3> HIDE DEF r, epoch
    <3> QED
      BY <1>3, <2>3, <3>1, SMT
  <2> HIDE DEF epoch
  <2>5. last < (p * d) + d
    BY <1>0, <1>3, <1>4, <2>1, <2>3, SMT
  <2>6. (p * d) <= last
    BY <1>0, <1>3, <1>4, <2>1, <2>3, SMT
  <2> QED
    BY <1>0, <1>3, <2>1, <2>2, <2>3, <2>4, <2>5, <2>6, SMT
<1>6. n \in {epoch + w, (epoch + d) + w, (epoch - d) + w}
  BY <1>0, <1>2, <1>3, AdjacentEpochs, SMT
<1> HIDE DEF w, epoch
<1>7. (epoch + w) % Word = epoch + w
  BY <1>1, <1>3, <1>4, <1>5, ModWord, SMT DEF Word
<1>8. next = epoch + d /\ (next + w) % Word = (epoch + d) + w
  BY <1>1, <1>3, <1>4, <1>5, ModWord, SMT DEF Word
\* Before the first epoch the candidate is close to the end of the word.
<1>9. (prev + w) % Word = IF epoch = 0 THEN (w - d) + Word ELSE (epoch - d) + w
  <2>1. CASE epoch >= d
    BY <1>1, <1>3, <1>4, <1>5, <2>1, ModWord, SMT DEF Word
  <2>2. CASE epoch = 0
    <3>1. prev = Word - d
      BY <1>1, <2>2, ModWordBelow, SMT DEF Word
    <3> QED
      BY <1>1, <1>4, <2>2, <3>1, ModWord, SMT DEF Word
  <2> QED
    BY <1>1, <1>5, <2>1, <2>2, SMT
<1> DEFINE here == epoch + w
           after == (epoch + d) + w
           before == IF epoch = 0 THEN (w - d) + Word ELSE (epoch - d) + w
<1>10. InferPacketNumber(length, last, Truncated(length, n))
         = closestTo(last + 1, here, closestTo(last + 1, before, after))
  BY <1>7, <1>8, <1>9, SMT DEF InferPacketNumber, Truncated, d, w, epoch
<1>11. closestTo(last + 1, here, closestTo(last + 1, before, after)) = n
  BY <1>1, <1>2, <1>3, <1>4, <1>5, <1>6, SMT DEF closestTo, delta, Word
<1> QED
  BY <1>10, <1>11, SMT

\* The length the sender chooses is enough for a receiver that has seen nothing newer than
\* this packet and everything up to the sender's least unacked packet.
THEOREM ChosenLengthSuffices ==
  ASSUME NEW n \in Reachable, NEW leastUnacked \in Reachable, NEW last \in Reachable,
         leastUnacked <= n, n - leastUnacked < 140737488355328,   \* 2^47
         leastUnacked <= last + 1, last <= n
  PROVE  LET length == GetPacketNumberLengthForPublicHeader(n, leastUnacked)
         IN  InferPacketNumber(length, last, Truncated(length, n)) = n
<1> DEFINE length == GetPacketNumberLengthForPublicHeader(n, leastUnacked)
           diff == (n - leastUnacked) % Word
<1>1. diff = n - leastUnacked /\ diff \in Nat
  <2>1. n - leastUnacked \in Int /\ 0 <= n - leastUnacked /\ n - leastUnacked < Word
    BY SMT DEF Reachable, Word
  <2> QED
    BY <2>1, ModWord
<1> HIDE DEF diff
<1>2. length \in PacketNumberLengths /\ 2 * diff < EpochDelta(length) /\ 65536 <= EpochDelta(length)
  BY <1>1, SMT DEF GetPacketNumberLengthForPublicHeader, diff, EpochDelta, PacketNumberLengths
<1>3. EpochDelta(length) \in Nat
  BY <1>2, EpochDeltas, SMT
<1> HIDE DEF length
<1>4. 2 * delta(last + 1, n) < EpochDelta(length)
  BY <1>1, <1>2, <1>3, SMT DEF delta, Reachable
<1> QED
  BY <1>2, <1>4, InferenceExact, SMT DEF length
=============================================================================
