---------------------- MODULE SentPacketHandlerProofs ----------------------
(***************************************************************************)
(* The invariants of SentPacketHandler hold for every value of its bounds. *)
(* They are proved together: the type of bytesInFlight needs its           *)
(* accounting, the accounting needs that a packet number is used once, and *)
(* the lossTime invariant needs that nothing unsent was ever acknowledged. *)
(***************************************************************************)
EXTENDS SentPacketHandler, FiniteSetTheorems, SequenceTheorems, TLAPS

\* No more was acknowledged than was sent: ReceivedAck refuses the frame otherwise.
AckedWasSent == LargestAcked <= lastSentPacketNumber

\* The inductive invariant.
IInv ==
  /\ TypeOK
  /\ AckedWasSent
  /\ AlarmArmed
  /\ InFlightAccounting
  /\ LossTimeExact
  /\ StopWaitingCoversRequeued
  /\ OneFate

StopWaitingType ==
  [nextLeastUnacked : 0..(MaxPacketNumber + 1),
   largestLeastUnackedSent : 0..(MaxPacketNumber + 1),
   lastStopWaitingFrame : 0..(MaxPacketNumber + 1)]

-----------------------------------------------------------------------------
(* Lemmas about the helpers. *)

\* Every set of packet numbers is finite.
LEMMA PacketSetsFinite ==
  ASSUME NEW S \in SUBSET PacketNumbers
  PROVE  IsFiniteSet(S) /\ Cardinality(S) \in Nat
<1>1. IsFiniteSet(PacketNumbers)
  BY BoundsAssumption, FS_Interval DEF PacketNumbers
<1>2. IsFiniteSet(S)
  BY <1>1, FS_Subset
<1> QED BY <1>2, FS_CardinalityType

\* A list order of S is a sequence over S whose last element bounds S.
LEMMA ListOrderFacts ==
  ASSUME NEW S \in SUBSET PacketNumbers, NEW order \in ListOrders(S)
  PROVE  /\ order \in Seq(PacketNumbers)
         /\ order # <<>> => order[Len(order)] \in S
         /\ \A p \in S : order # <<>> /\ p <= order[Len(order)]
<1> DEFINE n == Cardinality(S)
<1>1. n \in Nat
  BY PacketSetsFinite
<1>2. /\ order \in [1..n -> S]
      /\ \A i, j \in 1..n : i < j => order[i] < order[j]
      /\ \A p \in S : \E i \in 1..n : order[i] = p
  BY DEF ListOrders
<1> HIDE DEF n
<1>3. order \in Seq(S) /\ Len(order) = n
  BY <1>1, <1>2
<1>4. order \in Seq(PacketNumbers)
  BY <1>3
<1>5. order # <<>> => order[Len(order)] \in S
  BY <1>1, <1>2, <1>3
<1>6. ASSUME NEW p \in S
      PROVE  order # <<>> /\ p <= order[Len(order)]
  <2>1. PICK i \in 1..n : order[i] = p
    BY <1>2
  <2>2. n >= 1 /\ n \in 1..n
    BY <1>1
  <2>3. order[i] \in Nat /\ order[n] \in Nat
    <3>1. order[i] \in S /\ order[n] \in S
      BY <1>2, <2>2
    <3>2. S \subseteq Nat
      BY BoundsAssumption DEF PacketNumbers
    <3> QED BY <3>1, <3>2
  <2>4. p <= order[n]
    <3>1. CASE i = n BY <3>1, <2>1, <2>3
    <3>2. CASE i < n BY <3>2, <2>1, <2>2, <2>3, <1>2
    <3> QED BY <3>1, <3>2, <1>1
  <2> QED BY <2>2, <2>4, <1>3
<1> QED BY <1>4, <1>5, <1>6

\* Requeueing the packets of S moves nextLeastUnacked past all of them, never back,
\* and never beyond the packets it was told about.
LEMMA StopWaitingRequeuedFacts ==
  ASSUME NEW sw \in StopWaitingType,
         NEW S \in SUBSET PacketNumbers, NEW order \in ListOrders(S)
  PROVE  /\ StopWaitingRequeued(sw, order) \in StopWaitingType
         /\ StopWaitingRequeued(sw, order).largestLeastUnackedSent = sw.largestLeastUnackedSent
         /\ StopWaitingRequeued(sw, order).nextLeastUnacked >= sw.nextLeastUnacked
         /\ \A p \in S : p < StopWaitingRequeued(sw, order).nextLeastUnacked
         /\ \A bound \in Nat :
              sw.nextLeastUnacked <= bound + 1 /\ (\A p \in S : p <= bound)
                => StopWaitingRequeued(sw, order).nextLeastUnacked <= bound + 1
<1>1. sw.nextLeastUnacked \in Nat
  BY BoundsAssumption DEF StopWaitingType
<1>2. CASE order = <<>>
  BY <1>1, <1>2, ListOrderFacts DEF StopWaitingRequeued
<1>3. CASE order # <<>>
  <2> DEFINE last == order[Len(order)]
  <2>1. last \in S /\ last \in PacketNumbers /\ last \in Nat
    BY <1>3, ListOrderFacts, BoundsAssumption DEF PacketNumbers
  <2>2. \A p \in S : p <= last /\ p \in Nat
    BY ListOrderFacts, BoundsAssumption DEF PacketNumbers
  <2> HIDE DEF last
  <2>3. StopWaitingRequeued(sw, order) =
          IF last < sw.nextLeastUnacked THEN sw ELSE [sw EXCEPT !.nextLeastUnacked = last + 1]
    BY <1>3 DEF StopWaitingRequeued, last
  <2>4. CASE last < sw.nextLeastUnacked
    <3>1. StopWaitingRequeued(sw, order) = sw BY <2>3, <2>4
    <3> QED BY <3>1, <1>1, <2>1, <2>2, <2>4
  <2>5. CASE ~(last < sw.nextLeastUnacked)
    <3> DEFINE new == [sw EXCEPT !.nextLeastUnacked = last + 1]
    <3>1. StopWaitingRequeued(sw, order) = new BY <2>3, <2>5
    <3>2. /\ new \in StopWaitingType
          /\ new.nextLeastUnacked = last + 1
          /\ new.largestLeastUnackedSent = sw.largestLeastUnackedSent
      BY <2>1, BoundsAssumption DEF StopWaitingType, PacketNumbers
    <3> HIDE DEF new
    <3> QED BY <3>1, <3>2, <1>1, <2>1, <2>2, <2>5
  <2> QED BY <2>4, <2>5
<1> QED BY <1>2, <1>3

\* An acknowledgement only moves nextLeastUnacked forward, past the acknowledged number.
LEMMA StopWaitingReceivedAckFacts ==
  ASSUME NEW sw \in StopWaitingType, NEW largest \in PacketNumbers
  PROVE  /\ StopWaitingReceivedAck(sw, largest) \in StopWaitingType
         /\ StopWaitingReceivedAck(sw, largest).largestLeastUnackedSent
              = sw.largestLeastUnackedSent
         /\ StopWaitingReceivedAck(sw, largest).nextLeastUnacked >= sw.nextLeastUnacked
         /\ \A bound \in Nat :
              sw.nextLeastUnacked <= bound + 1 /\ largest <= bound
                => StopWaitingReceivedAck(sw, largest).nextLeastUnacked <= bound + 1
BY BoundsAssumption DEF StopWaitingReceivedAck, StopWaitingType, PacketNumbers

\* RemovePackets keeps the accounting: what it frees or loses was in the history.
LEMMA RemovePacketsFacts ==
  ASSUME TypeOK, InFlightAccounting, OneFate,
         NEW freed \in SUBSET packetHistory, NEW lost \in SUBSET packetHistory,
         freed \cap lost = {},
         NEW order \in ListOrders(lost),
         RemovePackets(freed, lost, order),
         UNCHANGED lastSentPacketNumber
  PROVE  /\ InFlightAccounting'
         /\ OneFate'
         /\ packetHistory' \in SUBSET packetHistory
         /\ packetHistory' \in SUBSET PacketNumbers
         /\ bytesInFlight' \in Nat
         /\ retransmissionQueue' \in Seq(PacketNumbers)
         /\ acked' \in SUBSET PacketNumbers
         /\ requeued' \in SUBSET PacketNumbers
         /\ requeued' = requeued \cup lost
<1>1. /\ packetHistory \in SUBSET PacketNumbers
      /\ freed \in SUBSET PacketNumbers
      /\ lost \in SUBSET PacketNumbers
      /\ packetHistory \ (freed \cup lost) \in SUBSET PacketNumbers
  BY DEF TypeOK
<1>2. /\ IsFiniteSet(packetHistory) /\ Cardinality(packetHistory) \in Nat
      /\ IsFiniteSet(freed) /\ Cardinality(freed) \in Nat
      /\ IsFiniteSet(lost) /\ Cardinality(lost) \in Nat
      /\ Cardinality(packetHistory \ (freed \cup lost)) \in Nat
  BY <1>1, PacketSetsFinite
<1>3. Cardinality(packetHistory \ (freed \cup lost))
        = Cardinality(packetHistory) - Cardinality(freed) - Cardinality(lost)
  <2>1. packetHistory \cap (freed \cup lost) = freed \cup lost
    OBVIOUS
  <2>2. Cardinality(packetHistory \ (freed \cup lost))
          = Cardinality(packetHistory) - Cardinality(freed \cup lost)
    BY <1>2, <2>1, FS_Difference
  <2>3. Cardinality(freed \cup lost) = Cardinality(freed) + Cardinality(lost)
    <3>1. Cardinality(freed \cap lost) = 0
      BY FS_EmptySet
    <3>2. Cardinality(freed \cup lost)
            = Cardinality(freed) + Cardinality(lost) - Cardinality(freed \cap lost)
      BY <1>2, FS_Union
    <3> QED BY <1>2, <3>1, <3>2
  <2> QED BY <1>2, <2>2, <2>3
<1>4. InFlightAccounting'
  BY <1>2, <1>3 DEF InFlightAccounting, RemovePackets
<1>5. OneFate'
  BY DEF OneFate, RemovePackets
<1>6. bytesInFlight' \in Nat
  BY <1>2, <1>4 DEF InFlightAccounting, RemovePackets
<1>7. retransmissionQueue' \in Seq(PacketNumbers)
  BY <1>1, ListOrderFacts, ConcatProperties DEF RemovePackets, TypeOK
<1> QED BY <1>1, <1>4, <1>5, <1>6, <1>7 DEF RemovePackets, TypeOK

\* A step that requeues lost packets and tells the stop waiting manager about them
\* keeps StopWaitingCoversRequeued.
LEMMA StopWaitingStep ==
  ASSUME TypeOK, OneFate, StopWaitingCoversRequeued,
         NEW lost \in SUBSET packetHistory,
         NEW order \in ListOrders(lost),
         stopWaitingManager' = StopWaitingRequeued(stopWaitingManager, order),
         requeued' = requeued \cup lost,
         UNCHANGED lastSentPacketNumber
  PROVE  StopWaitingCoversRequeued' /\ stopWaitingManager' \in StopWaitingType
<1> DEFINE sw == StopWaitingRequeued(stopWaitingManager, order)
<1>1. stopWaitingManager \in StopWaitingType /\ lost \in SUBSET PacketNumbers
  BY DEF TypeOK, StopWaitingType
<1>2. /\ sw \in StopWaitingType
      /\ sw.largestLeastUnackedSent = stopWaitingManager.largestLeastUnackedSent
      /\ sw.nextLeastUnacked >= stopWaitingManager.nextLeastUnacked
      /\ \A p \in lost : p < sw.nextLeastUnacked
      /\ \A bound \in Nat :
           stopWaitingManager.nextLeastUnacked <= bound + 1 /\ (\A p \in lost : p <= bound)
             => sw.nextLeastUnacked <= bound + 1
  BY <1>1, StopWaitingRequeuedFacts
<1>3. stopWaitingManager' = sw
  OBVIOUS
<1> HIDE DEF sw
<1>4. /\ sw.nextLeastUnacked \in Nat /\ sw.largestLeastUnackedSent \in Nat
      /\ stopWaitingManager.nextLeastUnacked \in Nat
      /\ requeued \subseteq Nat
      /\ lastSentPacketNumber \in Nat
  BY <1>1, <1>2, BoundsAssumption DEF StopWaitingType, TypeOK, PacketNumbers
<1>5. sw.nextLeastUnacked <= lastSentPacketNumber + 1
  BY <1>2, <1>4 DEF OneFate, StopWaitingCoversRequeued
<1>6. \A p \in requeued' : p < sw.nextLeastUnacked
  BY <1>2, <1>4 DEF StopWaitingCoversRequeued
<1>7. sw.largestLeastUnackedSent <= sw.nextLeastUnacked
  BY <1>2, <1>4 DEF StopWaitingCoversRequeued
<1> QED BY <1>2, <1>3, <1>5, <1>6, <1>7 DEF StopWaitingCoversRequeued

\* An alarm computed while a packet is outstanding is armed.
LEMMA ComputedAlarm ==
  ASSUME UpdateLossDetectionAlarm
  PROVE  alarm' \in Alarms /\ AlarmArmed'
BY DEF UpdateLossDetectionAlarm, AlarmAfter, Alarms, AlarmArmed

-----------------------------------------------------------------------------
(* One lemma per group of actions. *)

\* SentPacket: the number is new, so the history and the books grow together.
LEMMA SentPacketStep ==
  ASSUME IInv, NEW p \in PacketNumbers, NEW content \in Contents, SentPacket(p, content)
  PROVE  IInv'
<1> USE DEF SentPacket
<1>1. /\ lastSentPacketNumber \in Nat /\ lastSentPacketNumber' = p /\ p \in Nat
      /\ p > lastSentPacketNumber
      /\ \A q \in packetHistory \cup acked \cup requeued : q \in Nat /\ q < p
  BY BoundsAssumption DEF IInv, TypeOK, OneFate, PacketNumbers
<1>2. IsFiniteSet(packetHistory) /\ Cardinality(packetHistory) \in Nat
  BY PacketSetsFinite DEF IInv, TypeOK
<1>3. packetHistory' \in SUBSET (packetHistory \cup {p})
  OBVIOUS
<1>4. InFlightAccounting' /\ bytesInFlight' \in Nat
  <2>1. CASE content = "none"
    BY <2>1, <1>2 DEF IInv, InFlightAccounting
  <2>2. CASE content # "none"
    <3>1. p \notin packetHistory
      BY <1>1
    <3>2. Cardinality(packetHistory \cup {p}) = Cardinality(packetHistory) + 1
      BY <1>2, <3>1, FS_AddElement
    <3>3. packetHistory' = packetHistory \cup {p} /\ bytesInFlight' = bytesInFlight + 1
      BY <2>2
    <3>4. bytesInFlight = Cardinality(packetHistory)
      BY DEF IInv, InFlightAccounting
    <3>5. bytesInFlight' = Cardinality(packetHistory')
      BY <3>2, <3>3, <3>4
    <3> QED BY <3>3, <3>4, <3>5, <1>2 DEF InFlightAccounting
  <2> QED BY <2>1, <2>2
<1>5. TypeOK'
  <2>1. skippedPackets' \in SUBSET PacketNumbers
    <3>1. skippedPackets' \subseteq skippedPackets \cup (lastSentPacketNumber + 1)..(p - 1)
      BY DEF Newest
    <3>2. (lastSentPacketNumber + 1)..(p - 1) \subseteq PacketNumbers
      BY <1>1, BoundsAssumption DEF PacketNumbers
    <3>3. skippedPackets \subseteq PacketNumbers
      BY DEF IInv, TypeOK
    <3> QED BY <3>1, <3>2, <3>3
  <2>2. lastSentPacketNumber' \in 0..MaxPacketNumber
    BY <1>1, BoundsAssumption DEF PacketNumbers
  <2>3. packetHistory' \in SUBSET PacketNumbers /\ controlOnly' \in SUBSET PacketNumbers
    BY <1>3 DEF IInv, TypeOK
  <2>4. alarm' \in Alarms
    BY ComputedAlarm
  <2> QED BY <2>1, <2>2, <2>3, <2>4, <1>4 DEF IInv, TypeOK
<1>6. AckedWasSent' /\ OneFate'
  <2>1. LargestAcked \in Nat /\ LargestAcked < p
    BY <1>1 DEF IInv, TypeOK, AckedWasSent
  <2> QED BY <1>1, <1>3, <2>1 DEF IInv, AckedWasSent, OneFate
<1>7. AlarmArmed'
  BY ComputedAlarm
<1>8. LossTimeExact'
  <2>1. LargestAcked' = LargestAcked /\ LargestAcked \in Nat /\ ~(p <= LargestAcked)
    BY <1>1 DEF IInv, TypeOK, AckedWasSent
  <2>2. packetHistory \subseteq packetHistory'
    OBVIOUS
  <2> QED BY <1>3, <2>1, <2>2 DEF IInv, LossTimeExact
<1>9. StopWaitingCoversRequeued'
  BY <1>1, BoundsAssumption DEF IInv, TypeOK, StopWaitingCoversRequeued
<1> QED BY <1>4, <1>5, <1>6, <1>7, <1>8, <1>9 DEF IInv

\* The steps that only touch the queue, the stop waiting manager or the flags.
LEMMA BookkeepingStep ==
  ASSUME IInv,
         \/ SentPacketTooMany \/ DuplicatePacket \/ DequeuePacketForRetransmission
         \/ GetStopWaitingFrame \/ PathClosed
  PROVE  IInv'
<1>1. CASE SentPacketTooMany
  BY <1>1 DEF SentPacketTooMany, IInv, TypeOK, AckedWasSent, AlarmArmed, IsRetransmittable,
              InFlightAccounting, LossTimeExact, StopWaitingCoversRequeued, OneFate
<1>2. CASE DuplicatePacket
  <2>1. lastSentPacketNumber \in PacketNumbers
    BY <1>2, BoundsAssumption DEF DuplicatePacket, IInv, TypeOK, PacketNumbers
  <2>2. retransmissionQueue' \in Seq(PacketNumbers)
    BY <1>2, <2>1 DEF DuplicatePacket, IInv, TypeOK
  <2> QED
    BY <1>2, <2>2 DEF DuplicatePacket, IInv, TypeOK, AckedWasSent, AlarmArmed,
                      IsRetransmittable, InFlightAccounting, LossTimeExact,
                      StopWaitingCoversRequeued, OneFate
<1>3. CASE DequeuePacketForRetransmission
  <2>1. retransmissionQueue' \in Seq(PacketNumbers)
    BY <1>3, HeadTailProperties DEF DequeuePacketForRetransmission, IInv, TypeOK
  <2> QED
    BY <1>3, <2>1 DEF DequeuePacketForRetransmission, IInv, TypeOK, AckedWasSent,
                      AlarmArmed, IsRetransmittable, InFlightAccounting, LossTimeExact,
                      StopWaitingCoversRequeued, OneFate
<1>4. CASE GetStopWaitingFrame
  <2> USE <1>4 DEF GetStopWaitingFrame
  <2>1. stopWaitingManager \in StopWaitingType
    BY DEF IInv, TypeOK, StopWaitingType
  <2>2. /\ stopWaitingManager' \in StopWaitingType
        /\ stopWaitingManager'.nextLeastUnacked = stopWaitingManager.nextLeastUnacked
        /\ stopWaitingManager'.largestLeastUnackedSent = stopWaitingManager.nextLeastUnacked
        /\ stopWaitingManager.nextLeastUnacked \in Nat
    BY <2>1, BoundsAssumption DEF StopWaitingType
  <2>3. StopWaitingCoversRequeued'
    BY <2>2 DEF IInv, StopWaitingCoversRequeued
  <2> QED
    BY <2>2, <2>3 DEF IInv, TypeOK, StopWaitingType, AckedWasSent, AlarmArmed,
                      IsRetransmittable, InFlightAccounting, LossTimeExact, OneFate
<1>5. CASE PathClosed
  BY <1>5 DEF PathClosed, IInv, TypeOK, AckedWasSent, AlarmArmed, IsRetransmittable,
              InFlightAccounting, LossTimeExact, StopWaitingCoversRequeued, OneFate
<1> QED BY <1>1, <1>2, <1>3, <1>4, <1>5

\* ReceivedAck that finds packets acknowledged and packets lost.
LEMMA ProcessedAckStep ==
  ASSUME IInv, NEW largest \in PacketNumbers, NEW ranges \in SUBSET Int,
         NEW with \in 1..MaxAckPackets,
         ProcessedAck(largest, ranges, with)
  PROVE  IInv'
<1> DEFINE newly == packetHistory \cap ranges
<1>1. PICK lost \in Overdue(packetHistory \ newly, largest) : \E order \in ListOrders(lost) :
        /\ UpdateRTT(largest, newly)
        /\ RemovePackets(newly, lost, order)
        /\ stopWaitingManager' =
             StopWaitingReceivedAck(StopWaitingRequeued(stopWaitingManager, order), largest)
  BY DEF ProcessedAck
<1>2. PICK order \in ListOrders(lost) :
        /\ UpdateRTT(largest, newly)
        /\ RemovePackets(newly, lost, order)
        /\ stopWaitingManager' =
             StopWaitingReceivedAck(StopWaitingRequeued(stopWaitingManager, order), largest)
  BY <1>1
<1>3. /\ newly \in SUBSET packetHistory
      /\ lost \in SUBSET packetHistory
      /\ newly \cap lost = {}
  BY DEF Overdue
<1> HIDE DEF newly
<1>4. /\ LargestAcked' = largest /\ largest <= lastSentPacketNumber
      /\ largestReceivedPacketWithAck' = with
      /\ lossTime' = (\E p \in packetHistory' : p <= largest)
      /\ UpdateLossDetectionAlarm
      /\ GarbageCollectSkippedPackets(largest)
      /\ UNCHANGED <<lastSentPacketNumber, controlOnly, closing, open, failed>>
  BY DEF ProcessedAck, InOrder
<1>5. /\ InFlightAccounting' /\ OneFate'
      /\ packetHistory' \in SUBSET PacketNumbers
      /\ bytesInFlight' \in Nat
      /\ retransmissionQueue' \in Seq(PacketNumbers)
      /\ acked' \in SUBSET PacketNumbers /\ requeued' \in SUBSET PacketNumbers
      /\ requeued' = requeued \cup lost
  BY <1>2, <1>3, <1>4, RemovePacketsFacts DEF IInv
<1>6. stopWaitingManager' \in StopWaitingType /\ StopWaitingCoversRequeued'
  <2> DEFINE sw1 == StopWaitingRequeued(stopWaitingManager, order)
             sw2 == StopWaitingReceivedAck(sw1, largest)
  <2>1. stopWaitingManager \in StopWaitingType /\ lost \in SUBSET PacketNumbers
    BY <1>3 DEF IInv, TypeOK, StopWaitingType
  <2>2. lastSentPacketNumber \in Nat /\ (\A p \in lost : p <= lastSentPacketNumber)
    BY <1>3, BoundsAssumption DEF IInv, TypeOK, OneFate
  <2>3. /\ sw1 \in StopWaitingType
        /\ sw1.largestLeastUnackedSent = stopWaitingManager.largestLeastUnackedSent
        /\ sw1.nextLeastUnacked >= stopWaitingManager.nextLeastUnacked
        /\ \A p \in lost : p < sw1.nextLeastUnacked
        /\ sw1.nextLeastUnacked <= lastSentPacketNumber + 1
    BY <2>1, <2>2, StopWaitingRequeuedFacts DEF IInv, StopWaitingCoversRequeued
  <2> HIDE DEF sw1
  <2>4. /\ sw2 \in StopWaitingType
        /\ sw2.largestLeastUnackedSent = sw1.largestLeastUnackedSent
        /\ sw2.nextLeastUnacked >= sw1.nextLeastUnacked
        /\ sw2.nextLeastUnacked <= lastSentPacketNumber + 1
    BY <1>4, <2>2, <2>3, StopWaitingReceivedAckFacts
  <2>5. stopWaitingManager' = sw2
    BY <1>2 DEF sw1
  <2> HIDE DEF sw2
  <2>6. /\ sw2.nextLeastUnacked \in Nat /\ sw1.nextLeastUnacked \in Nat
        /\ sw2.largestLeastUnackedSent \in Nat
        /\ stopWaitingManager.nextLeastUnacked \in Nat
        /\ requeued \subseteq Nat /\ lost \subseteq Nat
    BY <2>1, <2>3, <2>4, BoundsAssumption DEF StopWaitingType, IInv, TypeOK, PacketNumbers
  <2>7. \A p \in requeued' : p < sw2.nextLeastUnacked
    BY <1>5, <2>3, <2>4, <2>6 DEF IInv, StopWaitingCoversRequeued
  <2>8. sw2.largestLeastUnackedSent <= sw2.nextLeastUnacked
    BY <2>3, <2>4, <2>6 DEF IInv, StopWaitingCoversRequeued
  <2> QED BY <1>4, <2>4, <2>5, <2>7, <2>8 DEF StopWaitingCoversRequeued
<1>7. TypeOK'
  <2>1. tlpCount' \in 0..MaxTailLossProbes /\ rttKnown' \in BOOLEAN
    <3>1. tlpCount' \in 0..MaxTailLossProbes
      BY <1>2, BoundsAssumption DEF UpdateRTT, IInv, TypeOK
    <3>2. rttKnown \in BOOLEAN /\ rttKnown' \in {rttKnown, TRUE}
      BY <1>2, Zenon DEF UpdateRTT, IInv, TypeOK
    <3> QED BY <3>1, <3>2, Zenon
  <2>2. LargestAcked' \in 0..MaxPacketNumber /\ with \in 0..MaxAckPackets
    BY <1>4, BoundsAssumption DEF PacketNumbers
  <2>3. skippedPackets' \in SUBSET PacketNumbers
    BY <1>4 DEF GarbageCollectSkippedPackets, IInv, TypeOK
  <2>4. lossTime' \in BOOLEAN
    BY <1>4
  <2>5. alarm' \in Alarms
    BY <1>4, ComputedAlarm
  <2> QED
    BY <1>4, <1>5, <1>6, <2>1, <2>2, <2>3, <2>4, <2>5 DEF IInv, TypeOK, StopWaitingType
<1>8. AckedWasSent' /\ AlarmArmed' /\ LossTimeExact'
  BY <1>4, ComputedAlarm DEF AckedWasSent, LossTimeExact
<1> QED BY <1>5, <1>6, <1>7, <1>8 DEF IInv

\* ReceivedAck: a refused or repeated frame leaves the history alone.
LEMMA ReceivedAckStep ==
  ASSUME IInv, NEW largest \in PacketNumbers, NEW ranges \in SUBSET Int,
         NEW with \in 1..MaxAckPackets,
         ReceivedAck(largest, ranges, with)
  PROVE  IInv'
<1>1. CASE AckForUnsentPacket(largest)
  BY <1>1 DEF AckForUnsentPacket, IInv, TypeOK, AckedWasSent, AlarmArmed, IsRetransmittable,
              InFlightAccounting, LossTimeExact, StopWaitingCoversRequeued, OneFate
<1>2. CASE RepeatedAck(largest, with)
  <2>1. with \in 0..MaxAckPackets
    BY BoundsAssumption
  <2> QED
    BY <1>2, <2>1 DEF RepeatedAck, InOrder, IInv, TypeOK, AckedWasSent, AlarmArmed,
                      IsRetransmittable, InFlightAccounting, LossTimeExact,
                      StopWaitingCoversRequeued, OneFate
<1>3. CASE AckForSkippedPacket(largest, ranges, with)
  <2>1. with \in 0..MaxAckPackets /\ largest \in 0..MaxPacketNumber
    BY BoundsAssumption DEF PacketNumbers
  <2> QED
    BY <1>3, <2>1 DEF AckForSkippedPacket, InOrder, IInv, TypeOK, AckedWasSent, AlarmArmed,
                      IsRetransmittable, InFlightAccounting, LossTimeExact,
                      StopWaitingCoversRequeued, OneFate
<1>4. CASE ProcessedAck(largest, ranges, with)
  BY <1>4, ProcessedAckStep
<1> QED BY <1>1, <1>2, <1>3, <1>4 DEF ReceivedAck

\* closePath and handleClosePathFrame: the alarm stays as it was, the history shrinks.
LEMMA ClosePathStep ==
  ASSUME IInv,
         NEW freed \in SUBSET packetHistory, NEW lost \in SUBSET packetHistory,
         freed \cap lost = {},
         NEW order \in ListOrders(lost),
         RemovePackets(freed, lost, order),
         stopWaitingManager' = StopWaitingRequeued(stopWaitingManager, order),
         closing',
         closing' \in BOOLEAN,
         skippedPackets' \in SUBSET PacketNumbers,
         largestReceivedPacketWithAck' \in 0..MaxAckPackets,
         tlpCount' \in 0..MaxTailLossProbes,
         UNCHANGED <<lastSentPacketNumber, LargestAcked, controlOnly, rttKnown, lossTime,
                     alarm, open, failed>>
  PROVE  IInv'
<1>1. /\ InFlightAccounting' /\ OneFate'
      /\ packetHistory' \in SUBSET packetHistory
      /\ packetHistory' \in SUBSET PacketNumbers
      /\ bytesInFlight' \in Nat
      /\ retransmissionQueue' \in Seq(PacketNumbers)
      /\ acked' \in SUBSET PacketNumbers /\ requeued' \in SUBSET PacketNumbers
      /\ requeued' = requeued \cup lost
  BY RemovePacketsFacts DEF IInv
<1>2. StopWaitingCoversRequeued' /\ stopWaitingManager' \in StopWaitingType
  BY <1>1, StopWaitingStep DEF IInv
<1>3. TypeOK'
  BY <1>1, <1>2 DEF IInv, TypeOK, StopWaitingType
<1>4. AlarmArmed'
  BY <1>1 DEF IInv, AlarmArmed, IsRetransmittable
<1>5. AckedWasSent' /\ LossTimeExact'
  BY DEF IInv, AckedWasSent, LossTimeExact
<1> QED BY <1>1, <1>2, <1>3, <1>4, <1>5 DEF IInv

\* What closing a path takes back (SetInflightAsLost) is counted out and requeued.
LEMMA SetInflightAsLostStep ==
  ASSUME IInv, SetInflightAsLost
  PROVE  IInv'
<1> DEFINE lost == {p \in packetHistory : p <= LargestAcked}
<1>1. PICK order \in ListOrders(lost) :
        /\ RemovePackets({}, lost, order)
        /\ stopWaitingManager' = StopWaitingRequeued(stopWaitingManager, order)
  BY DEF SetInflightAsLost
<1>2. {} \in SUBSET packetHistory /\ lost \in SUBSET packetHistory /\ {} \cap lost = {}
  OBVIOUS
<1> HIDE DEF lost
<1>3. /\ closing' = TRUE
      /\ UNCHANGED <<lastSentPacketNumber, skippedPackets, LargestAcked,
                     largestReceivedPacketWithAck, controlOnly, rttKnown, tlpCount, lossTime,
                     alarm, open, failed>>
  BY DEF SetInflightAsLost
<1>4. /\ skippedPackets' \in SUBSET PacketNumbers
      /\ largestReceivedPacketWithAck' \in 0..MaxAckPackets
      /\ tlpCount' \in 0..MaxTailLossProbes
  BY <1>3 DEF IInv, TypeOK
<1> QED BY <1>1, <1>2, <1>3, <1>4, ClosePathStep

\* A CLOSE_PATH frame frees packets that it acknowledges, or is refused; LargestAcked stays.
LEMMA ReceivedClosePathStep ==
  ASSUME IInv, NEW largest \in PacketNumbers, NEW ranges \in SUBSET Int,
         NEW with \in 1..MaxAckPackets,
         ReceivedClosePath(largest, ranges, with)
  PROVE  IInv'
<1>1. /\ closing' = TRUE
      /\ UNCHANGED <<lastSentPacketNumber, LargestAcked, controlOnly, rttKnown, lossTime,
                     alarm, open, failed>>
      /\ with \in 0..MaxAckPackets
  BY BoundsAssumption DEF ReceivedClosePath
<1>2. CASE RefusedClosePath(largest, ranges, with)
  <2>1. /\ UNCHANGED <<skippedPackets, packetHistory, retransmissionQueue, bytesInFlight,
                       tlpCount, stopWaitingManager, acked, requeued>>
        /\ largestReceivedPacketWithAck' \in {largestReceivedPacketWithAck, with}
    BY <1>2 DEF RefusedClosePath, InOrder
  <2>2. largestReceivedPacketWithAck' \in 0..MaxAckPackets
    BY <1>1, <2>1 DEF IInv, TypeOK
  <2> QED
    BY <1>1, <2>1, <2>2 DEF IInv, TypeOK, AckedWasSent, AlarmArmed, IsRetransmittable,
                            InFlightAccounting, LossTimeExact, StopWaitingCoversRequeued,
                            OneFate
<1>3. CASE ProcessedClosePath(largest, ranges, with)
  <2> DEFINE newly == packetHistory \cap ranges
             lost  == {p \in packetHistory \ newly : p <= LargestAcked}
  <2>1. PICK order \in ListOrders(lost) :
          /\ RemovePackets(newly, lost, order)
          /\ stopWaitingManager' = StopWaitingRequeued(stopWaitingManager, order)
          /\ tlpCount' = IF newly = {} THEN tlpCount ELSE 0
    BY <1>3 DEF ProcessedClosePath
  <2>2. newly \in SUBSET packetHistory /\ lost \in SUBSET packetHistory /\ newly \cap lost = {}
    OBVIOUS
  <2> HIDE DEF newly, lost
  <2>3. tlpCount' \in 0..MaxTailLossProbes
    BY <2>1, BoundsAssumption DEF IInv, TypeOK
  <2>4. skippedPackets' \in SUBSET PacketNumbers
    BY <1>3 DEF ProcessedClosePath, GarbageCollectSkippedPackets, IInv, TypeOK
  <2>5. largestReceivedPacketWithAck' = with
    BY <1>3 DEF ProcessedClosePath, InOrder
  <2> QED BY <1>1, <2>1, <2>2, <2>3, <2>4, <2>5, ClosePathStep
<1> QED BY <1>2, <1>3 DEF ReceivedClosePath

\* An alarm that requeues packets and computes the next alarm.
LEMMA AlarmLosesStep ==
  ASSUME IInv,
         NEW lost \in SUBSET packetHistory, AlarmLoses(lost),
         tlpCount' \in 0..MaxTailLossProbes,
         lossTime' \in BOOLEAN,
         UpdateLossDetectionAlarm,
         UNCHANGED <<lastSentPacketNumber, skippedPackets, LargestAcked,
                     largestReceivedPacketWithAck, controlOnly, rttKnown, closing, open, failed>>,
         LossTimeExact'
  PROVE  IInv'
<1>1. PICK order \in ListOrders(lost) :
        /\ RemovePackets({}, lost, order)
        /\ stopWaitingManager' = StopWaitingRequeued(stopWaitingManager, order)
  BY DEF AlarmLoses
<1>2. /\ InFlightAccounting' /\ OneFate'
      /\ packetHistory' \in SUBSET PacketNumbers
      /\ bytesInFlight' \in Nat
      /\ retransmissionQueue' \in Seq(PacketNumbers)
      /\ acked' \in SUBSET PacketNumbers /\ requeued' \in SUBSET PacketNumbers
      /\ requeued' = requeued \cup lost
  <2>1. {} \in SUBSET packetHistory /\ {} \cap lost = {}
    OBVIOUS
  <2> QED BY <1>1, <2>1, RemovePacketsFacts DEF IInv
<1>3. StopWaitingCoversRequeued' /\ stopWaitingManager' \in StopWaitingType
  BY <1>1, <1>2, StopWaitingStep DEF IInv
<1>4. alarm' \in Alarms /\ AlarmArmed'
  BY ComputedAlarm
<1>5. TypeOK' /\ AckedWasSent'
  BY <1>2, <1>3, <1>4 DEF IInv, TypeOK, AckedWasSent, StopWaitingType
<1> QED BY <1>2, <1>3, <1>4, <1>5 DEF IInv

\* The alarm, whichever of its four outcomes.
LEMMA OnAlarmStep ==
  ASSUME IInv, OnAlarm
  PROVE  IInv'
<1>1. UNCHANGED <<lastSentPacketNumber, skippedPackets, LargestAcked,
                  largestReceivedPacketWithAck, controlOnly, rttKnown, closing, open, failed>>
  BY DEF OnAlarm
<1>2. CASE CancelAlarm
  BY <1>1, <1>2 DEF CancelAlarm, Alarms, IInv, TypeOK, AckedWasSent, AlarmArmed,
                    IsRetransmittable, InFlightAccounting, LossTimeExact,
                    StopWaitingCoversRequeued, OneFate
<1>3. CASE EarlyRetransmit /\ UpdateLossDetectionAlarm
  <2>1. PICK lost \in Overdue(packetHistory, LargestAcked) : AlarmLoses(lost)
    BY <1>3 DEF EarlyRetransmit
  <2>2. /\ lost \in SUBSET packetHistory
        /\ tlpCount' = tlpCount
        /\ lossTime' = (\E p \in packetHistory' : p <= LargestAcked)
    BY <1>3 DEF EarlyRetransmit, Overdue
  <2>3. LossTimeExact' /\ lossTime' \in BOOLEAN
    BY <1>1, <2>2 DEF LossTimeExact
  <2>4. tlpCount' \in 0..MaxTailLossProbes
    BY <2>2 DEF IInv, TypeOK
  <2> QED BY <1>1, <1>3, <2>1, <2>2, <2>3, <2>4, AlarmLosesStep
<1>4. CASE TailLossProbe /\ UpdateLossDetectionAlarm
  <2>1. PICK last \in packetHistory : AlarmLoses({last})
    BY <1>4 DEF TailLossProbe
  <2>2. tlpCount' \in 0..MaxTailLossProbes
    BY <1>4, BoundsAssumption DEF TailLossProbe, IInv, TypeOK
  <2>3. packetHistory' \in SUBSET packetHistory
    BY <2>1 DEF AlarmLoses, RemovePackets
  <2>4. ~lossTime /\ lossTime' = lossTime
    BY <1>4 DEF TailLossProbe
  <2>5. LossTimeExact'
    BY <1>1, <2>3, <2>4 DEF IInv, LossTimeExact
  <2>6. lossTime' \in BOOLEAN
    BY <2>4 DEF IInv, TypeOK
  <2> QED BY <1>1, <1>4, <2>1, <2>2, <2>5, <2>6, AlarmLosesStep
<1>5. CASE RetransmissionTimeout /\ UpdateLossDetectionAlarm
  <2>1. PICK lost \in SUBSET packetHistory : AlarmLoses(lost)
    BY <1>5 DEF RetransmissionTimeout
  <2>2. packetHistory' \in SUBSET packetHistory
    BY <2>1 DEF AlarmLoses, RemovePackets
  <2>3. ~lossTime /\ lossTime' = lossTime /\ tlpCount' = tlpCount
    BY <1>5 DEF RetransmissionTimeout
  <2>4. LossTimeExact'
    BY <1>1, <2>2, <2>3 DEF IInv, LossTimeExact
  <2>5. tlpCount' \in 0..MaxTailLossProbes /\ lossTime' \in BOOLEAN
    BY <2>3 DEF IInv, TypeOK
  <2> QED BY <1>1, <1>5, <2>1, <2>4, <2>5, AlarmLosesStep
<1> QED BY <1>2, <1>3, <1>4, <1>5 DEF OnAlarm

-----------------------------------------------------------------------------
(* The theorems. *)

\* A new handler has an empty history and no alarm.
LEMMA InitIInv == Init => IInv
<1> SUFFICES ASSUME Init PROVE IInv
  OBVIOUS
<1> USE DEF Init
<1>1. TypeOK
  <2>1. 0 \in 0..MaxPacketNumber /\ 0 \in 0..MaxAckPackets /\ 0 \in 0..MaxTailLossProbes
          /\ 0 \in 0..(MaxPacketNumber + 1)
    BY BoundsAssumption
  <2>2. stopWaitingManager \in StopWaitingType
    BY <2>1 DEF StopWaitingType
  <2>3. retransmissionQueue \in Seq(PacketNumbers)
    OBVIOUS
  <2> QED BY <2>1, <2>2, <2>3 DEF TypeOK, Alarms, StopWaitingType
<1>2. InFlightAccounting
  BY FS_EmptySet DEF InFlightAccounting
<1>3. AckedWasSent /\ AlarmArmed /\ LossTimeExact /\ StopWaitingCoversRequeued /\ OneFate
  BY DEF AckedWasSent, AlarmArmed, LossTimeExact, StopWaitingCoversRequeued, OneFate
<1> QED BY <1>1, <1>2, <1>3 DEF IInv

\* Every method of the handler keeps the invariant.
LEMMA NextIInv == IInv /\ [Next]_vars => IInv'
<1> SUFFICES ASSUME IInv, [Next]_vars PROVE IInv'
  OBVIOUS
<1>1. CASE \E p \in PacketNumbers, content \in Contents :
             p <= lastSentPacketNumber + 1 + MaxSkip /\ SentPacket(p, content)
  BY <1>1, SentPacketStep
<1>2. CASE \/ SentPacketTooMany \/ DuplicatePacket \/ DequeuePacketForRetransmission
           \/ GetStopWaitingFrame \/ PathClosed
  BY <1>2, BookkeepingStep
<1>3. CASE \E largest \in PacketNumbers, with \in 1..MaxAckPackets :
           \E ranges \in AckedRanges(largest) :
             \/ ReceivedAck(largest, ranges, with)
             \/ ReceivedClosePath(largest, ranges, with)
  <2>0. PICK largest \in PacketNumbers, with \in 1..MaxAckPackets :
           \E ranges \in AckedRanges(largest) :
             \/ ReceivedAck(largest, ranges, with)
             \/ ReceivedClosePath(largest, ranges, with)
    BY <1>3
  <2>1. PICK ranges \in AckedRanges(largest) :
             \/ ReceivedAck(largest, ranges, with)
             \/ ReceivedClosePath(largest, ranges, with)
    BY <2>0
  <2>2. ranges \in SUBSET Int
    BY BoundsAssumption DEF AckedRanges, PacketNumbers
  <2> QED BY <2>1, <2>2, ReceivedAckStep, ReceivedClosePathStep
<1>4. CASE SetInflightAsLost
  BY <1>4, SetInflightAsLostStep
<1>5. CASE OnAlarm
  BY <1>5, OnAlarmStep
<1>6. CASE UNCHANGED vars
  BY <1>6 DEF vars, IInv, TypeOK, AckedWasSent, AlarmArmed, IsRetransmittable,
              InFlightAccounting, LossTimeExact, StopWaitingCoversRequeued, OneFate
<1> QED BY <1>1, <1>2, <1>3, <1>4, <1>5, <1>6 DEF Next

\* The inductive invariant holds in every reachable state of every handler.
THEOREM InductiveInvariant == Spec => []IInv
<1>1. Init => IInv
  BY InitIInv
<1>2. IInv /\ [Next]_vars => IInv'
  BY NextIInv
<1> QED BY <1>1, <1>2, PTL DEF Spec

\* Type correctness; in particular the unsigned bytesInFlight never goes below zero.
THEOREM TypeCorrect == Spec => []TypeOK
<1>1. IInv => TypeOK
  BY DEF IInv
<1> QED BY <1>1, InductiveInvariant, PTL

\* While a packet to be retransmitted is outstanding, sentPacketHandler has an alarm.
THEOREM AlarmAlwaysArmed == Spec => []AlarmArmed
<1>1. IInv => AlarmArmed
  BY DEF IInv
<1> QED BY <1>1, InductiveInvariant, PTL

\* bytesInFlight counts packetHistory exactly, whatever is acked, lost or probed.
THEOREM AccountingExact == Spec => []InFlightAccounting
<1>1. IInv => InFlightAccounting
  BY DEF IInv
<1> QED BY <1>1, InductiveInvariant, PTL

\* lossTime is set exactly while an overtaken packet waits for early retransmission.
THEOREM LossTimeCorrect == Spec => []LossTimeExact
<1>1. IInv => LossTimeExact
  BY DEF IInv
<1> QED BY <1>1, InductiveInvariant, PTL

\* STOP_WAITING covers what was taken back and nothing that is still to be sent.
THEOREM StopWaitingCorrect == Spec => []StopWaitingCoversRequeued
<1>1. IInv => StopWaitingCoversRequeued
  BY DEF IInv
<1> QED BY <1>1, InductiveInvariant, PTL

\* A packet leaves packetHistory once, acknowledged or requeued, never both.
THEOREM OneFateCorrect == Spec => []OneFate
<1>1. IInv => OneFate
  BY DEF IInv
<1> QED BY <1>1, InductiveInvariant, PTL

=============================================================================
