------------------------- MODULE SentPacketHandler -------------------------
(***************************************************************************)
(* The sending half of one path: ackhandler/sent_packet_handler.go with    *)
(* the stopWaitingManager it owns.  A path has exactly one handler, and    *)
(* every method of it runs on the session's run loop, so each method is    *)
(* one atomic action.                                                      *)
(*                                                                         *)
(* Data that no property tells apart is abstracted.  A packet is its       *)
(* number; every packet weighs one unit of bytesInFlight; the clock is     *)
(* replaced by the choices it decides (how far the loss detection reaches, *)
(* which alarm is armed).  The congestion controller, which only reads the *)
(* handler, is left out, and so is numNonRetransmittablePackets, which     *)
(* belongs with its reader, the packet packer.  acked and requeued are     *)
(* history variables: they record where a packet went when it left         *)
(* packetHistory.                                                          *)
(***************************************************************************)
EXTENDS Integers, Sequences, FiniteSets

CONSTANTS
  MaxPacketNumber,          \* bound: packets sent on the path are numbered 1..MaxPacketNumber
  MaxAckPackets,            \* bound: packets with an ACK arrive with numbers 1..MaxAckPackets
  MaxSkip,                  \* bound: numbers a caller leaves out before a packet
  MaxDuplicates,            \* bound: DuplicatePacket is not called on a longer retransmission queue
  MaxTrackedSentPackets,    \* protocol.MaxTrackedSentPackets
  MaxTrackedSkippedPackets, \* protocol.MaxTrackedSkippedPackets
  MaxTailLossProbes         \* maxTailLossProbes

ASSUME BoundsAssumption ==
  /\ MaxPacketNumber \in Nat
  /\ MaxAckPackets \in Nat
  /\ MaxSkip \in Nat
  /\ MaxDuplicates \in Nat
  /\ MaxTrackedSentPackets \in Nat
  /\ MaxTrackedSkippedPackets \in Nat
  /\ MaxTailLossProbes \in Nat

PacketNumbers == 1..MaxPacketNumber

\* What a packet carries once ACK and STOP_WAITING frames are stripped: nothing
\* to retransmit, only frames that IsRetransmittable does not list (CLOSE_PATH),
\* or at least one listed frame.
Contents == {"none", "control", "data"}

VARIABLES
  lastSentPacketNumber,
  skippedPackets,               \* numbers skipped by the generator and still remembered
  LargestAcked,
  largestReceivedPacketWithAck,
  packetHistory,                \* the outstanding packets; the list is ordered by number
  controlOnly,                  \* the packets ever sent whose content was "control"
  retransmissionQueue,
  bytesInFlight,
  rttKnown,                     \* rttStats.SmoothedRTT() != 0
  tlpCount,
  lossTime,                     \* !lossTime.IsZero()
  alarm,                        \* which computation the armed alarm came from
  stopWaitingManager,           \* [nextLeastUnacked, largestLeastUnackedSent, lastStopWaitingFrame]
  closing,                      \* closePath was called and has told path.run to stop
  open,                         \* path.run has not stopped: the path takes and sends packets
  failed,                       \* a returned error is closing the session
  acked,
  requeued

vars == <<lastSentPacketNumber, skippedPackets,
          LargestAcked, largestReceivedPacketWithAck, packetHistory, controlOnly,
          retransmissionQueue, bytesInFlight, rttKnown, tlpCount, lossTime, alarm,
          stopWaitingManager, closing, open, failed, acked, requeued>>

Alarms == {"none", "loss", "TLP", "RTO"}

Init ==
  /\ lastSentPacketNumber = 0
  /\ skippedPackets = {}
  /\ LargestAcked = 0
  /\ largestReceivedPacketWithAck = 0
  /\ packetHistory = {}
  /\ controlOnly = {}
  /\ retransmissionQueue = <<>>
  /\ bytesInFlight = 0
  /\ rttKnown = FALSE
  /\ tlpCount = 0
  /\ lossTime = FALSE
  /\ alarm = "none"
  /\ stopWaitingManager = [nextLeastUnacked |-> 0, largestLeastUnackedSent |-> 0,
                           lastStopWaitingFrame |-> 0]
  /\ closing = FALSE
  /\ open = TRUE
  /\ failed = FALSE
  /\ acked = {}
  /\ requeued = {}

-----------------------------------------------------------------------------
(***************************************************************************)
(* Helpers.  They take the values a method works on as arguments, because  *)
(* most methods change packetHistory before they read it again.            *)
(***************************************************************************)

IsRetransmittable(p) == p \notin controlOnly

\* largestInOrderAcked() < p, for the given history and largest acknowledged number.
AboveInOrderAcked(p, history, largest) ==
  IF history = {} THEN p > largest ELSE \E q \in history : q <= p

\* The packets of S in list order, as a set of the one sequence that lists them.
ListOrders(S) ==
  {s \in [1..Cardinality(S) -> S] :
     /\ \A i, j \in 1..Cardinality(S) : i < j => s[i] < s[j]
     /\ \A p \in S : \E i \in 1..Cardinality(S) : s[i] = p}

\* What detectLostPackets may find lost: packets were sent in number order, so
\* the old enough ones are the first few of those not above the largest acked.
Overdue(history, largest) ==
  {lost \in SUBSET {p \in history : p <= largest} :
     \A p \in lost, q \in history : q < p => q \in lost}

\* skippedPackets is a slice cut to its newest MaxTrackedSkippedPackets entries.
Newest(S) ==
  {p \in S : Cardinality({q \in S : q > p}) < MaxTrackedSkippedPackets}

\* Fault: no timeout is computed once the probes are used up.
AlarmAfterNoTimeout(history, loss, rtt, tlps) ==
  IF history # {} /\ loss THEN "loss"
  ELSE IF history # {} /\ rtt /\ tlps < MaxTailLossProbes THEN "TLP" ELSE "none"

AlarmAfter(history, loss, rtt, tlps) ==
  IF history = {} THEN "none"
  ELSE IF loss THEN "loss"
  ELSE IF rtt /\ tlps < MaxTailLossProbes THEN "TLP" ELSE "RTO"

\* updateLossDetectionAlarm, evaluated at the end of a method.
UpdateLossDetectionAlarm == alarm' = AlarmAfter(packetHistory', lossTime', rttKnown', tlpCount')

\* Fault: the comparison is off by one.
StopWaitingRequeuedOffByOne(sw, order) ==
  IF order = <<>> \/ order[Len(order)] <= sw.nextLeastUnacked
  THEN sw
  ELSE [sw EXCEPT !.nextLeastUnacked = order[Len(order)] + 1]

\* stopWaitingManager.QueuedRetransmissionForPacketNumber for every packet of order.
StopWaitingRequeued(sw, order) ==
  IF order = <<>> \/ order[Len(order)] < sw.nextLeastUnacked
  THEN sw
  ELSE [sw EXCEPT !.nextLeastUnacked = order[Len(order)] + 1]

\* Fault: one number too far.
StopWaitingReceivedAckTooFar(sw, largest) ==
  IF largest >= sw.nextLeastUnacked THEN [sw EXCEPT !.nextLeastUnacked = largest + 2] ELSE sw

\* stopWaitingManager.ReceivedAck.
StopWaitingReceivedAck(sw, largest) ==
  IF largest >= sw.nextLeastUnacked THEN [sw EXCEPT !.nextLeastUnacked = largest + 1] ELSE sw

\* Fault: the bytes of acknowledged packets stay in flight.
RemovePacketsKeepBytes(freed, lost, order) ==
  /\ packetHistory' = packetHistory \ (freed \cup lost)
  /\ bytesInFlight' = bytesInFlight - Cardinality(lost)
  /\ retransmissionQueue' = retransmissionQueue \o order
  /\ acked' = acked \cup freed
  /\ requeued' = requeued \cup lost

\* The packets of freed leave the history for good, and queuePacketForRetransmission
\* moves those of lost, listed by order, to the retransmission queue.
RemovePackets(freed, lost, order) ==
  /\ packetHistory' = packetHistory \ (freed \cup lost)
  /\ bytesInFlight' = bytesInFlight - Cardinality(freed) - Cardinality(lost)
  /\ retransmissionQueue' = retransmissionQueue \o order
  /\ acked' = acked \cup freed
  /\ requeued' = requeued \cup lost

-----------------------------------------------------------------------------
(***************************************************************************)
(* SentPacket.  sendPackedPacket calls it with numbers that only grow, so  *)
(* errPacketNumberNotIncreasing cannot be returned.                        *)
(***************************************************************************)
SentPacketTooMany ==
  /\ open /\ ~failed
  /\ Len(retransmissionQueue) + Cardinality(packetHistory) + 1 > MaxTrackedSentPackets
  /\ failed' = TRUE
  /\ UNCHANGED <<lastSentPacketNumber, skippedPackets,
                 LargestAcked, largestReceivedPacketWithAck, packetHistory, controlOnly,
                 retransmissionQueue, bytesInFlight, rttKnown, tlpCount, lossTime, alarm,
                 stopWaitingManager, closing, open, acked, requeued>>

SentPacket(p, content) ==
  /\ open /\ ~failed
  /\ p > lastSentPacketNumber
  /\ Len(retransmissionQueue) + Cardinality(packetHistory) + 1 <= MaxTrackedSentPackets
  /\ skippedPackets' = Newest(skippedPackets \cup (lastSentPacketNumber + 1)..(p - 1))
  /\ lastSentPacketNumber' = p
  /\ IF content = "none"
     THEN UNCHANGED <<packetHistory, bytesInFlight>>
     ELSE /\ packetHistory' = packetHistory \cup {p}
          /\ bytesInFlight' = bytesInFlight + 1
  /\ controlOnly' = IF content = "control" THEN controlOnly \cup {p} ELSE controlOnly
  /\ UNCHANGED <<LargestAcked, largestReceivedPacketWithAck, retransmissionQueue, rttKnown,
                 tlpCount, lossTime, stopWaitingManager, closing, open, failed, acked, requeued>>
  /\ UpdateLossDetectionAlarm

\* DuplicatePacket: on a path without an RTT sample the scheduler queues the
\* packet it has just sent for another path as well.
DuplicatePacket ==
  /\ open /\ ~failed /\ ~rttKnown
  /\ lastSentPacketNumber > 0
  /\ Len(retransmissionQueue) < MaxDuplicates
  /\ retransmissionQueue' = Append(retransmissionQueue, lastSentPacketNumber)
  /\ UNCHANGED <<lastSentPacketNumber, skippedPackets,
                 LargestAcked, largestReceivedPacketWithAck, packetHistory, controlOnly,
                 bytesInFlight, rttKnown, tlpCount, lossTime, alarm, stopWaitingManager,
                 closing, open, failed, acked, requeued>>

\* The scheduler takes retransmissions from closed paths too.
DequeuePacketForRetransmission ==
  /\ ~failed
  /\ retransmissionQueue # <<>>
  /\ retransmissionQueue' = Tail(retransmissionQueue)
  /\ UNCHANGED <<lastSentPacketNumber, skippedPackets,
                 LargestAcked, largestReceivedPacketWithAck, packetHistory, controlOnly,
                 bytesInFlight, rttKnown, tlpCount, lossTime, alarm, stopWaitingManager,
                 closing, open, failed, acked, requeued>>

\* GetStopWaitingFrame: the frame itself is the new lastStopWaitingFrame.
GetStopWaitingFrame ==
  /\ open /\ ~failed
  /\ stopWaitingManager.nextLeastUnacked > stopWaitingManager.largestLeastUnackedSent
  /\ LET next == stopWaitingManager.nextLeastUnacked IN
       stopWaitingManager' = [nextLeastUnacked |-> next, largestLeastUnackedSent |-> next,
                              lastStopWaitingFrame |-> next]
  /\ UNCHANGED <<lastSentPacketNumber, skippedPackets,
                 LargestAcked, largestReceivedPacketWithAck, packetHistory, controlOnly,
                 retransmissionQueue, bytesInFlight, rttKnown, tlpCount, lossTime, alarm,
                 closing, open, failed, acked, requeued>>

-----------------------------------------------------------------------------
(***************************************************************************)
(* ReceivedAck, for a frame that acknowledges the numbers of ranges, the   *)
(* largest of which is largest, and came in packet with.  The returned     *)
(* errors other than ErrDuplicateOrOutOfOrderAck close the session.        *)
(***************************************************************************)
AckForUnsentPacket(largest) ==
  /\ largest > lastSentPacketNumber
  /\ failed' = TRUE
  /\ UNCHANGED <<lastSentPacketNumber, skippedPackets,
                 LargestAcked, largestReceivedPacketWithAck, packetHistory, controlOnly,
                 retransmissionQueue, bytesInFlight, rttKnown, tlpCount, lossTime, alarm,
                 stopWaitingManager, closing, open, acked, requeued>>

\* Fault: no check against the packet number of the last ACK.
InOrderNoCheck(largest, with) ==
  /\ largest <= lastSentPacketNumber
  /\ largestReceivedPacketWithAck' = with

InOrder(largest, with) ==
  /\ largest <= lastSentPacketNumber
  /\ with > largestReceivedPacketWithAck
  /\ largestReceivedPacketWithAck' = with

RepeatedAck(largest, with) ==
  /\ InOrder(largest, with)
  /\ ~AboveInOrderAcked(largest, packetHistory, LargestAcked)
  /\ UNCHANGED <<lastSentPacketNumber, skippedPackets,
                 LargestAcked, packetHistory, controlOnly, retransmissionQueue,
                 bytesInFlight, rttKnown, tlpCount, lossTime, alarm, stopWaitingManager,
                 closing, open, failed, acked, requeued>>

AckForSkippedPacket(largest, ranges, with) ==
  /\ InOrder(largest, with)
  /\ AboveInOrderAcked(largest, packetHistory, LargestAcked)
  /\ skippedPackets \cap ranges # {}
  /\ LargestAcked' = largest
  /\ failed' = TRUE
  /\ UNCHANGED <<lastSentPacketNumber, skippedPackets,
                 packetHistory, controlOnly, retransmissionQueue, bytesInFlight, rttKnown,
                 tlpCount, lossTime, alarm, stopWaitingManager, closing, open, acked, requeued>>

\* maybeUpdateRTT takes a sample only from an outstanding largest packet;
\* tlpCount is reset by every packet newly acked.
UpdateRTT(largest, newly) ==
  /\ IF largest \in packetHistory THEN rttKnown' \in {rttKnown, TRUE} ELSE rttKnown' = rttKnown
  /\ tlpCount' = IF newly = {} THEN tlpCount ELSE 0

GarbageCollectSkippedPackets(largest) ==
  skippedPackets' = {p \in skippedPackets : AboveInOrderAcked(p, packetHistory', largest)}

ProcessedAck(largest, ranges, with) ==
  /\ InOrder(largest, with)
  /\ AboveInOrderAcked(largest, packetHistory, LargestAcked)
  /\ skippedPackets \cap ranges = {}
  /\ LargestAcked' = largest
  /\ LET newly == packetHistory \cap ranges IN
     \E lost \in Overdue(packetHistory \ newly, largest) : \E order \in ListOrders(lost) :
       /\ UpdateRTT(largest, newly)
       /\ RemovePackets(newly, lost, order)
       /\ stopWaitingManager' =
            StopWaitingReceivedAck(StopWaitingRequeued(stopWaitingManager, order), largest)
  /\ lossTime' = (\E p \in packetHistory' : p <= largest)
  /\ UpdateLossDetectionAlarm
  /\ GarbageCollectSkippedPackets(largest)
  /\ UNCHANGED <<lastSentPacketNumber, controlOnly, closing, open, failed>>

\* A frame that does not come after the last one processed changes nothing.
ReceivedAck(largest, ranges, with) ==
  /\ open /\ ~failed
  /\ \/ AckForUnsentPacket(largest)
     \/ RepeatedAck(largest, with)
     \/ AckForSkippedPacket(largest, ranges, with)
     \/ ProcessedAck(largest, ranges, with)

-----------------------------------------------------------------------------
(***************************************************************************)
(* The path goes away: session.closePath and session.handleClosePathFrame. *)
(* Both tell path.run to stop and go on at once; until it has stopped, the *)
(* path still takes packets, sends them and lets its alarm fire.  The      *)
(* frame comes on another path and may come again.                         *)
(***************************************************************************)

\* SetInflightAsLost, as closePath calls it before it sends a CLOSE_PATH frame.
SetInflightAsLost ==
  /\ open /\ ~closing /\ ~failed
  /\ closing' = TRUE
  /\ LET lost == {p \in packetHistory : p <= LargestAcked} IN
     \E order \in ListOrders(lost) :
       /\ RemovePackets({}, lost, order)
       /\ stopWaitingManager' = StopWaitingRequeued(stopWaitingManager, order)
  /\ UNCHANGED <<lastSentPacketNumber, skippedPackets,
                 LargestAcked, largestReceivedPacketWithAck, controlOnly, rttKnown,
                 tlpCount, lossTime, alarm, open, failed>>

\* The three errors of ReceivedClosePath; handleFrames drops what
\* handleClosePathFrame returns, so they do not close the session.
RefusedClosePath(largest, ranges, with) ==
  /\ \/ largest > lastSentPacketNumber /\ UNCHANGED largestReceivedPacketWithAck
     \/ /\ largest <= lastSentPacketNumber
        /\ with <= largestReceivedPacketWithAck
        /\ UNCHANGED largestReceivedPacketWithAck
     \/ InOrder(largest, with) /\ skippedPackets \cap ranges # {}
  /\ UNCHANGED <<skippedPackets, packetHistory, retransmissionQueue, bytesInFlight,
                 tlpCount, stopWaitingManager, acked, requeued>>

ProcessedClosePath(largest, ranges, with) ==
  /\ InOrder(largest, with)
  /\ skippedPackets \cap ranges = {}
  /\ LET newly == packetHistory \cap ranges
         lost  == {p \in packetHistory \ newly : p <= LargestAcked}
     IN \E order \in ListOrders(lost) :
          /\ RemovePackets(newly, lost, order)
          /\ stopWaitingManager' = StopWaitingRequeued(stopWaitingManager, order)
          /\ tlpCount' = IF newly = {} THEN tlpCount ELSE 0
  /\ GarbageCollectSkippedPackets(LargestAcked)

ReceivedClosePath(largest, ranges, with) ==
  /\ ~failed
  /\ closing' = TRUE
  /\ \/ RefusedClosePath(largest, ranges, with)
     \/ ProcessedClosePath(largest, ranges, with)
  /\ UNCHANGED <<lastSentPacketNumber, LargestAcked,
                 controlOnly, rttKnown, lossTime, alarm, open, failed>>

\* path.run has left its loop and calls path.close.
PathClosed ==
  /\ closing /\ open
  /\ open' = FALSE
  /\ UNCHANGED <<lastSentPacketNumber, skippedPackets,
                 LargestAcked, largestReceivedPacketWithAck, packetHistory, controlOnly,
                 retransmissionQueue, bytesInFlight, rttKnown, tlpCount, lossTime, alarm,
                 stopWaitingManager, closing, failed, acked, requeued>>

-----------------------------------------------------------------------------
(***************************************************************************)
(* OnAlarm, called by the run loop once the armed time has passed.         *)
(***************************************************************************)
\* Fault: only the front of the history is looked at.
CancelAlarmFrontOnly ==
  /\ \A p \in packetHistory : (\A q \in packetHistory : p <= q) => ~IsRetransmittable(p)
  /\ alarm' = "none"
  /\ UNCHANGED <<packetHistory, retransmissionQueue, bytesInFlight, tlpCount, lossTime,
                 stopWaitingManager, acked, requeued>>

CancelAlarm ==
  /\ ~ \E p \in packetHistory : IsRetransmittable(p)
  /\ alarm' = "none"
  /\ UNCHANGED <<packetHistory, retransmissionQueue, bytesInFlight, tlpCount, lossTime,
                 stopWaitingManager, acked, requeued>>

AlarmLoses(lost) ==
  \E order \in ListOrders(lost) :
    /\ RemovePackets({}, lost, order)
    /\ stopWaitingManager' = StopWaitingRequeued(stopWaitingManager, order)

\* Fault: detectLostPackets does not reset lossTime first.
EarlyRetransmitKeepLossTime ==
  /\ \E p \in packetHistory : IsRetransmittable(p)
  /\ lossTime
  /\ \E lost \in Overdue(packetHistory, LargestAcked) :
       /\ lost = {} => \A p \in packetHistory : p > LargestAcked
       /\ AlarmLoses(lost)
  /\ UNCHANGED <<lossTime, tlpCount>>

\* The time is past lossTime, so at least the packet it was set for is overdue.
EarlyRetransmit ==
  /\ \E p \in packetHistory : IsRetransmittable(p)
  /\ lossTime
  /\ \E lost \in Overdue(packetHistory, LargestAcked) :
       /\ lost = {} => \A p \in packetHistory : p > LargestAcked
       /\ AlarmLoses(lost)
  /\ lossTime' = (\E p \in packetHistory' : p <= LargestAcked)
  /\ UNCHANGED tlpCount

\* Fault: the number of probes is not limited.
TailLossProbeUnlimited ==
  /\ \E p \in packetHistory : IsRetransmittable(p)
  /\ ~lossTime
  /\ tlpCount' = tlpCount + 1
  /\ lossTime' = lossTime
  /\ \E last \in packetHistory :
       /\ \A p \in packetHistory : p <= last
       /\ AlarmLoses({last})

\* Fault: the probe is a copy, the packet itself stays outstanding.
TailLossProbeCopy ==
  /\ \E p \in packetHistory : IsRetransmittable(p)
  /\ ~lossTime /\ tlpCount < MaxTailLossProbes
  /\ tlpCount' = tlpCount + 1
  /\ lossTime' = lossTime
  /\ \E last \in packetHistory :
       /\ \A p \in packetHistory : p <= last
       /\ retransmissionQueue' = Append(retransmissionQueue, last)
       /\ requeued' = requeued \cup {last}
       /\ stopWaitingManager' = StopWaitingRequeued(stopWaitingManager, <<last>>)
  /\ UNCHANGED <<packetHistory, bytesInFlight, acked>>

TailLossProbe ==
  /\ \E p \in packetHistory : IsRetransmittable(p)
  /\ ~lossTime /\ tlpCount < MaxTailLossProbes
  /\ tlpCount' = tlpCount + 1
  /\ lossTime' = lossTime
  /\ \E last \in packetHistory :
       /\ \A p \in packetHistory : p <= last
       /\ AlarmLoses({last})

\* onRTOCallback tells whether the path was silent since the last packet was
\* sent: if so everything is taken back, otherwise the oldest two packets.
RetransmissionTimeout ==
  /\ \E p \in packetHistory : IsRetransmittable(p)
  /\ ~lossTime /\ tlpCount >= MaxTailLossProbes
  /\ UNCHANGED <<tlpCount, lossTime>>
  /\ \/ AlarmLoses(packetHistory)
     \/ AlarmLoses({p \in packetHistory : Cardinality({q \in packetHistory : q < p}) < 2})

OnAlarm ==
  /\ open /\ ~failed
  /\ alarm # "none"
  /\ UNCHANGED <<lastSentPacketNumber, skippedPackets,
                 LargestAcked, largestReceivedPacketWithAck, controlOnly, rttKnown,
                 closing, open, failed>>
  /\ \/ CancelAlarm
     \/ EarlyRetransmit /\ UpdateLossDetectionAlarm
     \/ TailLossProbe /\ UpdateLossDetectionAlarm
     \/ RetransmissionTimeout /\ UpdateLossDetectionAlarm

-----------------------------------------------------------------------------
\* The numbers an ACK or CLOSE_PATH frame acknowledges, and the largest of them.
AckedRanges(largest) == {ranges \in SUBSET (1..largest) : largest \in ranges}

Next ==
  \/ SentPacketTooMany
  \/ \E p \in PacketNumbers, content \in Contents :
       p <= lastSentPacketNumber + 1 + MaxSkip /\ SentPacket(p, content)
  \/ DuplicatePacket
  \/ DequeuePacketForRetransmission
  \/ GetStopWaitingFrame
  \/ \E largest \in PacketNumbers, with \in 1..MaxAckPackets : \E ranges \in AckedRanges(largest) :
       \/ ReceivedAck(largest, ranges, with)
       \/ ReceivedClosePath(largest, ranges, with)
  \/ SetInflightAsLost
  \/ PathClosed
  \/ OnAlarm

Spec == Init /\ [][Next]_vars

\* path.run sleeps until the alarm and hands the path to the session's run loop,
\* which calls OnAlarm: an alarm that stays armed on an open path fires.
FairSpec == Spec /\ WF_vars(OnAlarm)

-----------------------------------------------------------------------------
TypeOK ==
  /\ lastSentPacketNumber \in 0..MaxPacketNumber
  /\ skippedPackets \in SUBSET PacketNumbers
  /\ LargestAcked \in 0..MaxPacketNumber
  /\ largestReceivedPacketWithAck \in 0..MaxAckPackets
  /\ packetHistory \in SUBSET PacketNumbers
  /\ controlOnly \in SUBSET PacketNumbers
  /\ retransmissionQueue \in Seq(PacketNumbers)
  /\ bytesInFlight \in Nat
  /\ rttKnown \in BOOLEAN
  /\ tlpCount \in 0..MaxTailLossProbes
  /\ lossTime \in BOOLEAN
  /\ alarm \in Alarms
  /\ stopWaitingManager \in [nextLeastUnacked : 0..(MaxPacketNumber + 1),
                             largestLeastUnackedSent : 0..(MaxPacketNumber + 1),
                             lastStopWaitingFrame : 0..(MaxPacketNumber + 1)]
  /\ closing \in BOOLEAN
  /\ open \in BOOLEAN
  /\ failed \in BOOLEAN
  /\ acked \in SUBSET PacketNumbers
  /\ requeued \in SUBSET PacketNumbers

\* While a packet that has to be retransmitted is outstanding, an alarm is armed:
\* no sequence of ACKs, losses, probes and new packets leaves it without a timer.
AlarmArmed ==
  (\E p \in packetHistory : IsRetransmittable(p)) => alarm # "none"

\* bytesInFlight is exactly what packetHistory holds: no packet is subtracted
\* twice (the counter is unsigned) and none stays counted after it left.
InFlightAccounting == bytesInFlight = Cardinality(packetHistory)

\* Until the path is closed lossTime is set exactly while a packet overtaken by the largest
\* acknowledged one is outstanding: an overtaken packet waits for the early
\* retransmit alarm, and that alarm is never left behind by packets that are gone.
LossTimeExact ==
  ~closing /\ ~failed => (lossTime <=> \E p \in packetHistory : p <= LargestAcked)

\* STOP_WAITING asks the peer to forget numbers below nextLeastUnacked.  It covers
\* every packet taken back for retransmission, so the peer does not keep reporting
\* it missing, and never a number still to be used for a new packet.
StopWaitingCoversRequeued ==
  /\ \A p \in requeued : p < stopWaitingManager.nextLeastUnacked
  /\ stopWaitingManager.nextLeastUnacked <= lastSentPacketNumber + 1
  /\ stopWaitingManager.largestLeastUnackedSent <= stopWaitingManager.nextLeastUnacked

\* A retransmittable packet leaves packetHistory once: acknowledged packets are not
\* retransmitted by the loss detection, lost ones are not acknowledged later.
OneFate ==
  /\ packetHistory \cap (acked \cup requeued) = {}
  /\ acked \cap requeued = {}
  /\ \A p \in packetHistory \cup acked \cup requeued : p <= lastSentPacketNumber

\* Every packet with frames to retransmit is eventually acknowledged or queued for
\* retransmission while its path stays open, whatever ACKs never arrive.
OutstandingResolved ==
  \A p \in PacketNumbers :
    (p \in packetHistory /\ IsRetransmittable(p)) ~> (p \notin packetHistory \/ ~open \/ failed)

\* session.go:728 on ReceivedClosePath: "This allows the host to retransmit packets
\* sent on this path that were not acked by the ClosePath frame".
ClosePathRequeuesUnacked ==
  [][\A largest \in PacketNumbers, with \in 1..MaxAckPackets :
       \A ranges \in AckedRanges(largest) :
         ~closing /\ closing' /\ ProcessedClosePath(largest, ranges, with)
           => ~ \E p \in packetHistory' : IsRetransmittable(p)]_vars

=============================================================================
