----------------------------- MODULE AckExchange -----------------------------
(***************************************************************************)
(* One direction of one path, end to end: the sentPacketHandler of the     *)
(* sending host, the receivedPacketHandler of the receiving host, and the  *)
(* UDP network between them, which loses, repeats and reorders packets in  *)
(* both directions.  The acknowledgements are packets of their own on the  *)
(* way back, with their own packet numbers.                                *)
(*                                                                         *)
(* The packet number generator of the program hands out consecutive        *)
(* numbers, and the path stays open: closing it is in SentPacketHandler.   *)
(***************************************************************************)
EXTENDS Integers, Sequences, FiniteSets

CONSTANTS
  MaxPacketNumber,                  \* bound: packets of the sending host
  MaxAckPackets,                    \* bound: packets of the receiving host
  MaxDuplicates,                    \* bound of SentPacketHandler
  MaxTrackedSentPackets,
  MaxTailLossProbes,
  MaxTrackedReceivedAckRanges,
  RetransmittablePacketsBeforeAck

ASSUME ExchangeAssumption ==
  /\ MaxPacketNumber \in Nat
  /\ MaxAckPackets \in Nat
  /\ MaxDuplicates \in Nat
  /\ MaxTrackedSentPackets \in Nat
  /\ MaxTailLossProbes \in Nat
  /\ MaxTrackedReceivedAckRanges \in Nat \ {0}
  /\ RetransmittablePacketsBeforeAck \in Nat \ {0}

VARIABLES
  \* the sending host's handler
  lastSentPacketNumber, skippedPackets, LargestAcked, largestReceivedPacketWithAck,
  packetHistory, controlOnly, retransmissionQueue, bytesInFlight, rttKnown, tlpCount,
  lossTime, alarm, stopWaitingManager, closing, open, failed, acked, requeued,
  \* the receiving host's handler
  largestObserved, lowerLimit, ranges, retransmittablePacketsReceivedSinceLastAck,
  ackQueued, ackAlarm, lastAck, closed,
  \* the packer's slot for the path's next STOP_WAITING frame, 0 if empty
  stopWaiting,
  \* every packet sent so far, by direction; the network delivers any of them any time
  packets, acks,
  \* history: the numbers of the packets the receiving host has handled
  received

senderVars ==
  <<lastSentPacketNumber, skippedPackets, LargestAcked, largestReceivedPacketWithAck,
    packetHistory, controlOnly, retransmissionQueue, bytesInFlight, rttKnown, tlpCount,
    lossTime, alarm, stopWaitingManager, closing, open, failed, acked, requeued>>

receiverVars ==
  <<largestObserved, lowerLimit, ranges, retransmittablePacketsReceivedSinceLastAck,
    ackQueued, ackAlarm, lastAck, closed>>

vars == <<senderVars, receiverVars, stopWaiting, packets, acks, received>>

Sender == INSTANCE SentPacketHandler WITH MaxSkip <- 0, MaxTrackedSkippedPackets <- 1
Receiver == INSTANCE ReceivedPacketHandler

Init ==
  /\ Sender!Init
  /\ Receiver!Init
  /\ stopWaiting = 0
  /\ packets = {}
  /\ acks = {}
  /\ received = {}

-----------------------------------------------------------------------------
(* The sending host. *)

\* sendPacket fetches the frame and QueueControlFrame keeps it until a packet is packed.
QueueStopWaiting ==
  /\ Sender!GetStopWaitingFrame
  /\ stopWaiting' = stopWaitingManager'.lastStopWaitingFrame
  /\ UNCHANGED <<receiverVars, packets, acks, received>>

\* GetStopWaitingFrame(true), with a stream retransmission waiting, repeats the last frame.
RepeatStopWaiting ==
  /\ retransmissionQueue # <<>>
  /\ stopWaitingManager.nextLeastUnacked <= stopWaitingManager.largestLeastUnackedSent
  /\ stopWaiting' = stopWaitingManager.lastStopWaitingFrame
  /\ UNCHANGED <<senderVars, receiverVars, packets, acks, received>>

Send(content) ==
  /\ lastSentPacketNumber < MaxPacketNumber
  /\ Sender!SentPacket(lastSentPacketNumber + 1, content)
  /\ packets' = packets \cup {[number |-> lastSentPacketNumber + 1,
                               retransmittable |-> content = "data",
                               leastUnacked |-> stopWaiting]}
  /\ stopWaiting' = 0
  /\ UNCHANGED <<receiverVars, acks, received>>

Retransmit ==
  /\ Sender!DequeuePacketForRetransmission
  /\ UNCHANGED <<receiverVars, stopWaiting, packets, acks, received>>

Timeout ==
  /\ Sender!OnAlarm
  /\ UNCHANGED <<receiverVars, stopWaiting, packets, acks, received>>

ReceiveAck(a) ==
  /\ Sender!ReceivedAck(a.largest, a.numbers, a.number)
  /\ UNCHANGED <<receiverVars, stopWaiting, packets, acks, received>>

-----------------------------------------------------------------------------
(* The receiving host. *)

ReceivePacket(m) ==
  /\ \/ Receiver!HandlePacket(m.number, m.retransmittable, m.leastUnacked)
     \/ Receiver!TooManyRanges(m.number)
  /\ received' = received \cup {m.number}
  /\ UNCHANGED <<senderVars, stopWaiting, packets, acks>>

SendAck ==
  /\ Cardinality(acks) < MaxAckPackets
  /\ Receiver!GetAckFrame
  /\ acks' = acks \cup {[number |-> Cardinality(acks) + 1, largest |-> largestObserved,
                         numbers |-> Receiver!AckFrameNumbers]}
  /\ UNCHANGED <<senderVars, stopWaiting, packets, received>>

Next ==
  \/ QueueStopWaiting
  \/ RepeatStopWaiting
  \/ \E content \in {"none", "data"} : Send(content)
  \/ Retransmit
  \/ Timeout
  \/ \E a \in acks : ReceiveAck(a)
  \/ \E m \in packets : ReceivePacket(m)
  \/ SendAck

Spec == Init /\ [][Next]_vars

-----------------------------------------------------------------------------
\* The sender lets go of a packet as acknowledged only if the receiver has handled it:
\* the data of every other packet is still outstanding or queued for retransmission.
AckedWereReceived == acked \subseteq received

\* An honest receiver's ACK frame passes the sender's checks, however old it is when it
\* arrives: it names no packet that was not sent, and LargestAcked is one of its numbers.
HonestAcksAccepted ==
  \A a \in acks : a.largest \in a.numbers /\ a.numbers \subseteq 1..lastSentPacketNumber

\* STOP_WAITING can be written into the packet that takes it along: LeastUnacked is not
\* above that packet's number, else the frame writer fails and the session closes.
StopWaitingWritable == stopWaiting <= lastSentPacketNumber + 1

\* Acknowledgements that overtake each other never take the sender's view back.
LargestAckedMonotone == [][LargestAcked' >= LargestAcked]_vars

=============================================================================
