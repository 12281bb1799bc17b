SPECIFICATION Spec
CONSTANTS
  MaxPacketNumber = 3
  MaxAckPackets = 2
  MaxDuplicates = 0
  MaxTrackedSentPackets = 4
  MaxTailLossProbes = 1
  MaxTrackedReceivedAckRanges = 2
  RetransmittablePacketsBeforeAck = 2
INVARIANTS
  AckedWereReceived
  HonestAcksAccepted
  StopWaitingWritable
PROPERTIES
  LargestAckedMonotone
CHECK_DEADLOCK FALSE
