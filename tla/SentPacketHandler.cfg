SPECIFICATION FairSpec
CONSTANTS
  MaxPacketNumber = 3
  MaxAckPackets = 2
  MaxSkip = 1
  MaxDuplicates = 1
  MaxTrackedSentPackets = 3
  MaxTrackedSkippedPackets = 1
  MaxTailLossProbes = 1
INVARIANTS
  TypeOK
  AlarmArmed
  InFlightAccounting
  LossTimeExact
  StopWaitingCoversRequeued
  OneFate
PROPERTIES
  OutstandingResolved
CHECK_DEADLOCK FALSE
