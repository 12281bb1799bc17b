SPECIFICATION Spec
CONSTANTS
  MaxPacketNumber = 8
  MaxTrackedReceivedAckRanges = 4
  RetransmittablePacketsBeforeAck = 2
  MaxGap = 2
  MaxBlocks = 3
INVARIANTS
  RangesWellFormed
  AckFrameSound
  RetransmittableIsDue
  AckFrameSurvivesTheWire
PROPERTIES
  ImplementsReceivedNumbers
CHECK_DEADLOCK FALSE
