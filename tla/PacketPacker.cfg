SPECIFICATION Spec
CONSTANTS
  Paths = {p0, p1}
  InitialPathID = p0
  NoPath = NoPath
  MaxNonRetransmittablePackets = 1
  MaxAckFrames = 2
  MaxLeastUnacked = 2
  MaxControlFrames = 1
  MaxPings = 2
INVARIANTS
  ControlFramesConserved
  StopWaitingKept
  AckFrameFresh
PROPERTIES
  LoopSendsRetransmittable
CHECK_DEADLOCK FALSE
