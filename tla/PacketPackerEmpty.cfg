SPECIFICATION Spec
CONSTANTS
  Paths = {p0, p1}
  InitialPathID = p0
  NoPath = NoPath
  MaxNonRetransmittablePackets = 1
  MaxAckFrames = 2
  MaxLeastUnacked = 2
  MaxControlFrames = 1
  MaxPings = 2
INVARIANTS
  NoEmptyPacketSent
CHECK_DEADLOCK FALSE
