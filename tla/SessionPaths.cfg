SPECIFICATION SessionSpec
CONSTANTS
  Paths = {p0, p1}
  InitialPathID = p0
  NoPath = NoPath
  MaxBurst = 1
INVARIANTS
  TypeOK
  ClosePathUnblocks
PROPERTIES
  RunLoopKeepsTurning
  ShutdownCompletes
CHECK_DEADLOCK FALSE
