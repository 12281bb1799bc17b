SPECIFICATION Spec
CONSTANTS
  StreamLength = 8
  MaxStreamFrameSorterGaps = 3
INVARIANTS
  DeliveredInOrder
  GapsExact
  HeadAvailable
  FinKept
CHECK_DEADLOCK FALSE
