SPECIFICATION Spec
CONSTANTS
  StreamLength = 3
  MaxStreamFrameSorterGaps = 2
INVARIANTS
  EofAtFinalOffset
CHECK_DEADLOCK FALSE
