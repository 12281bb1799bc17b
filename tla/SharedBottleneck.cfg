SPECIFICATION Spec
CONSTANTS
  GROUP_HISTORY_SIZE = 2
  MaxPaths = 2
  SBD_M = 1
  SBD_MAX_OBSERVATIONS = 2
  SbdChanCap = 1
  GroupChanCap = 1
  SkewValues = {5, 20}
  LossValues = {0, 20}
  FreqValues = {0, 9, 18}
  VarValues = {91, 100}
  MaxEpoch = 2
  GroupedPaths = 3
INVARIANTS
  TypeOK
  
  
  EpsilonsCancel
CHECK_DEADLOCK FALSE
