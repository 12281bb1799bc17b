SPECIFICATION Spec
CONSTANTS
  ConnectionFlowControlMultiplier = 150
  NumStreams = 2
  Readers = {1}
  Writers = {2}
  MaxIncomingStreams = 2
  ReceiveStreamWindow = 2
  MaxReceiveStreamWindow = 2
  ReceiveConnectionWindow = 2
  MaxReceiveConnectionWindow = 2
  SendWindow = 1
  MaxSent = 3
  MaxWritten = 2
INVARIANTS
  TypeOK
  WindowsRespected
  CreditAccounted
  NoLostWakeup
CHECK_DEADLOCK FALSE
