SPECIFICATION Spec
CONSTANTS
  MaxClientHellos = 3
  SupportedVersions = {1, 2}
  ClientVersions = {1, 2}
  VersionLists = {{1, 2}, {1}, {1, 3}, {3}}
  Caches = {"none", "current", "stale"}
INVARIANTS
  EndsAgree
  NoHelloStranded
  HonestHandshakeAccepted
PROPERTIES
  DialReturns
CHECK_DEADLOCK FALSE
