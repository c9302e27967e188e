SPECIFICATION Spec
CONSTANTS
  HelloUnits = 2
  Limit = 2
  ReadSize = 2
  Peers <- MCPeers
  Sizes = {0, 3}
  MaxProduced = 6
  BufCapacity = 4
  BufSize = 2
INVARIANTS
  WireInOrder
  ReadInOrder
PROPERTIES
  SentMeansSent
  CallsReturn
CHECK_DEADLOCK FALSE
