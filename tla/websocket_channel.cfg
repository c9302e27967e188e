SPECIFICATION ReadingSpec
CONSTANTS
  ControlMax = 4
  Frames <- MCFewFrames
  MaxSends <- MCFewSends
  MaxMessageLength <- MCLimits
  Capacity = 2
  Split = {"client"}
  MayInterrupt = {"client", "server"}
  MayDrop = {"server"}
INVARIANTS
  OneCloser
PROPERTIES
  ImplementsChannel
  CloseReturns
  HangUpEndsRead
  EveryMessageArrives
CHECK_DEADLOCK FALSE
