SPECIFICATION Spec
CONSTANTS
  ControlMax = 4
  Frames <- MCCloseFrames
  MaxSends <- MCFewSends
  MaxMessageLength <- MCLimits
  Capacity = 2
  Split = {}
  MayInterrupt = {}
  MayDrop = {}
INVARIANTS
  CloseArrivesAsSent
CHECK_DEADLOCK FALSE
