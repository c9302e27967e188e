SPECIFICATION Spec
CONSTANTS
  ControlMax = 4
  Frames <- MCFrames
  MaxSends <- MCSends
  MaxMessageLength <- MCLimits
  Capacity = 2
  Split = {"client", "server"}
  MayInterrupt = {"client"}
  MayDrop = {"server"}
INVARIANTS
  FramesInSync
  NoProtocolError
  ShutdownOnlyWhenBothClosed
  CloseIsLastSent
  CloseIsLastGot
  OnlyCloseFrameCut
  MessageBounded
  Inv
CHECK_DEADLOCK FALSE
