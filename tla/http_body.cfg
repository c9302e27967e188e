SPECIFICATION FairSpec
CONSTANTS
  Capacity = 4
  MaxHex = 4
  MaxSize = 17
  MaxRead = 3
  Responses <- MCResponses
INVARIANTS
  DeliveredIsBody
  EndToldFromCut
PROPERTIES
  BodyLeftAtItsEnd
  FailureIsFinal
  ReadReturns
CHECK_DEADLOCK FALSE
