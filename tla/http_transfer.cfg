SPECIFICATION FairSpec
CONSTANTS
  Requests <- MCRequests
  Answers <- MCAnswers
INVARIANTS
  SchemeKept
  PayloadSent
  ResponseIsLast
PROPERTIES
  TransferEnds
CHECK_DEADLOCK FALSE
