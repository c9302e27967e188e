SPECIFICATION Spec
CONSTANTS
  MaxRuns = 2
  MaxConns = 2
  MaxFrames = 1
  MaxRedirects = 1
  Capacity = 2
  Requests <- MCRequests
  Answers <- MCAnswers
INVARIANTS
  OpenMeansAgreed
  NoFrameLost
  NeverRejected
PROPERTIES
  HandshakesEnd
CHECK_DEADLOCK FALSE
