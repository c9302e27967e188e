SPECIFICATION FairSpec
CONSTANTS
  Capacity = 6
  PrefixLen = 2
  MaxHeaderSize = 12
  Heads <- MCHeads
INVARIANTS
  HeadersAreLines
  EndsAtBlankLine
  SizeLimited
PROPERTIES
  ParseEnds
CHECK_DEADLOCK FALSE
