SPECIFICATION FairSpec
CONSTANTS
  Capacity = 6
  PrefixLen = 2
  MaxHeaderSize = 12
  Heads <- MCReplies
INVARIANTS
  OffsetIsBuffered
CHECK_DEADLOCK FALSE
