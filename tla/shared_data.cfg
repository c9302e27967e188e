SPECIFICATION Spec
CONSTANTS
  Tasks <- MCTasks
  Threads <- MCThreads
  ThreadOf <- MCThreadOf
  NoTask = "none"
  MaxFrees = 2
INVARIANTS
  CreatedOnce
PROPERTIES
  CallsEnd
CHECK_DEADLOCK FALSE
