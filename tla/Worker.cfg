\* Three starts, every interleaving of stop with the threads.
SPECIFICATION FairSpec
CONSTANTS
  MaxStarts = 3
  MaxPriority = 3
  Configured = 2
  MayDrop = TRUE
INVARIANTS PriorityFloor StartedIsValid
PROPERTIES ImplementsService StopReturns StartReturns
CHECK_DEADLOCK FALSE
