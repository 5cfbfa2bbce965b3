\* Posts to the tail, every disruption: the queue is a serial queue.
SPECIFICATION FairSpec
CONSTANTS
  Tasks = {k1, k2, k3, k4}
  Syncs = {k1}
  Workers = {w1, w2}
  NoTask = NoTask
  Directions = {0}
  Kept = {FALSE, TRUE}
  KeepCounts = {1}
  Disruptions = {"cancel", "break", "destroy", "eq_cancel", "eq_drop"}
INVARIANTS Serial HookPopsOwnTask TraceInOrder SyncSeesEnd
PROPERTIES NeverStalls NothingLost ImplementsSerial EveryTaskRuns SyncReturns
CHECK_DEADLOCK FALSE
