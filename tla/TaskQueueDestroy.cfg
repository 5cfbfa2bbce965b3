\* The queue is destroyed with tasks pending.
SPECIFICATION Spec
CONSTANTS
  Tasks = {k1, k2}
  Syncs = {}
  Workers = {w1, w2}
  NoTask = NoTask
  Directions = {0}
  Kept = {FALSE}
  KeepCounts = {}
  Disruptions = {"destroy"}
PROPERTY DestroyWaits
CHECK_DEADLOCK FALSE
