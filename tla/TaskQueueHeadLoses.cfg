\* A post to the head while a task runs.
SPECIFICATION Spec
CONSTANTS
  Tasks = {k1, k2, k3}
  Syncs = {}
  Workers = {w1, w2}
  NoTask = NoTask
  Directions = {0, 1}
  Kept = {FALSE}
  KeepCounts = {}
  Disruptions = {}
PROPERTY NothingLost
CHECK_DEADLOCK FALSE
