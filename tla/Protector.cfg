\* An object is destroyed while jobs that are about it run.
SPECIFICATION FairSpec
CONSTANTS
  k1 = k1
  k2 = k2
  k3 = k3
  j1 = j1
  Owner = Owner
  NoJob = NoJob
  Jobs = {k1, k2, k3, j1}
  Kind <- KindMap
  Inner <- InnerMap
  Suicidal = {k2, k3}
INVARIANTS WholeInJobs
PROPERTIES DestroyReturns JobsReturn
CHECK_DEADLOCK FALSE
