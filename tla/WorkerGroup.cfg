\* The group grows and shrinks while tasks of two queues wait for each other.
SPECIFICATION FairSpec
CONSTANTS
  w1 = w1
  w2 = w2
  w3 = w3
  g = g
  h = h
  m = m
  k1 = k1
  k2 = k2
  k3 = k3
  j1 = j1
  j2 = j2
  q1 = q1
  q2 = q2
  Workers = {w1, w2, w3}
  Managers = {g, h, m}
  Growers = {g, h}
  Adjusters = {m}
  Want <- WantOne
  Priorities = {"normal", "high"}
  Base = "normal"
  Grown <- GrowHigh
  Initial <- Two
  Tasks = {k1, k2, k3, j1, j2}
  Queues = {q1, q2}
  QueueOf <- QueueMap
  Inner <- InnerMap
  Shrinking = {k3}
  NoTask = NoTask
  Nobody = Nobody
INVARIANTS MembersServe AloneUnlessGrown
PROPERTIES PartsAsPromised DecreaseReturns SyncReturns AdjustReturns
CHECK_DEADLOCK FALSE
