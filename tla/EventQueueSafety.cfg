\* Three waiting threads, all of which may be stopped, and three items.
SPECIFICATION Spec
CONSTANTS
  Threads = {t1, t2, t3}
  Stoppable = {t1, t2, t3}
  Items = {i1, i2, i3}
  MaxPriority = 2
SYMMETRY Symmetric
INVARIANTS SizeAgrees NoMissedWakeup SomeoneServes PassesToHigher
CHECK_DEADLOCK FALSE
