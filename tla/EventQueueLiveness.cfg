\* One thread may be stopped, two wait again and again.
SPECIFICATION FairSpec
CONSTANTS
  Threads = {t1, t2, t3}
  Stoppable = {t3}
  Items = {i1, i2}
  MaxPriority = 2
PROPERTIES ImplementsPool ItemsLeave
CHECK_DEADLOCK FALSE
