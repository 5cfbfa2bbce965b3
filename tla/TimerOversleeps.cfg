\* A job that is queued between the look at the queue and the sleep.
SPECIFICATION Spec
CONSTANTS
  s1 = s1
  s2 = s2
  o1 = o1
  t1 = t1
  Starts = {s1, s2}
  Onces = {o1}
  Timers = {t1}
  TimerOf <- OneTimer
  Period <- Times
  NoCall = NoCall
  Early = 0
  Slice = 2
  Shortens = FALSE
  MaxLate = 2
  MaxLag = 1
INVARIANT NeverOversleeps
CHECK_DEADLOCK FALSE
