\* The timer thread against callers that start twice, stop and cancel.
SPECIFICATION FairSpec
CONSTANTS
  s1 = s1
  s2 = s2
  o1 = o1
  t1 = t1
  Starts = {s1, s2}
  Onces = {o1}
  Timers = {t1}
  TimerOf <- OneTimer
  Period <- Times
  NoCall = NoCall
  Early = 0
  Slice = 2
  Shortens = FALSE
  MaxLate = 2
  MaxLag = 1
INVARIANTS NapCovers AtMostOneLate
PROPERTIES PlannedOnGrid JobsLeave StopEnds ExitsAfterShutdown
CHECK_DEADLOCK FALSE
