\* Five threads read and write for ever.
SPECIFICATION FairSpec
CONSTANT Threads = {t1, t2, t3, t4, t5}
INVARIANTS CountersAgree NoLostWakeup
PROPERTIES ImplementsSharedLock WritersProgress
