------------------------------ MODULE SharedLock ------------------------------
(***************************************************************************)
(* What rwlock promises, without counters, condition variables or          *)
(* notifications: many readers or one writer, and no new reader while a    *)
(* writer waits.  Writers are served in no particular order.               *)
(***************************************************************************)
CONSTANT Threads

VARIABLES
  readers,  \* those that share the lock
  writers,  \* who has it alone
  waiting   \* the writers that wait

vars == <<readers, writers, waiting>>

Init ==
  /\ readers = {}
  /\ writers = {}
  /\ waiting = {}

Apart(t) == t \notin readers \cup writers \cup waiting

AskWrite(t) ==
  /\ Apart(t)
  /\ readers \cup writers # {}
  /\ waiting' = waiting \cup {t}
  /\ UNCHANGED <<readers, writers>>

GetWrite(t) ==
  /\ Apart(t) \/ t \in waiting
  /\ readers \cup writers = {}
  /\ writers' = {t}
  /\ waiting' = waiting \ {t}
  /\ UNCHANGED readers

GetRead(t) ==
  /\ Apart(t)
  /\ writers \cup waiting = {}
  /\ readers' = readers \cup {t}
  /\ UNCHANGED <<writers, waiting>>

Release(t) ==
  /\ t \in readers \cup writers
  /\ readers' = readers \ {t}
  /\ writers' = writers \ {t}
  /\ UNCHANGED waiting

Next == \E t \in Threads : AskWrite(t) \/ GetWrite(t) \/ GetRead(t) \/ Release(t)

Spec == Init /\ [][Next]_vars

===============================================================================
