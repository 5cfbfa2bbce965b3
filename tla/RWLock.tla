-------------------------------- MODULE RWLock --------------------------------
(***************************************************************************)
(* rwlock (src/src/task_rwlock.cc): the read-write lock libtq uses before  *)
(* C++17, a mutex with two condition variables and three counters.  A      *)
(* writer that waits keeps new readers out.                                *)
(*                                                                         *)
(* Every member function runs under mutex_ except while it sleeps on a     *)
(* condition variable, so an action is one critical section.  A thread     *)
(* that holds the lock does not ask for it again, and only a holder        *)
(* releases it: that is the contract of its users in task_threadsafe.h.    *)
(***************************************************************************)
EXTENDS Integers, FiniteSets

CONSTANT Threads

ASSUME ThreadsAssumption == IsFiniteSet(Threads)

VARIABLES
  read_cnt,    \* read_cnt_: the readers that hold the lock
  write_cnt,   \* write_cnt_: the writers that hold the lock or wait for it
  is_writing,  \* is_writing_
  state,       \* what each thread does with the lock
  notified     \* the sleeping threads notified since they went to sleep

vars == <<read_cnt, write_cnt, is_writing, state, notified>>

States == {"idle", "reading", "writing", "read_wait", "write_wait"}

In(s) == {t \in Threads : state[t] = s}

TypeOK ==
  /\ read_cnt \in Nat
  /\ write_cnt \in Nat
  /\ is_writing \in {0, 1}
  /\ state \in [Threads -> States]
  /\ notified \subseteq In("read_wait") \cup In("write_wait")

Init ==
  /\ read_cnt = 0
  /\ write_cnt = 0
  /\ is_writing = 0
  /\ state = [t \in Threads |-> "idle"]
  /\ notified = {}

-------------------------------------------------------------------------------
(* Mutant of WriteBlocked: the test of the readers missing.                *)
WriteBlockedByWriter == is_writing = 1

(* The conditions the two kinds of thread wait on.                         *)
WriteBlocked == read_cnt # 0 \/ is_writing = 1

ReadBlocked  == write_cnt # 0

(* The end of lock and of lock_shared: sleep, or take the lock.            *)
EnterWrite(t) ==
  /\ notified' = notified \ {t}
  /\ \/ /\ WriteBlocked
        /\ state' = [state EXCEPT ![t] = "write_wait"]
        /\ UNCHANGED is_writing
     \/ /\ ~WriteBlocked
        /\ state' = [state EXCEPT ![t] = "writing"]
        /\ is_writing' = 1

EnterRead(t) ==
  /\ notified' = notified \ {t}
  /\ \/ /\ ReadBlocked
        /\ state' = [state EXCEPT ![t] = "read_wait"]
        /\ UNCHANGED read_cnt
     \/ /\ ~ReadBlocked
        /\ state' = [state EXCEPT ![t] = "reading"]
        /\ read_cnt' = read_cnt + 1

Lock(t) ==
  /\ state[t] = "idle"
  /\ write_cnt' = write_cnt + 1
  /\ EnterWrite(t)
  /\ UNCHANGED read_cnt

LockShared(t) ==
  /\ state[t] = "idle"
  /\ EnterRead(t)
  /\ UNCHANGED <<write_cnt, is_writing>>

(* A sleeping thread evaluates its condition again: after a notification,  *)
(* or without one, since a wake-up may be spurious.                        *)
Resume(t) ==
  \/ /\ state[t] = "write_wait"
     /\ EnterWrite(t)
     /\ UNCHANGED <<read_cnt, write_cnt>>
  \/ /\ state[t] = "read_wait"
     /\ EnterRead(t)
     /\ UNCHANGED <<write_cnt, is_writing>>

Wake(t) == t \in notified /\ Resume(t)

Spurious(t) == t \notin notified /\ Resume(t)

(* Mutant of TryLock: the new holder is not counted.                       *)
TryLockUncounted(t) ==
  /\ state[t] = "idle"
  /\ ~WriteBlocked
  /\ is_writing' = 1
  /\ state' = [state EXCEPT ![t] = "writing"]
  /\ UNCHANGED <<read_cnt, write_cnt, notified>>

(* try_lock and try_lock_shared that do not return false.                  *)
TryLock(t) ==
  /\ state[t] = "idle"
  /\ ~WriteBlocked
  /\ write_cnt' = write_cnt + 1
  /\ is_writing' = 1
  /\ state' = [state EXCEPT ![t] = "writing"]
  /\ UNCHANGED <<read_cnt, notified>>

TryLockShared(t) ==
  /\ state[t] = "idle"
  /\ ~ReadBlocked
  /\ read_cnt' = read_cnt + 1
  /\ state' = [state EXCEPT ![t] = "reading"]
  /\ UNCHANGED <<write_cnt, is_writing, notified>>

-------------------------------------------------------------------------------
(* Mutant of NotifyWriter: nobody is notified.                             *)
NotifyNobody == UNCHANGED notified

(* write_cond_.notify_one: it wakes one of those still asleep, if any.     *)
NotifyWriter ==
  LET asleep == In("write_wait") \ notified
  IN  \/ asleep = {} /\ UNCHANGED notified
      \/ \E t \in asleep : notified' = notified \cup {t}

(* read_cond_.notify_all.                                                  *)
NotifyReaders == notified' = notified \cup In("read_wait")

(* Mutant of Unlock: one side is notified, the other forgotten.            *)
UnlockForReaders(t) ==
  /\ state[t] = "writing"
  /\ is_writing' = 0
  /\ write_cnt' = write_cnt - 1
  /\ state' = [state EXCEPT ![t] = "idle"]
  /\ NotifyReaders
  /\ UNCHANGED read_cnt

Unlock(t) ==
  /\ state[t] = "writing"
  /\ is_writing' = 0
  /\ write_cnt' = write_cnt - 1
  /\ state' = [state EXCEPT ![t] = "idle"]
  /\ IF write_cnt = 1 THEN NotifyReaders ELSE NotifyWriter
  /\ UNCHANGED read_cnt

UnlockShared(t) ==
  /\ state[t] = "reading"
  /\ read_cnt' = read_cnt - 1
  /\ state' = [state EXCEPT ![t] = "idle"]
  /\ IF read_cnt = 1 THEN NotifyWriter ELSE UNCHANGED notified
  /\ UNCHANGED <<write_cnt, is_writing>>

-------------------------------------------------------------------------------
Release(t) == Unlock(t) \/ UnlockShared(t)

Next ==
  \E t \in Threads :
    \/ Lock(t)
    \/ LockShared(t)
    \/ TryLock(t)
    \/ TryLockShared(t)
    \/ Wake(t)
    \/ Spurious(t)
    \/ Release(t)

Spec == Init /\ [][Next]_vars

(* Holders release, notified threads run; no spurious wake-up is needed.   *)
Fairness == \A t \in Threads : WF_vars(Wake(t)) /\ WF_vars(Release(t))

FairSpec == Spec /\ Fairness

-------------------------------------------------------------------------------
(* Properties.                                                             *)

(* A writer is alone: neither a reader nor another writer holds the lock   *)
(* with it, whichever mixture of blocking and trying calls they came by.   *)
Exclusion ==
  /\ \A t, u \in In("writing") : t = u
  /\ In("writing") # {} => In("reading") = {}

(* The counters are what the state of the threads says.  The early returns *)
(* of unlock and unlock_shared on a zero counter are never taken, and      *)
(* neither counter wraps below zero.                                       *)
CountersAgree ==
  /\ read_cnt = Cardinality(In("reading"))
  /\ write_cnt = Cardinality(In("writing") \cup In("write_wait"))
  /\ is_writing = 1 <=> In("writing") # {}

(* Whoever may go on has been told: when the lock is free and writers wait *)
(* one of them is notified, and when no writer is left every sleeping      *)
(* reader is.  unlock notifies only one side, and notify_one may wake a    *)
(* writer that then finds another has come before it.                      *)
NoLostWakeup ==
  /\ ~WriteBlocked /\ In("write_wait") # {} => In("write_wait") \cap notified # {}
  /\ ~ReadBlocked => In("read_wait") \subseteq notified

(* The lock is a lock as its users know it: what SharedLock lets a thread  *)
(* do with it, and no more.                                                *)
Shared == INSTANCE SharedLock WITH readers <- In("reading"), writers <- In("writing"),
                                   waiting <- In("write_wait")

ImplementsSharedLock == Shared!Spec

(* While a writer waits nobody begins to read.                             *)
ReadersHeldBack ==
  [][In("write_wait") # {} => \A t \in Threads :
       state'[t] = "reading" => state[t] = "reading"]_vars

(* Some waiting writer gets the lock, however many readers come and go.    *)
WritersProgress == In("write_wait") # {} ~> In("writing") # {}

===============================================================================
