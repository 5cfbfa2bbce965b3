------------------------------- MODULE Protector ------------------------------
(***************************************************************************)
(* rawptr_protector, weak_protector, the wrappers and task_helper          *)
(* (src/src/task_threadsafe.h): jobs that are posted to queues and run     *)
(* only if the object they are about still exists, and the destruction of  *)
(* that object.  The lock between them is the rwlock of RWLock.            *)
(*                                                                         *)
(* A request of the lock is named after the job that makes it; the request *)
(* of the destruction is Owner's, whoever destroys the object.  The jobs   *)
(* may all run at a time, as those of different queues do.                 *)
(***************************************************************************)
EXTENDS Integers, FiniteSets

CONSTANTS
  Jobs,
  Owner,
  Kind,      \* the operator of task_helper a job is posted with
  Inner,     \* the job that a job runs with >> within itself, or NoJob
  Suicidal,  \* the jobs that may destroy the object
  NoJob

Requests == Jobs \cup {Owner}

Outer == {k \in Jobs : \A j \in Jobs : Inner[j] # k}

ASSUME JobsAssumption ==
  /\ IsFiniteSet(Jobs)
  /\ Owner \notin Jobs
  /\ NoJob \notin Requests
  /\ Kind \in [Jobs -> {"<<", "()", "<<=", ">>"}]
  /\ Inner \in [Jobs -> Jobs \cup {NoJob}]
  /\ \A k \in Jobs \ Outer : Inner[k] = NoJob /\ Kind[k] = ">>"
  /\ \A k, l \in Jobs : Inner[k] = Inner[l] /\ Inner[k] # NoJob => k = l
  /\ Suicidal \subseteq {k \in Outer : Inner[k] = NoJob}

VARIABLES
  read_cnt, write_cnt, is_writing, state, notified,  \* __raw_lock_
  flag,     \* *__raw_state_
  queues,   \* open;  invalid: destroyed, but a pointer is left;  gone
  phase,    \* how far each job is
  owner,    \* how far the destruction is
  by,       \* who destroys: Owner in a thread of its own, or a job
  bare,     \* the derived destructor does not call destroy_protection
  object    \* the object

lockVars == <<read_cnt, write_cnt, is_writing, state, notified>>

destruction == <<flag, owner, by, bare, object>>

vars == <<lockVars, queues, phase, destruction>>

RW == INSTANCE RWLock WITH Threads <- Requests

(* none;  posted;  asked: in wp.lock();  job;  sync: in its inner job;     *)
(* told: in lock_failed;  leave: before unlock_shared;  over;  dropped:    *)
(* the queue did not run it.                                               *)
Phases == {"none", "posted", "asked", "job", "sync", "told", "leave", "over", "dropped"}

TypeOK ==
  /\ RW!TypeOK
  /\ flag \in BOOLEAN
  /\ queues \in {"open", "invalid", "gone"}
  /\ phase \in [Jobs -> Phases]
  /\ owner \in {"alive", "ask", "wait", "release", "derived", "free", "freed"}
  /\ by \in Requests \cup {NoJob}
  /\ bare \in BOOLEAN
  /\ object \in {"whole", "dying", "freed"}

Init ==
  /\ RW!Init
  /\ flag = TRUE
  /\ queues = "open"
  /\ phase = [k \in Jobs |-> "none"]
  /\ owner = "alive"
  /\ by = NoJob
  /\ bare = FALSE
  /\ object = "whole"

Protected(k) == Kind[k] # "<<="

Goes(k, from, to) == phase[k] = from /\ phase' = [phase EXCEPT ![k] = to]

-------------------------------------------------------------------------------
(* The jobs.                                                               *)

(* task_helper: a queue that is gone is noticed at once, and () says so;   *)
(* one that is invalid takes nothing and says nothing.                     *)
Post(k) ==
  /\ k \in Outer
  /\ Goes(k, "none", CASE queues = "open"                     -> "posted"
                       [] queues = "gone" /\ Kind[k] = "()"   -> "told"
                       [] OTHER                               -> "dropped")
  /\ UNCHANGED <<lockVars, queues, destruction>>

(* destroy, and the end of the last pointer: what waits is dropped.        *)
CloseQueues ==
  /\ \/ queues = "open" /\ queues' = "invalid"
     \/ queues = "invalid" /\ queues' = "gone"
  /\ phase' = [k \in Jobs |-> IF phase[k] = "posted" THEN "dropped" ELSE phase[k]]
  /\ UNCHANGED <<lockVars, destruction>>

(* A worker runs a wrapped job: rawptr asks for the lock.                  *)
Ask(k) ==
  /\ Protected(k)
  /\ Goes(k, "posted", "asked")
  /\ RW!LockShared(k)
  /\ UNCHANGED <<queues, destruction>>

(* One that is posted with <<= is not wrapped.                             *)
RunPlain(k) ==
  /\ ~Protected(k)
  /\ Goes(k, "posted", "job")
  /\ UNCHANGED <<lockVars, queues, destruction>>

(* Mutant of Look: the flag is read while the lock is still asked for.     *)
LookUnlocked(k) ==
  /\ Goes(k, "asked", IF flag THEN "job" ELSE IF Kind[k] = "()" THEN "told" ELSE "leave")
  /\ UNCHANGED <<lockVars, queues, destruction>>

(* The lock is held, the flag is read.                                     *)
Look(k) ==
  /\ state[k] = "reading"
  /\ Goes(k, "asked", IF flag THEN "job" ELSE IF Kind[k] = "()" THEN "told" ELSE "leave")
  /\ UNCHANGED <<lockVars, queues, destruction>>

(* lock_failed is called, under the lock as the job is; by () not.         *)
LockFailed(k) ==
  /\ Goes(k, "told", IF state[k] = "reading" THEN "leave" ELSE "over")
  /\ UNCHANGED <<lockVars, queues, destruction>>

(* The job runs another by sync_task, and waits for it.                    *)
Sync(k) ==
  /\ Inner[k] # NoJob
  /\ phase[k] = "job"
  /\ phase[Inner[k]] = "none"
  /\ phase' = [phase EXCEPT ![k] = "sync",
                            ![Inner[k]] = IF queues = "open" THEN "posted" ELSE "dropped"]
  /\ UNCHANGED <<lockVars, queues, destruction>>

Synced(k) ==
  /\ Goes(k, "sync", "job")
  /\ phase[Inner[k]] \in {"over", "dropped"}
  /\ UNCHANGED <<lockVars, queues, destruction>>

(* The job is over: not before the object is freed, if it frees it.        *)
EndJob(k) ==
  /\ by = k => object = "freed"
  /\ Inner[k] # NoJob => phase[Inner[k]] # "none"
  /\ Goes(k, "job", IF Protected(k) THEN "leave" ELSE "over")
  /\ UNCHANGED <<lockVars, queues, destruction>>

(* Mutant of Leave: the lock is not released.                              *)
LeaveLocked(k) ==
  /\ Goes(k, "leave", "over")
  /\ UNCHANGED <<lockVars, queues, destruction>>

(* ~rawptr.                                                                *)
Leave(k) ==
  /\ Goes(k, "leave", "over")
  /\ RW!UnlockShared(k)
  /\ UNCHANGED <<queues, destruction>>

-------------------------------------------------------------------------------
(* The destruction.                                                        *)

(* It begins in a thread of its own, or in a job.                          *)
BeginDestroy(b) ==
  /\ owner = "alive"
  /\ b \in Suicidal => phase[b] = "job"
  /\ by' = b
  /\ bare' \in BOOLEAN
  /\ owner' = IF bare' THEN "derived" ELSE "ask"
  /\ UNCHANGED <<lockVars, queues, phase, flag, object>>

(* destroy_protection asks for the lock,                                   *)
AskWrite ==
  /\ owner = "ask"
  /\ owner' = "wait"
  /\ RW!Lock(Owner)
  /\ UNCHANGED <<queues, phase, flag, by, bare, object>>

(* sets the flag,                                                          *)
Revoke ==
  /\ owner = "wait"
  /\ state[Owner] = "writing"
  /\ flag' = FALSE
  /\ owner' = "release"
  /\ UNCHANGED <<lockVars, queues, phase, by, bare, object>>

(* Mutant of ReleaseWrite: the lock is kept.                               *)
ReleaseNot ==
  /\ owner = "release"
  /\ owner' = IF object = "whole" THEN "derived" ELSE "free"
  /\ UNCHANGED <<lockVars, queues, phase, flag, by, bare, object>>

(* and releases the lock: the derived destructor has called it, or that of *)
(* rawptr_protector.                                                       *)
ReleaseWrite ==
  /\ owner = "release"
  /\ owner' = IF object = "whole" THEN "derived" ELSE "free"
  /\ RW!Unlock(Owner)
  /\ UNCHANGED <<queues, phase, flag, by, bare, object>>

(* The derived parts are destroyed, then the base.                         *)
DestroyDerived ==
  /\ owner = "derived"
  /\ object' = "dying"
  /\ owner' = "ask"
  /\ UNCHANGED <<lockVars, queues, phase, flag, by, bare>>

Free ==
  /\ owner = "free"
  /\ object' = "freed"
  /\ owner' = "freed"
  /\ UNCHANGED <<lockVars, queues, phase, flag, by, bare>>

-------------------------------------------------------------------------------
JobStep(k) ==
  \/ Ask(k)
  \/ RunPlain(k)
  \/ Look(k)
  \/ LockFailed(k)
  \/ Sync(k)
  \/ Synced(k)
  \/ EndJob(k)
  \/ Leave(k)

DestroyStep == AskWrite \/ Revoke \/ ReleaseWrite \/ DestroyDerived \/ Free

Awake(r) == RW!Wake(r) /\ UNCHANGED <<queues, phase, destruction>>

AwakeEarly(r) == RW!Spurious(r) /\ UNCHANGED <<queues, phase, destruction>>

Next ==
  \/ \E k \in Jobs : Post(k) \/ JobStep(k)
  \/ \E b \in Suicidal \cup {Owner} : BeginDestroy(b)
  \/ DestroyStep
  \/ CloseQueues
  \/ \E r \in Requests : Awake(r) \/ AwakeEarly(r)

Spec == Init /\ [][Next]_vars

(* Workers take and run jobs, the destroying thread runs, and whoever is   *)
(* notified wakes up.                                                      *)
Fairness ==
  /\ \A k \in Jobs : WF_vars(JobStep(k))
  /\ WF_vars(DestroyStep)
  /\ \A r \in Requests : WF_vars(Awake(r))

FairSpec == Spec /\ Fairness

-------------------------------------------------------------------------------
(* Properties.                                                             *)

(* A protected job works on an object that is there: destroy_protection    *)
(* returns when no job is left and none begins after it.  Where the        *)
(* derived destructor does not call it, a job may meet a half of the       *)
(* object, but never freed memory.                                         *)
WholeInJobs ==
  \A k \in Jobs : Protected(k) /\ phase[k] \in {"job", "sync"} =>
    object = "whole" \/ (bare /\ object = "dying")

(* The rings of the lock: a job that destroys the object it has locked,    *)
(* and a job whose inner job waits behind the destruction that waits for   *)
(* the job itself.                                                         *)
Deadlocked ==
  /\ state[Owner] = "write_wait"
  /\ \E k \in Jobs : /\ state[k] = "reading"
                     /\ by = k \/ (phase[k] = "sync" /\ state[Inner[k]] = "read_wait")

(* A destruction ends, however many jobs come, unless it is in such a ring.*)
DestroyReturns == owner # "alive" ~> object = "freed" \/ Deadlocked

(* A job that is posted is run, refused or dropped with its queue; it does *)
(* not wait for ever unless there is such a ring.                          *)
JobsReturn == \A k \in Jobs : phase[k] = "posted" ~> phase[k] \in {"over", "dropped"} \/ Deadlocked

===============================================================================
