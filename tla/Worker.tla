-------------------------------- MODULE Worker --------------------------------
(***************************************************************************)
(* worker (src/src/task_worker.cc) and its base thread (task_thread.cc and *)
(* task_thread_posix.cc): an object that starts a system thread, which     *)
(* serves the event queue until somebody stops it.                         *)
(*                                                                         *)
(* The object has one owner that calls start, stop and the destructor one  *)
(* after the other; each start may make a new system thread.  The flag     *)
(* validate_ is shared without a lock, so an action is what one side does  *)
(* between two accesses to it, to running_lock_ or to the event queue.     *)
(* The event queue is left open (EventQueue has it): a waiting thread may  *)
(* be given an item of any priority, or nothing.                           *)
(***************************************************************************)
EXTENDS Integers

CONSTANTS
  MaxStarts,    \* bound: the system threads the owner starts
  MaxPriority,  \* k_realtime
  Configured,   \* attr_.priority
  MayDrop       \* whether the other owners of the event queue may drop it

ASSUME BoundsAssumption == MaxStarts \in Nat \ {0} /\ MaxPriority \in Nat
ASSUME ConfiguredAssumption == Configured \in 1..MaxPriority
ASSUME DropAssumption == MayDrop \in BOOLEAN

Threads == 1..MaxStarts
Prios   == 1..MaxPriority

Nobody == 0

VARIABLES
  validate,    \* validate_
  thread_id,   \* thread_id_: the last thread that wrote it
  prio,        \* current_priority_
  running,     \* running_lock_: the thread that holds it
  phase,       \* where each system thread is
  entry,       \* its entry in pending_threads_ of the event queue
  eqOwned,     \* somebody else owns the event queue
  owner,       \* where the owner of the worker is
  destroying,  \* the stop under way is that of the destructor
  stopped      \* the last call that returned is stop

vars == <<validate, thread_id, prio, running, phase, entry, eqOwned, owner, destroying, stopped>>
ownerVars == <<owner, destroying, stopped>>

(* created, entered: up to the assignment of validate_;  valid: before     *)
(* main has running_lock_;  leaving: after main, before validate_ = false. *)
InMain == {"loop", "fetch", "calling", "waiting", "task"}
Phases == {"unborn", "created", "entered", "valid", "leaving", "gone"} \cup InMain

(* starting: in the loop of thread::start;  check to lock: in stop;        *)
(* joining: in ~thread, the members of worker are destroyed.               *)
InStop == {"check", "invalidate", "break", "lock"}
Owners == {"idle", "starting", "joining", "dead"} \cup InStop

TypeOK ==
  /\ validate \in BOOLEAN
  /\ thread_id \in Threads \cup {Nobody}
  /\ prio \in Nat
  /\ running \in Threads \cup {Nobody}
  /\ phase \in [Threads -> Phases]
  /\ entry \in [Threads -> {"none", "waiting", "broken"}]
  /\ \A n \in Threads : entry[n] # "none" <=> phase[n] = "waiting"
  /\ eqOwned \in BOOLEAN
  /\ owner \in Owners
  /\ destroying \in BOOLEAN
  /\ stopped \in BOOLEAN

Init ==
  /\ validate = FALSE
  /\ thread_id = Nobody
  /\ prio = 2
  /\ running = Nobody
  /\ phase = [n \in Threads |-> "unborn"]
  /\ entry = [n \in Threads |-> "none"]
  /\ eqOwned = TRUE
  /\ owner = "idle"
  /\ destroying = FALSE
  /\ stopped = FALSE

(* A weak pointer to the event queue locks; a thread in an iteration of    *)
(* its loop is an owner too.                                               *)
EqAlive == eqOwned \/ \E n \in Threads : phase[n] \in {"calling", "waiting", "task"}

-------------------------------------------------------------------------------
(* The system thread.                                                      *)

Move(n, from, to) == phase[n] = from /\ phase' = [phase EXCEPT ![n] = to]

(* entrance_ up to line 177.                                               *)
Enter(n) ==
  /\ Move(n, "created", "entered")
  /\ thread_id' = n
  /\ prio' = Configured
  /\ UNCHANGED <<validate, running, entry, eqOwned, ownerVars>>

(* Mutant of Validate: the flag is not set.                                *)
ValidateNothing(n) ==
  /\ Move(n, "entered", "valid")
  /\ UNCHANGED <<validate, thread_id, prio, running, entry, eqOwned, ownerVars>>

Validate(n) ==
  /\ Move(n, "entered", "valid")
  /\ validate' = TRUE
  /\ UNCHANGED <<thread_id, prio, running, entry, eqOwned, ownerVars>>

(* When the members are destroyed already this is undefined; the model     *)
(* has the thread go on with the memory they were in.                      *)
LockRunning(n) ==
  /\ Move(n, "valid", "loop")
  /\ running = Nobody
  /\ running' = n
  /\ UNCHANGED <<validate, thread_id, prio, entry, eqOwned, ownerVars>>

(* Mutant of Check: the loop does not look at the flag.                    *)
CheckNothing(n) ==
  /\ Move(n, "loop", "fetch")
  /\ UNCHANGED <<validate, thread_id, prio, running, entry, eqOwned, ownerVars>>

(* The condition of the loop; on the way out main releases the lock.       *)
Check(n) ==
  /\ \/ /\ validate
        /\ Move(n, "loop", "fetch")
        /\ UNCHANGED running
     \/ /\ ~validate
        /\ Move(n, "loop", "leaving")
        /\ running' = Nobody
  /\ UNCHANGED <<validate, thread_id, prio, entry, eqOwned, ownerVars>>

LockQueue(n) ==
  /\ \/ /\ EqAlive
        /\ Move(n, "fetch", "calling")
        /\ UNCHANGED running
     \/ /\ ~EqAlive
        /\ Move(n, "fetch", "leaving")
        /\ running' = Nobody
  /\ UNCHANGED <<validate, thread_id, prio, entry, eqOwned, ownerVars>>

(* wait: it registers the thread and evaluates the predicate at once.      *)
Call(n) ==
  /\ \/ /\ validate
        /\ Move(n, "calling", "waiting")
        /\ entry' = [entry EXCEPT ![n] = "waiting"]
     \/ /\ ~validate
        /\ Move(n, "calling", "loop")
        /\ UNCHANGED entry
  /\ UNCHANGED <<validate, thread_id, prio, running, eqOwned, ownerVars>>

(* Mutant of Adjusted: the priority always follows the item.               *)
AdjustedAlways(p) == {p}

(* The priorities the thread may run an item of priority p with.  It is    *)
(* raised once, and falls back when 30 seconds are over.                   *)
Adjusted(p) ==
  IF prio = Configured THEN {IF prio < p THEN p ELSE prio}
  ELSE IF p <= Configured THEN {prio, Configured}
  ELSE {prio}

GetItem(n, p) ==
  /\ entry[n] = "waiting"
  /\ validate
  /\ Move(n, "waiting", "task")
  /\ entry' = [entry EXCEPT ![n] = "none"]
  /\ prio' \in IF thread_id = n THEN Adjusted(p) ELSE {prio}
  /\ UNCHANGED <<validate, thread_id, running, eqOwned, ownerVars>>

Return(n) ==
  /\ Move(n, "waiting", "loop")
  /\ entry' = [entry EXCEPT ![n] = "none"]
  /\ UNCHANGED <<validate, thread_id, prio, running, eqOwned, ownerVars>>

(* Without item: the thread is broken or being stopped ...                 *)
ReturnStopped(n) == (entry[n] = "broken" \/ ~validate) /\ Return(n)

(* ... or it left the items to others, or the queue is broken.             *)
ReturnEmpty(n) == entry[n] = "waiting" /\ validate /\ Return(n)

EndTask(n) ==
  /\ Move(n, "task", "loop")
  /\ UNCHANGED <<validate, thread_id, prio, running, entry, eqOwned, ownerVars>>

Leave(n) ==
  /\ Move(n, "leaving", "gone")
  /\ validate' = FALSE
  /\ UNCHANGED <<thread_id, prio, running, entry, eqOwned, ownerVars>>

-------------------------------------------------------------------------------
(* The owner.                                                              *)

(* start, on a worker that is not validate: it makes a thread, and polls   *)
(* the flag until it is true.                                              *)
Start(n) ==
  /\ owner = "idle"
  /\ ~validate
  /\ phase[n] = "unborn" /\ \A m \in Threads : m < n => phase[m] # "unborn"
  /\ phase' = [phase EXCEPT ![n] = "created"]
  /\ owner' = "starting"
  /\ stopped' = FALSE
  /\ UNCHANGED <<validate, thread_id, prio, running, entry, eqOwned, destroying>>

(* Mutant of StartSeen: start does not wait for the flag.                  *)
StartUnseen ==
  /\ owner = "starting"
  /\ owner' = "idle"
  /\ UNCHANGED <<validate, thread_id, prio, running, phase, entry, eqOwned, destroying, stopped>>

StartSeen ==
  /\ owner = "starting"
  /\ validate
  /\ owner' = "idle"
  /\ UNCHANGED <<validate, thread_id, prio, running, phase, entry, eqOwned, destroying, stopped>>

(* stop, called by the owner or by the destructor.  A worker that was      *)
(* never started is not destroyed: ~thread would join no thread at all.    *)
Stop(d) ==
  /\ owner = "idle"
  /\ d => thread_id # Nobody
  /\ destroying' = d
  /\ owner' = "check"
  /\ UNCHANGED <<validate, thread_id, prio, running, phase, entry, eqOwned, stopped>>

StopCheck ==
  /\ owner = "check"
  /\ owner' = IF validate THEN "invalidate" ELSE "lock"
  /\ UNCHANGED <<validate, thread_id, prio, running, phase, entry, eqOwned, destroying, stopped>>

StopInvalidate ==
  /\ owner = "invalidate"
  /\ validate' = FALSE
  /\ owner' = "break"
  /\ UNCHANGED <<thread_id, prio, running, phase, entry, eqOwned, destroying, stopped>>

(* break_waiter finds the thread only if it is registered.                 *)
StopBreak ==
  /\ owner = "break"
  /\ entry' = [n \in Threads |-> IF n = thread_id /\ entry[n] = "waiting" THEN "broken"
                                                                          ELSE entry[n]]
  /\ owner' = "lock"
  /\ UNCHANGED <<validate, thread_id, prio, running, phase, eqOwned, destroying, stopped>>

(* Mutant of StopLock: stop does not wait for running_lock_.               *)
StopReturnAtOnce ==
  /\ owner = "lock"
  /\ owner' = IF destroying THEN "joining" ELSE "idle"
  /\ stopped' = TRUE
  /\ UNCHANGED <<validate, thread_id, prio, running, phase, entry, eqOwned, destroying>>

(* The lock is taken and released; the destructor goes on.                 *)
StopLock ==
  /\ owner = "lock"
  /\ running = Nobody
  /\ owner' = IF destroying THEN "joining" ELSE "idle"
  /\ stopped' = TRUE
  /\ UNCHANGED <<validate, thread_id, prio, running, phase, entry, eqOwned, destroying>>

(* ~thread joins the thread made last.                                     *)
Join ==
  /\ owner = "joining"
  /\ phase[thread_id] = "gone"
  /\ owner' = "dead"
  /\ UNCHANGED <<validate, thread_id, prio, running, phase, entry, eqOwned, destroying, stopped>>

-------------------------------------------------------------------------------
(* The other owners of the event queue drop it.                            *)
EqDrop ==
  /\ MayDrop
  /\ eqOwned
  /\ eqOwned' = FALSE
  /\ UNCHANGED <<validate, thread_id, prio, running, phase, entry, ownerVars>>

ThreadStep(n) ==
  \/ Enter(n) \/ Validate(n) \/ LockRunning(n) \/ Check(n) \/ LockQueue(n) \/ Call(n)
  \/ ReturnStopped(n) \/ EndTask(n) \/ Leave(n)

OwnerStep == StartSeen \/ StopCheck \/ StopInvalidate \/ StopBreak \/ StopLock \/ Join

Next ==
  \/ \E n \in Threads : ThreadStep(n) \/ ReturnEmpty(n) \/ Start(n)
  \/ \E n \in Threads, p \in Prios : GetItem(n, p)
  \/ OwnerStep
  \/ \E d \in BOOLEAN : Stop(d)
  \/ EqDrop

Spec == Init /\ [][Next]_vars

(* System threads run, tasks return, calls of the owner proceed.  A thread *)
(* that is stopped while it waits sees it within the 10 ms of wait.        *)
Fairness ==
  /\ \A n \in Threads : WF_vars(ThreadStep(n))
  /\ WF_vars(OwnerStep)

FairSpec == Spec /\ Fairness

-------------------------------------------------------------------------------
(* Properties.                                                             *)

(* Once stop has returned no task of the worker runs, until it is started  *)
(* again; also when the thread had not even reached main when stop looked  *)
(* at the flag and took the lock.                                          *)
QuietAfterStop == stopped => \A n \in Threads : phase[n] # "task"

(* Whatever system threads earlier starts have left behind, the object is  *)
(* one worker that runs one task at a time, begins none after stop has     *)
(* cleared or read the flag, and is at rest when stop returns.             *)
Service == INSTANCE WorkerService WITH
  stage <- IF stopped \/ \A n \in Threads : phase[n] = "unborn" THEN "rest"
           ELSE IF owner \in {"break", "lock"} THEN "stopping" ELSE "serving",
  busy  <- \E n \in Threads : phase[n] = "task"

ImplementsService == Service!Spec

(* A worker in main is never below the priority it was configured with.    *)
PriorityFloor == (\E n \in Threads : phase[n] \in InMain) => prio >= Configured

(* A call of stop comes back: the thread sees that it is being stopped     *)
(* whether it was waiting, about to wait or running a task.                *)
StopReturns == owner = "check" ~> owner \notin InStop

(* The first thread of the worker, with an event queue that is there.      *)
FirstStart == phase[1] # "unborn" /\ (\A n \in Threads : n > 1 => phase[n] = "unborn")

(* When start has returned the worker is validate, until it is stopped.    *)
StartedIsValid == owner = "idle" /\ ~stopped /\ FirstStart /\ eqOwned => validate

(* The call of start comes back.                                           *)
StartReturns == owner = "starting" /\ FirstStart ~> owner # "starting" \/ ~eqOwned

===============================================================================
