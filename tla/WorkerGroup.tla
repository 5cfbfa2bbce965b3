------------------------------ MODULE WorkerGroup -----------------------------
(***************************************************************************)
(* worker_group (src/src/task_worker_group.cc) with those who use it:      *)
(* managers that grow and shrink it, adjust_default_worker_count           *)
(* (src/src/task_queue_manager.cc), and tasks that ask it for its size in  *)
(* sync_task (src/src/task_queue.cc) or shrink it themselves.              *)
(*                                                                         *)
(* worker_lock_ is held while a worker is started or destroyed, and the    *)
(* destructor of a worker waits until its task is over.  A task queue is   *)
(* the serial queue that TaskQueue implements, a worker is one that the    *)
(* properties of Worker describe: it is valid once start has returned, and *)
(* it is at rest once stop has.                                            *)
(***************************************************************************)
EXTENDS Integers, Sequences, FiniteSets, SequencesExt

CONSTANTS
  Workers,     \* the worker objects; one that is destroyed may be created again
  Managers,    \* threads outside the group, of one call each:
  Growers,     \*   those that call increase_worker,
  Adjusters,   \*   those that call adjust_default_worker_count;  others shrink
  Want,        \* the worker count an adjuster asks for
  Priorities,
  Base,        \* base_priority_
  Grown,       \* the priority a grower asks for
  Initial,     \* the workers the group may be created with
  Tasks,
  Queues,
  QueueOf,
  Inner,       \* the task that a task runs with sync_task, or NoTask
  Shrinking,   \* the tasks that call decrease_worker
  NoTask,
  Nobody

Actors == Workers \cup Managers

Outer == {k \in Tasks : \A i \in Tasks : Inner[i] # k}

ASSUME ActorsAssumption ==
  /\ Workers \cap Managers = {}
  /\ Nobody \notin Actors
  /\ Growers \cup Adjusters \subseteq Managers
  /\ Growers \cap Adjusters = {}
  /\ Want \in [Adjusters -> Nat]
  /\ Base \in Priorities
  /\ Grown \in [Growers -> Priorities]
  /\ Initial \subseteq Seq(Workers)
  /\ \A s \in Initial : IsInjective(s)
ASSUME TasksAssumption ==
  /\ NoTask \notin Tasks
  /\ QueueOf \in [Tasks -> Queues]
  /\ Inner \in [Tasks -> Tasks \cup {NoTask}]
  /\ Shrinking \subseteq Outer
  /\ \A k \in Tasks \ Outer : Inner[k] = NoTask
  /\ \A i, k \in Tasks : Inner[i] = Inner[k] /\ Inner[i] # NoTask => i = k
  /\ \A k \in Shrinking : Inner[k] = NoTask

VARIABLES
  lock,     \* who holds worker_lock_ across steps
  members,  \* workers_
  prio,     \* the configured priority of each worker
  life,     \* none;  alive;  stopping: its destructor has begun, it may have
            \* seen itself valid and take a task yet;  last: it has taken it
  act,      \* what each actor does
  task,     \* the task each worker runs
  victim,   \* the worker whose end a call of decrease_worker waits for
  backlog,  \* the tasks that wait in each queue
  done,     \* the tasks that are over
  grown     \* workers past the size test of sync_task when the group grew

vars == <<lock, members, prio, life, act, task, victim, backlog, done, grown>>

(* A worker: idle;  size, member, inline, post, await: in sync_task;       *)
(* shrink, erase: in decrease_worker;  body: in the rest of its task.      *)
(* A manager: idle before and over after its call;  shrink, erase as       *)
(* above;  above, below: at the head of a loop of adjust;  grow: in it.    *)
TypeOK ==
  /\ lock \in Actors \cup {Nobody}
  /\ members \in Seq(Workers)
  /\ prio \in [Workers -> Priorities]
  /\ life \in [Workers -> {"none", "alive", "stopping", "last"}]
  /\ act \in [Actors -> {"idle", "size", "member", "inline", "post", "await", "body",
                         "shrink", "erase", "above", "below", "grow", "over"}]
  /\ task \in [Workers -> Tasks \cup {NoTask}]
  /\ victim \in [Actors -> Workers \cup {Nobody}]
  /\ backlog \in [Queues -> Seq(Tasks)]
  /\ done \subseteq Tasks
  /\ grown \subseteq Workers

(* The constructor has started the workers of the group.                   *)
Init ==
  /\ lock = Nobody
  /\ members \in Initial
  /\ prio = [w \in Workers |-> Base]
  /\ life = [w \in Workers |-> IF w \in ToSet(members) THEN "alive" ELSE "none"]
  /\ act = [a \in Actors |-> "idle"]
  /\ task = [w \in Workers |-> NoTask]
  /\ victim = [a \in Actors |-> Nobody]
  /\ backlog = [q \in Queues |-> <<>>]
  /\ done = {}
  /\ grown = {}

Free == lock = Nobody

Goes(a, from, to) == act[a] = from /\ act' = [act EXCEPT ![a] = to]

-------------------------------------------------------------------------------
(* The calls of the group.                                                 *)

(* increase_worker, all of it under the lock.                              *)
Increase(w, p) ==
  /\ Free
  /\ life[w] = "none"
  /\ members' = Append(members, w)
  /\ life' = [life EXCEPT ![w] = "alive"]
  /\ prio' = [prio EXCEPT ![w] = p]
  /\ grown' = {v \in Workers : act[v] \in {"member", "inline"}}
  /\ UNCHANGED <<lock, victim, task, backlog, done>>

(* find_if: the first worker of the priority.                              *)
IsFirst(n, p) ==
  /\ n \in DOMAIN members
  /\ prio[members[n]] = p
  /\ \A m \in 1..(n - 1) : prio[members[m]] # p

Absent(p) == \A w \in ToSet(members) : prio[w] # p

(* decrease_worker: there is none of the priority,                         *)
DecreaseNone(a, p, next) ==
  /\ Goes(a, "shrink", next)
  /\ Free
  /\ Absent(p)
  /\ UNCHANGED <<lock, members, prio, life, task, victim, backlog, done, grown>>

(* Mutant of Decrease: the lock is released before the worker is gone.     *)
DecreaseUnlocked(a, p) ==
  /\ Goes(a, "shrink", "erase")
  /\ Free
  /\ \E n \in DOMAIN members :
       /\ IsFirst(n, p)
       /\ members' = RemoveAt(members, n)
       /\ life' = [life EXCEPT ![members[n]] = "stopping"]
       /\ victim' = [victim EXCEPT ![a] = members[n]]
  /\ UNCHANGED <<lock, prio, task, backlog, done, grown>>

(* or the first is erased: its destructor begins, under the lock,          *)
Decrease(a, p) ==
  /\ Goes(a, "shrink", "erase")
  /\ Free
  /\ lock' = a
  /\ \E n \in DOMAIN members :
       /\ IsFirst(n, p)
       /\ members' = RemoveAt(members, n)
       /\ life' = [life EXCEPT ![members[n]] = "stopping"]
       /\ victim' = [victim EXCEPT ![a] = members[n]]
  /\ UNCHANGED <<prio, task, backlog, done, grown>>

(* and has ended.                                                          *)
Erased(a, next) ==
  /\ Goes(a, "erase", next)
  /\ life[victim[a]] = "none"
  /\ lock' = Nobody
  /\ victim' = [victim EXCEPT ![a] = Nobody]
  /\ UNCHANGED <<members, prio, life, task, backlog, done, grown>>

-------------------------------------------------------------------------------
(* Managers.                                                               *)

Grow(g) ==
  /\ Goes(g, "idle", "over")
  /\ \E w \in Workers : Increase(w, Grown[g])

Call(m) ==
  /\ Goes(m, "idle", IF m \in Adjusters THEN "above" ELSE "shrink")
  /\ m \notin Growers
  /\ UNCHANGED <<lock, members, prio, life, task, victim, backlog, done, grown>>

(* adjust_default_worker_count: while (wg->size() > wc),                   *)
Above(m) ==
  /\ Free
  /\ Goes(m, "above", IF Len(members) > Want[m] THEN "shrink" ELSE "below")
  /\ UNCHANGED <<lock, members, prio, life, task, victim, backlog, done, grown>>

(* Mutant of Below: one worker more than was asked for.                    *)
BelowOrEqual(m) ==
  /\ Free
  /\ Goes(m, "below", IF Len(members) <= Want[m] THEN "grow" ELSE "over")
  /\ UNCHANGED <<lock, members, prio, life, task, victim, backlog, done, grown>>

(* while (wg->size() < wc),                                                *)
Below(m) ==
  /\ Free
  /\ Goes(m, "below", IF Len(members) < Want[m] THEN "grow" ELSE "over")
  /\ UNCHANGED <<lock, members, prio, life, task, victim, backlog, done, grown>>

GrowMore(m) ==
  /\ Goes(m, "grow", "below")
  /\ \E w \in Workers : Increase(w, Base)

(* decrease_worker by a manager: the loop of adjust goes on.               *)
Shrink(m) ==
  LET next == IF m \in Adjusters THEN "above" ELSE "over"
  IN  DecreaseNone(m, Base, next) \/ Decrease(m, Base) \/ Erased(m, next)

-------------------------------------------------------------------------------
(* Workers and their tasks.                                                *)

Active(q) == {w \in Workers : task[w] # NoTask /\ QueueOf[task[w]] = q}

(* An outer task is posted by somebody.                                    *)
Post(k) ==
  /\ k \notin done
  /\ \A q \in Queues : k \notin ToSet(backlog[q])
  /\ \A w \in Workers : task[w] # k
  /\ backlog' = [backlog EXCEPT ![QueueOf[k]] = Append(@, k)]
  /\ UNCHANGED <<lock, members, prio, life, act, task, victim, done, grown>>

(* A worker takes the next task of a queue that has none in flight.        *)
Take(w, q) ==
  /\ life[w] \in {"alive", "stopping"}
  /\ life' = [life EXCEPT ![w] = IF @ = "stopping" THEN "last" ELSE @]
  /\ Active(q) = {}
  /\ backlog[q] # <<>>
  /\ LET k == Head(backlog[q])
     IN  /\ task' = [task EXCEPT ![w] = k]
         /\ Goes(w, "idle", IF Inner[k] # NoTask THEN "size"
                            ELSE IF k \in Shrinking THEN "shrink" ELSE "body")
  /\ backlog' = [backlog EXCEPT ![q] = Tail(@)]
  /\ UNCHANGED <<lock, members, prio, victim, done, grown>>

(* Mutant of SyncSize: two workers count as one.                           *)
SyncSizeTwo(w) ==
  /\ Free
  /\ Goes(w, "size", IF Len(members) <= 2 THEN "member" ELSE "post")
  /\ grown' = grown \ {w}
  /\ UNCHANGED <<lock, members, prio, life, task, victim, backlog, done>>

(* sync_task: wg->size() == 1,                                             *)
SyncSize(w) ==
  /\ Free
  /\ Goes(w, "size", IF Len(members) = 1 THEN "member" ELSE "post")
  /\ grown' = grown \ {w}
  /\ UNCHANGED <<lock, members, prio, life, task, victim, backlog, done>>

(* and wg->in_worker_group(),                                              *)
SyncMember(w) ==
  /\ Free
  /\ Goes(w, "member", IF w \in ToSet(members) THEN "inline" ELSE "post")
  /\ UNCHANGED <<lock, members, prio, life, task, victim, backlog, done, grown>>

(* then the task is run here,                                              *)
SyncInline(w) ==
  /\ Goes(w, "inline", "body")
  /\ done' = done \cup {Inner[task[w]]}
  /\ UNCHANGED <<lock, members, prio, life, task, victim, backlog, grown>>

(* Mutant of SyncPost: the queue does not take the task, and tells nobody. *)
SyncPostNowhere(w) ==
  /\ Goes(w, "post", "await")
  /\ UNCHANGED <<lock, members, prio, life, task, victim, backlog, done, grown>>

(* or it is posted                                                         *)
SyncPost(w) ==
  /\ Goes(w, "post", "await")
  /\ LET k == Inner[task[w]]
     IN  backlog' = [backlog EXCEPT ![QueueOf[k]] = Append(@, k)]
  /\ UNCHANGED <<lock, members, prio, life, task, victim, done, grown>>

(* and waited for.                                                         *)
SyncReturn(w) ==
  /\ Goes(w, "await", "body")
  /\ Inner[task[w]] \in done
  /\ UNCHANGED <<lock, members, prio, life, task, victim, backlog, done, grown>>

(* A task that calls decrease_worker.                                      *)
TaskShrink(w) ==
  DecreaseNone(w, Base, "body") \/ Decrease(w, Base) \/ Erased(w, "body")

(* The task and its hook are over.                                         *)
End(w) ==
  /\ Goes(w, "body", "idle")
  /\ done' = done \cup {task[w]}
  /\ task' = [task EXCEPT ![w] = NoTask]
  /\ UNCHANGED <<lock, members, prio, life, victim, backlog, grown>>

(* Mutant of Leave: the worker does not finish its task.                   *)
LeaveAnyway(w) ==
  /\ life[w] \in {"stopping", "last"}
  /\ life' = [life EXCEPT ![w] = "none"]
  /\ UNCHANGED <<lock, members, prio, act, task, victim, backlog, done, grown>>

(* Mutant of Leave: the worker leaves when there is nothing left to do.    *)
LeaveDrained(w) ==
  /\ life[w] \in {"stopping", "last"}
  /\ act[w] = "idle"
  /\ \A q \in Queues : backlog[q] = <<>>
  /\ life' = [life EXCEPT ![w] = "none"]
  /\ UNCHANGED <<lock, members, prio, act, task, victim, backlog, done, grown>>

(* A worker that is stopped leaves, when it has no task.                   *)
Leave(w) ==
  /\ life[w] \in {"stopping", "last"}
  /\ act[w] = "idle"
  /\ life' = [life EXCEPT ![w] = "none"]
  /\ UNCHANGED <<lock, members, prio, act, task, victim, backlog, done, grown>>

-------------------------------------------------------------------------------
ManagerStep(m) ==
  \/ m \in Adjusters /\ (Above(m) \/ Below(m) \/ GrowMore(m))
  \/ Shrink(m)

WorkerStep(w) ==
  \/ \E q \in Queues : Take(w, q)
  \/ SyncSize(w)
  \/ SyncMember(w)
  \/ SyncInline(w)
  \/ SyncPost(w)
  \/ SyncReturn(w)
  \/ TaskShrink(w)
  \/ End(w)
  \/ Leave(w)

Next ==
  \/ \E g \in Growers : Grow(g)
  \/ \E m \in Managers : Call(m) \/ ManagerStep(m)
  \/ \E k \in Outer : Post(k)
  \/ \E w \in Workers : WorkerStep(w)

Spec == Init /\ [][Next]_vars

(* Threads run, and get a lock that stays free.                            *)
Fairness ==
  /\ \A m \in Managers : WF_vars(ManagerStep(m))
  /\ \A w \in Workers : WF_vars(WorkerStep(w))

FairSpec == Spec /\ Fairness

-------------------------------------------------------------------------------
(* Properties.                                                             *)

(* Whenever somebody may look, the list of the group is what serves: all   *)
(* listed workers are alive, no other is, and nobody is being destroyed.   *)
(* in_worker_group and size rest on it.                                    *)
MembersServe ==
  Free => /\ \A w \in Workers : life[w] = IF w \in ToSet(members) THEN "alive" ELSE "none"
          /\ IsInjective(members)

(* No task outlives its worker: a worker that is gone runs nothing.        *)
GoneIsQuiet == \A w \in Workers : life[w] = "none" => act[w] = "idle" /\ task[w] = NoTask

(* Each worker of the group is used as Worker lets it be: started when it  *)
(* is at rest, destroyed no sooner than its task is over, and given one    *)
(* task at a time in between.                                              *)
Service(w) == INSTANCE WorkerService WITH
  stage <- IF life[w] = "none" THEN "rest" ELSE "serving",
  busy  <- task[w] # NoTask

WorkersServe ==
  /\ \A w \in Workers : Service(w)!Init
  /\ [][\A w \in Workers : [Service(w)!Next]_(Service(w)!vars)]_vars

(* Each queue is one that TaskQueue lets there be: every task is posted    *)
(* once, those accepted run in order and one at a time.  A task that       *)
(* sync_task runs itself was never accepted.                               *)
Fresh(k) ==
  /\ k \notin done
  /\ k \notin ToSet(backlog[QueueOf[k]])
  /\ \A w \in Workers : task[w] # k

Serial(q) == INSTANCE SerialQueue WITH
  Tasks   <- {k \in Tasks : QueueOf[k] = q},
  fresh   <- {k \in Tasks : QueueOf[k] = q /\ Fresh(k)},
  backlog <- backlog[q],
  active  <- IF Active(q) = {} THEN NoTask ELSE task[CHOOSE w \in Active(q) : TRUE]

QueuesSerial ==
  /\ \A q \in Queues : Serial(q)!Init
  /\ [][\A q \in Queues : [Serial(q)!Next]_(Serial(q)!vars)]_vars

(* What the other modules show of workers and of queues is what this one   *)
(* takes for granted of them.                                              *)
PartsAsPromised == WorkersServe /\ QueuesSerial

(* A worker that runs another task within its own, because it found itself *)
(* to be the only one, is alone: no other worker runs anything, so no two  *)
(* tasks of a queue run at a time; unless the group has grown since.       *)
AloneUnlessGrown ==
  \A w \in Workers \ grown : act[w] = "inline" =>
    \A v \in Workers \ {w} : task[v] = NoTask

(* Those of whom one must move before a can.                               *)
NeedsLock(a) == act[a] \in {"size", "member", "shrink", "above", "below", "grow"} /\ ~Free

WaitsFor(a) ==
  CASE NeedsLock(a)      -> {lock}
    [] act[a] = "erase"  -> {victim[a]}
    [] act[a] = "await"  ->
         LET k == Inner[task[a]]
             q == QueueOf[k]
         IN  IF Active(q) # {} THEN Active(q)
             ELSE {w \in Workers : life[w] \in {"alive", "stopping"}}
    [] OTHER             -> {a}

Waits(a) ==
  \/ NeedsLock(a)
  \/ act[a] = "erase"
  \/ act[a] = "await" /\ Inner[task[a]] \notin done

(* a waits, for actors that all wait, for actors that all wait ...  It     *)
(* waits for good, unless a worker is added: see DeadlockStays.            *)
Deadlocked(a) ==
  /\ Waits(a)
  /\ \E D \in SUBSET {b \in Actors : Waits(b)} : a \in D /\ \A b \in D : WaitsFor(b) \subseteq D

(* decrease_worker returns, or waits for a task that waits for it: the     *)
(* lock, held only while a worker is destroyed, is released, or its holder *)
(* is in a ring.                                                           *)
DecreaseReturns == ~Free ~> Free \/ Deadlocked(lock)

(* sync_task returns, or the tasks that run wait for each other in a ring. *)
SyncReturns == \A w \in Workers : act[w] = "await" ~> act[w] # "await" \/ Deadlocked(w)

(* adjust_default_worker_count returns, unless the surplus is of workers   *)
(* of another priority, which it does not remove and counts again and      *)
(* again, or it is caught in such a ring.                                  *)
AdjustReturns ==
  \A m \in Adjusters : act[m] = "above" ~>
    \/ act[m] = "over"
    \/ Absent(Base) /\ Len(members) > Want[m]
    \/ Deadlocked(m) \/ (~Free /\ Deadlocked(lock))

===============================================================================
