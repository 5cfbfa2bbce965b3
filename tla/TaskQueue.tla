------------------------------- MODULE TaskQueue ------------------------------
(***************************************************************************)
(* task_queue (src/src/task_queue.cc): a serial queue of tasks on top of   *)
(* an event queue that a group of workers serves.                          *)
(*                                                                         *)
(* At most one task of the queue is in flight.  post_task hands the front  *)
(* task to the event queue when none is; the after hook of a task, which   *)
(* the worker calls when the task has returned, hands over the next.  The  *)
(* task handed over is moved from, but its shell stays at the front of tq  *)
(* until the hook pops it.                                                 *)
(*                                                                         *)
(* The event queue is the list of one priority (EventQueue has the rest),  *)
(* a worker is the body of the loop of worker::main.  An action is what    *)
(* one thread does between two points where another can interfere: the     *)
(* checks of valid are outside the lock, so they are steps of their own.   *)
(***************************************************************************)
EXTENDS Integers, Sequences, FiniteSets, SequencesExt

CONSTANTS
  Tasks,        \* the tasks ever posted
  Syncs,        \* those posted by sync_task, from outside the worker group
  Workers,
  NoTask,
  Directions,   \* the values the direction argument of post_task takes
  Kept,         \* whether a moved-from std::function may keep its target
  KeepCounts,   \* the arguments of set_recent_trace_keep_count
  Disruptions   \* which calls below other threads make

ASSUME TasksAssumption == NoTask \notin Tasks /\ Syncs \subseteq Tasks
ASSUME ChoicesAssumption ==
  /\ Directions \subseteq {0, 1}
  /\ Kept \subseteq BOOLEAN
  /\ Kept # {}
  /\ KeepCounts \subseteq Nat
  /\ Disruptions \subseteq {"cancel", "break", "destroy", "eq_cancel", "eq_drop"}

VARIABLES
  valid,    \* impl->valid
  running,  \* impl->running
  tq,       \* impl->tq
  keep,     \* impl->keep_recent_count
  trace,    \* impl->recent_trace
  owned,    \* the task_queue object exists and owns impl
  eq,       \* the items in the event queue
  eqAlive,  \* the event queue exists: the weak pointers to it lock
  worker,   \* what each worker does, and with which item
  call,     \* the progress of the call that posts each task
  began     \* the tasks in the order they began to run

vars == <<valid, running, tq, keep, trace, owned, eq, eqAlive, worker, call, began>>

(* A task object: its functions t and after may be empty, and it may have  *)
(* been moved from.                                                        *)
Entry == [task : Tasks, t : BOOLEAN, after : BOOLEAN, moved : BOOLEAN]

NewTask(k) == [task |-> k, t |-> TRUE, after |-> TRUE, moved |-> FALSE]

(* What a move leaves behind: empty functions in libstdc++ and MSVC, while *)
(* libc++ leaves a small target in place.                                  *)
Shells(e) ==
  [task : {e.task}, t : {e.t /\ x : x \in Kept}, after : {e.after /\ x : x \in Kept},
   moved : {TRUE}]

Idle == [phase |-> "idle"]

(* task: in st->i.t();  ended: it has returned, the hook has not checked   *)
(* yet;  hook: past the check, with a strong pointer to impl.              *)
Busy == [phase : {"task", "ended", "hook"}, item : Entry]

InFlight == {w \in Workers : worker[w] # Idle}

TypeOK ==
  /\ valid \in BOOLEAN
  /\ running \in BOOLEAN
  /\ tq \in Seq(Entry)
  /\ keep \in Nat
  /\ trace \in Seq(Tasks)
  /\ owned \in BOOLEAN
  /\ eq \in Seq(Entry)
  /\ eqAlive \in BOOLEAN
  /\ worker \in [Workers -> Busy \cup {Idle}]
  /\ call \in [Tasks -> {"none", "posting", "waiting", "done"}]
  /\ began \in Seq(Tasks)

Init ==
  /\ valid = TRUE
  /\ running = FALSE
  /\ tq = <<>>
  /\ keep = 100
  /\ trace = <<>>
  /\ owned = TRUE
  /\ eq = <<>>
  /\ eqAlive = TRUE
  /\ worker = [w \in Workers |-> Idle]
  /\ call = [k \in Tasks |-> "none"]
  /\ began = <<>>

-------------------------------------------------------------------------------
(* Posting.                                                                *)

(* Mutant of Inserted: the two directions swapped.                         *)
InsertedSwapped(k, direction) ==
  IF direction = 1 THEN Append(tq, NewTask(k)) ELSE <<NewTask(k)>> \o tq

(* tq with the new task at its tail or its head.                           *)
Inserted(k, direction) ==
  IF direction = 0 THEN Append(tq, NewTask(k)) ELSE <<NewTask(k)>> \o tq

(* Mutants of Starts: no test at all, or the size off by one.              *)
StartsAlways(q) == eqAlive
StartsLate(q)   == Len(q) = 2 /\ ~running /\ eqAlive

(* The new task is the only one, so it is handed over.                     *)
Starts(q) == Len(q) = 1 /\ ~running /\ eqAlive

(* What seq->emplace_back(std::move(tq.front())) makes of the list q.      *)
HandedOver(q) == {<<s>> \o Tail(q) : s \in Shells(Head(q))}

(* The check of valid.  A refused sync_task returns at once too: its flag  *)
(* is destroyed with the task.                                             *)
PostBegin(k) ==
  /\ owned
  /\ call[k] = "none"
  /\ call' = [call EXCEPT ![k] = IF valid THEN "posting" ELSE "done"]
  /\ UNCHANGED <<valid, running, tq, keep, trace, owned, eq, eqAlive, worker, began>>

(* The rest, under the lock.                                               *)
PostInsert(k, direction) ==
  /\ call[k] = "posting"
  /\ call' = [call EXCEPT ![k] = IF k \in Syncs THEN "waiting" ELSE "done"]
  /\ LET q == Inserted(k, direction)
     IN  \/ /\ Starts(q)
            /\ running' = TRUE
            /\ eq' = Append(eq, Head(q))
            /\ tq' \in HandedOver(q)
         \/ /\ ~Starts(q)
            /\ tq' = q
            /\ UNCHANGED <<running, eq>>
  /\ UNCHANGED <<valid, keep, trace, owned, eqAlive, worker, began>>

(* The task k, not what a move left of it, is in one of the queues.        *)
Queued(k) ==
  \/ \E j \in DOMAIN tq : tq[j].task = k /\ ~tq[j].moved
  \/ \E j \in DOMAIN eq : eq[j].task = k /\ ~eq[j].moved

(* Mutant of Held: the flag is destroyed when a worker takes the item.     *)
HeldUntilTaken(k) == Queued(k)

(* The flag of a sync_task lives in the task, wherever that has moved to.  *)
Held(k) ==
  \/ Queued(k)
  \/ \E w \in InFlight : worker[w].item.task = k /\ ~worker[w].item.moved

(* The flag was destroyed and wakes the caller of sync_task.               *)
SyncReturn(k) ==
  /\ call[k] = "waiting"
  /\ ~Held(k)
  /\ call' = [call EXCEPT ![k] = "done"]
  /\ UNCHANGED <<valid, running, tq, keep, trace, owned, eq, eqAlive, worker, began>>

-------------------------------------------------------------------------------
(* A worker.                                                               *)

(* An item whose t is empty is not run.                                    *)
Take(w) ==
  /\ worker[w] = Idle
  /\ eq # <<>>
  /\ eq' = Tail(eq)
  /\ LET e == Head(eq)
     IN  \/ /\ e.t
            /\ worker' = [worker EXCEPT ![w] = [phase |-> "task", item |-> e]]
            /\ began' = Append(began, e.task)
         \/ /\ ~e.t
            /\ worker' = [worker EXCEPT ![w] = [phase |-> "ended", item |-> e]]
            /\ UNCHANGED began
  /\ UNCHANGED <<valid, running, tq, keep, trace, owned, eqAlive, call>>

EndTask(w) ==
  /\ worker[w].phase = "task"
  /\ worker' = [worker EXCEPT ![w].phase = "ended"]
  /\ UNCHANGED <<valid, running, tq, keep, trace, owned, eq, eqAlive, call, began>>

(* The check at the start of the hook: impl is gone or broken, or there is *)
(* no hook to call.  The worker drops the item and waits again.            *)
SkipAfter(w) ==
  /\ worker[w].phase = "ended"
  /\ ~worker[w].item.after \/ ~owned \/ ~valid
  /\ worker' = [worker EXCEPT ![w] = Idle]
  /\ UNCHANGED <<valid, running, tq, keep, trace, owned, eq, eqAlive, call, began>>

EnterAfter(w) ==
  /\ worker[w].phase = "ended"
  /\ worker[w].item.after /\ owned /\ valid
  /\ worker' = [worker EXCEPT ![w].phase = "hook"]
  /\ UNCHANGED <<valid, running, tq, keep, trace, owned, eq, eqAlive, call, began>>

(* Mutant of Traced: pushed at the wrong end.                              *)
TracedFirst(k) ==
  LET longer == <<k>> \o trace
  IN  IF Len(longer) > keep THEN Tail(longer) ELSE longer

(* The trace is pushed, and popped once if it has become too long.         *)
Traced(k) ==
  LET longer == Append(trace, k)
  IN  IF Len(longer) > keep THEN Tail(longer) ELSE longer

(* The hook under the lock.  It pops the front of tq and hands over what   *)
(* follows; the last owner of impl frees it on the way out.                *)
After(w) ==
  /\ worker[w].phase = "hook"
  /\ worker' = [worker EXCEPT ![w] = Idle]
  /\ trace' = Traced(worker[w].item.task)
  /\ LET q == Tail(tq)
     IN  \/ /\ q # <<>> /\ eqAlive
            /\ eq' = Append(eq, Head(q))
            /\ tq' \in IF owned THEN HandedOver(q) ELSE {<<>>}
            /\ UNCHANGED running
         \/ /\ q = <<>> \/ ~eqAlive
            /\ tq' = IF owned THEN q ELSE <<>>
            /\ running' = FALSE
            /\ UNCHANGED eq
  /\ UNCHANGED <<valid, keep, owned, eqAlive, call, began>>

-------------------------------------------------------------------------------
(* What other threads may do to the queue.                                 *)

(* Mutant of Cancel: it clears tq although a task is in flight.            *)
CancelEverything ==
  /\ "cancel" \in Disruptions
  /\ owned
  /\ tq' = <<>>
  /\ UNCHANGED <<valid, running, keep, trace, owned, eq, eqAlive, worker, call, began>>

Cancel ==
  /\ "cancel" \in Disruptions
  /\ owned
  /\ tq' = IF running THEN SubSeq(tq, 1, 1) ELSE <<>>
  /\ UNCHANGED <<valid, running, keep, trace, owned, eq, eqAlive, worker, call, began>>

BreakQueue ==
  /\ "break" \in Disruptions
  /\ owned
  /\ valid' = FALSE
  /\ UNCHANGED <<running, tq, keep, trace, owned, eq, eqAlive, worker, call, began>>

(* The destructor: no call on the object is under way.  impl lives on      *)
(* while a hook holds it.                                                  *)
Destroy ==
  /\ "destroy" \in Disruptions
  /\ owned
  /\ \A k \in Tasks : call[k] \notin {"posting", "waiting"}
  /\ valid' = FALSE
  /\ owned' = FALSE
  /\ tq' = IF \E w \in Workers : worker[w].phase = "hook" THEN tq ELSE <<>>
  /\ UNCHANGED <<running, keep, trace, eq, eqAlive, worker, call, began>>

SetKeep(n) ==
  /\ owned /\ valid
  /\ keep' = n
  /\ UNCHANGED <<valid, running, tq, trace, owned, eq, eqAlive, worker, call, began>>

(* event_queue::cancel_all, or cancel, by somebody who shares it.          *)
EqCancelAll ==
  /\ "eq_cancel" \in Disruptions
  /\ eqAlive
  /\ eq' = <<>>
  /\ UNCHANGED <<valid, running, tq, keep, trace, owned, eqAlive, worker, call, began>>

(* The last owner drops the event queue.  A worker in an iteration of its  *)
(* loop is an owner, so all of them are between two or have stopped.       *)
EqDrop ==
  /\ "eq_drop" \in Disruptions
  /\ eqAlive
  /\ \A w \in Workers : worker[w] = Idle
  /\ eqAlive' = FALSE
  /\ eq' = <<>>
  /\ UNCHANGED <<valid, running, tq, keep, trace, owned, worker, call, began>>

-------------------------------------------------------------------------------
WorkerStep(w) ==
  \/ Take(w)
  \/ EndTask(w)
  \/ SkipAfter(w)
  \/ EnterAfter(w)
  \/ After(w)

CallStep(k) ==
  \/ \E d \in Directions : PostInsert(k, d)
  \/ SyncReturn(k)

Next ==
  \/ \E k \in Tasks : PostBegin(k) \/ CallStep(k)
  \/ \E w \in Workers : WorkerStep(w)
  \/ Cancel
  \/ BreakQueue
  \/ Destroy
  \/ \E n \in KeepCounts : SetKeep(n)
  \/ EqCancelAll
  \/ EqDrop

Spec == Init /\ [][Next]_vars

(* Workers run, tasks return and callers that got past the check finish.   *)
Fairness ==
  /\ \A w \in Workers : WF_vars(WorkerStep(w))
  /\ \A k \in Tasks : WF_vars(CallStep(k))

FairSpec == Spec /\ Fairness

-------------------------------------------------------------------------------
(* Properties.                                                             *)

(* The tasks of a queue run one at a time, whoever posts, cancels, breaks  *)
(* or destroys it: from the moment a task is handed to the event queue to  *)
(* the end of its after hook no other task is.                             *)
Serial ==
  /\ Len(eq) <= 1
  /\ \A v, w \in InFlight : v = w
  /\ eq # <<>> => InFlight = {}

(* The hook pops the front of tq without looking: that is the shell of the *)
(* very task that ended, whatever was posted or cancelled since.           *)
HookPopsOwnTask ==
  \A w \in InFlight : worker[w].phase = "hook" =>
    tq # <<>> /\ Head(tq).moved /\ Head(tq).task = worker[w].item.task

(* A live queue with tasks is running, and a running one has a task on its *)
(* way whose hook will hand over the next.                                 *)
Supplied ==
  owned /\ valid /\ eqAlive =>
    /\ running <=> tq # <<>>
    /\ running => eq # <<>> \/ \E w \in InFlight : worker[w].item.after

(* No step makes the queue wait for a hook that nobody calls, except that  *)
(* somebody empties the event queue behind its back.                       *)
NeverStalls == [][Supplied => Supplied' \/ EqCancelAll]_vars

Ids(s) == [j \in DOMAIN s |-> s[j].task]

(* The accepted tasks that have not begun: what is in the event queue,     *)
(* then tq, whose front is only a shell while the queue is running.        *)
Waiting == Ids(eq) \o Ids(IF running THEN SubSeq(tq, 2, Len(tq)) ELSE tq)

Running == {worker[w].item.task : w \in {v \in Workers : worker[v].phase = "task"}}

(* A task queue used without direction is a serial queue: tasks begin in   *)
(* the order of their insertion, each at most once, never two at a time,   *)
(* and what a cancel or a destruction drops is one end of the backlog.     *)
Abstract == INSTANCE SerialQueue WITH
  fresh   <- {k \in Tasks : call[k] \in {"none", "posting"}},
  backlog <- Waiting,
  active  <- IF Running = {} THEN NoTask ELSE CHOOSE k \in Running : TRUE

ImplementsSerial == Abstract!Spec

(* The trace lists tasks in the order they ran, without gaps: the hooks of *)
(* two tasks never push in the wrong order.                                *)
TraceInOrder == \E m, n \in 0..Len(began) : trace = SubSeq(began, m + 1, n)

(* A queued task leaves the queues to run, or because the task queue was   *)
(* cancelled or destroyed or the event queue emptied: posts, hooks and     *)
(* breaks lose nothing.                                                    *)
NothingLost ==
  [][\A k \in Tasks : Queued(k) /\ ~Queued(k)' =>
       k \in ToSet(began') \/ Cancel \/ ~owned' \/ EqCancelAll \/ EqDrop]_vars

(* The queue is broken or destroyed, the event queue is gone, or somebody  *)
(* has emptied it, so that no hook is on its way.                          *)
Cut ==
  \/ ~(owned /\ valid /\ eqAlive)
  \/ running /\ eq = <<>> /\ InFlight = {}

(* A posted task begins, unless it is cancelled before, or the chain cut.  *)
EveryTaskRuns ==
  \A k \in Tasks : call[k] = "posting" ~>
    k \in ToSet(began) \/ (call[k] # "posting" /\ ~Held(k)) \/ Cut

(* A caller of sync_task gets its answer, unless the chain is cut.         *)
SyncReturns == \A k \in Syncs : call[k] = "waiting" ~> call[k] = "done" \/ Cut

(* A caller of sync_task returns after its task has run and its hook is    *)
(* over, unless the task was dropped before it began.                      *)
SyncSeesEnd ==
  \A k \in Syncs : call[k] = "done" =>
    k \notin {worker[w].item.task : w \in InFlight} \cup ToSet(Waiting)

(* The comment on the destructor: it blocks until all tasks are done.      *)
DestroyWaits == [][owned /\ ~owned' => Waiting = <<>> /\ Running = {}]_vars

===============================================================================
