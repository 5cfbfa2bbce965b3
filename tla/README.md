# libtq in TLA+

libtq (`src/`) is a C++ library of serial task queues that share a group of
worker threads. This directory holds TLA+ models of its parts, the TLC
configurations that check them on small instances, and proofs, checked by
TLAPS, of the properties that matter most for every value of the constants.
Paths below are relative to the repository's `src/src/`.

## The system

| component | state | operations | talks to |
|---|---|---|---|
| `event_queue` (task_event_queue.h) | one list of items per priority, their count, the waiting threads with their priorities, an alive flag; one mutex, one condition variable | `wait`, `wait_for`, `emplace_back/front`, `cancel`, `cancel_all`, `break_waiter`, `break_queue` (destructor) | workers wait on it, task queues put tasks into it |
| `task_queue` (task_queue.cc) | the list of tasks, `valid`, `running`, the trace, weak pointers to an event queue and a worker group | `post_task` (tail or head), `sync_task`, `cancel`, `break_queue`, destructor, `set_recent_trace_keep_count` | hands one task at a time to the event queue; the *after hook* of that task, called by a worker, hands over the next |
| `thread`, `worker` (task_thread\*.cc, task_worker.cc) | `validate_`, `thread_id_`, current and configured priority, `running_lock_` | `start`, `main`, `stop`, destructor | waits on the event queue, runs tasks and hooks |
| `worker_group` (task_worker_group.cc) | the list of workers under `worker_lock_` | `increase_worker`, `decrease_worker`, `size`, `in_worker_group` | creates and destroys workers; `sync_task` asks it |
| `task_queue_manager` | the global event queue and group | `adjust_default_worker_count`, factories | worker_group, task_queue |
| `timer` (task_timer.cc) | the thread of all timers, its priority queue of jobs, a flag per timer | `start`, `stop`, `once_after`, `cancel_once` | posts to the head of task queues |
| `rwlock` (task_rwlock.cc) | counts of readers and writers, a writing flag; one mutex, two condition variables | `lock`, `unlock`, `lock_shared`, `unlock_shared`, `try_lock`, `try_lock_shared` | used by rawptr_protector when the language standard is below C++17 (`CMakeLists.txt` sets 14) |
| `rawptr_protector` (task_threadsafe.h) | a flag "the object lives" under an rwlock | `lock`, `destroy_protection` | wraps tasks posted to task queues |

What is hard here: several threads sleep on one condition variable with
different priorities and pass items on to each other; a task moves through
three places and leaves a moved-from shell behind; `valid` and `validate_` are
read without locks; and objects are destroyed while threads use them.
`PROJECT.json` lists these hazards with their lines ("hazards").

What makes each component correct:

* event_queue: an item goes to one thread or is dropped, the count agrees with
  the lists, and no item waits while a thread that would take it sleeps.
* task_queue: one task at a time, in the order posted, none lost; `sync_task`
  returns, and not before its task is over.
* worker: `start` and `stop` return, nothing runs after `stop`, and the thread
  does not outlive the members it uses.
* worker_group: it grows and shrinks while tasks ask about it, without deadlock.
* timer: jobs fire in order and at their time, a cancelled or stopped job does
  not fire again.
* rwlock: exclusion, no lost wake-up, writers are not starved.
* rawptr_protector: a wrapped task never sees a destroyed object.

## The modules

| module | what it is |
|---|---|
| `EventQueue` | event_queue. One action is one critical section: a call up to where it sleeps or returns, or one wake-up up to where the thread sleeps again or returns. |
| `ItemPool` | what event_queue promises: a pool of items, each taken once or dropped. |
| `TaskQueue` | task_queue with the worker loop and the part of the event queue it uses. The unlocked checks of `valid` are steps of their own. |
| `SerialQueue` | what task_queue promises: a backlog whose tasks run one at a time in order, and may be discarded from either end. |
| `Worker` | thread and worker: the life of each system thread against one owner that calls `start`, `stop` and the destructor. |
| `WorkerService` | what worker promises: between start and stop it runs tasks one at a time; a stop under way begins none and is over when none runs. |
| `WorkerGroup` | worker_group, `adjust_default_worker_count` and `sync_task` called by a task: managers and tasks that grow, shrink and question the group. Queues are used as `SerialQueue`, workers as `WorkerService` lets them be. |
| `Timer` | the timer thread, its queue and its sleep, against `start`, `stop`, `once_after`, `cancel_once` and the end of the program. |
| `TimerIds` | the ids of jobs, drawn from a counter that no lock guards. |
| `RWLock` | rwlock. |
| `SharedLock` | what rwlock promises: readers together or a writer alone, and no new reader while a writer waits. |
| `Protector` | weak_protector and rawptr_protector on an instance of `RWLock`: jobs posted with each operator of `task_helper` against the destruction of the object they are about. |
| `MCEventQueue`, `MCTimer`, `MCWorkerGroup`, `MCProtector` | instances for TLC: symmetry, or the values of constants that are functions. The other modules are checked directly. |
| `EventQueueProofs`, `TaskQueueProofs`, `WorkerProofs`, `WorkerGroupProofs`, `TimerProofs`, `TimerIdsProofs`, `RWLockProofs`, `ProtectorProofs` | the theorems. |

State variables carry the names of the members they model, where TLA+ allows.
`PROJECT.json` maps every definition to the lines it stands for. Definitions
called "Mutant of X" are not part of a model: each is a plausible slip in the
code of X, and replacing X by it breaks the property `PROJECT.json` names, which
shows that the property depends on that line.

How they fit together: `EventQueue` implements `ItemPool`, `TaskQueue`
`SerialQueue`, `Worker` `WorkerService` and `RWLock` `SharedLock`. `WorkerGroup`
has a simple worker and a simple queue in place of those modules; that each of
its workers is a `WorkerService`, and each of its queues a `SerialQueue`, is its
property `PartsAsPromised`. So the parts it is made of are those the detailed
modules show, and no more is taken for granted of them than that. `Protector` contains
`RWLock` itself, and theorems say that it only takes steps of it, and of
`SharedLock`.

### Abstractions

* `EventQueue`: adding with priority 0 does nothing in the code and is left
  out; a thread waits with a priority up to the maximum. The 10 ms slices of
  `wait` are `Poll`, which may always happen and is never assumed to. The
  expiry of `wait_for` may happen at any time. A thread that calls `wait` comes
  back with `pred` as `Invalidate` left it.
* `TaskQueue`: the event queue is a single list, since a task queue uses one
  priority. The two reads of `valid` in `sync_task` and `post_task` are one
  step, as are the read and the write of `set_recent_trace_keep_count`. A
  moved-from `std::function` is empty in libstdc++ and MSVC; libc++ may leave a
  small target in place: constant `Kept` lets a run allow both. Callers of
  `sync_task` are outside the worker group here. The flag of `sync_task` is not
  a variable of its own: it is alive while the task it was captured in is
  (`Held`).
* `Worker`: the owner calls one function after the other; the event queue is
  left open, so a waiting thread may get an item of any priority or none. A
  worker never started is not destroyed (its destructor would join through an
  uninitialised handle).
* `WorkerGroup`: a task is its calls: one `sync_task` (`Inner`), one
  `decrease_worker` (`Shrinking`), or neither. A manager makes one call. Starting
  a worker is one step under the lock, since `start` returns with a worker that serves;
  destroying one lasts until its task is over, and a worker that is being
  destroyed may still take one task, as the test of `validate_` and the wait are
  two steps; as a `WorkerService` it therefore serves until it is gone. `grown`
  remembers which workers the group has grown under since they looked at its size.
* `Timer`: time is relative (`left`), in ticks; below `-MaxLate` it is not told
  apart how late a job is, and the thread spends at most `MaxLag` ticks in a
  turn of its loop. `LIBTQ_PICKUP_EST_TIME` is 12 µs, which is no tick (`Early`
  is 0); the shorter sleep of Apple and Windows is `Shortens`. Each call of
  `start` and `once_after` owns the job it makes, which stands for the job's id.
  The post of `fire_now`, a post to the tail like any other, is left out. The
  test of `is_validate()` at the head of the loop is one step with the look at
  the queue that follows it.
* `TimerIds`: time is left out, so any queued job may be taken. The read and the
  write of the counter are two steps; `raced` records that two threads were
  between theirs at once, which is undefined in C++ and here only loses an
  increment.
* `RWLock`: a thread that holds the lock does not ask again, and only holders
  release. A try call that fails changes nothing. With that contract the early
  returns of `unlock` and `unlock_shared` are dead code, which `CountersAgree`
  shows.
* `Protector`: a request of the lock is named after the job that makes it, since
  a job that runs another inside itself (`>>`) asks twice. All jobs may run at
  once, as those of different queues do. `bare` is chosen by the derived class:
  whether its destructor calls `destroy_protection` or leaves that to the base.

## The runs

| run | instance | checks |
|---|---|---|
| `event_queue_safety` | 3 threads, all stoppable, 3 items, 2 priorities, symmetric | `SizeAgrees` `NoMissedWakeup` `SomeoneServes` `PassesToHigher` |
| `event_queue_liveness` | 3 threads, one stoppable, 2 items, 2 priorities | `ImplementsPool` `ItemsLeave` |
| `task_queue` | 4 tasks, one synchronous, 2 workers, every disruption, keep counts 100 and 1, both kinds of moved-from function | `Serial` `HookPopsOwnTask` `TraceInOrder` `SyncSeesEnd` `NeverStalls` `NothingLost` `ImplementsSerial` `EveryTaskRuns` `SyncReturns` |
| `worker` | 3 starts, 3 priorities, the event queue may go | `PriorityFloor` `StartedIsValid` `ImplementsService` `StopReturns` `StartReturns` |
| `worker_group` | up to 3 workers, 2 at first; two managers grow the group by workers of another priority, one adjusts it to 1; two tasks of two queues, each of which calls `sync_task` on the other's queue, and one that shrinks the group | `MembersServe` `PartsAsPromised` `AloneUnlessGrown` `DecreaseReturns` `SyncReturns` `AdjustReturns` |
| `timer` | two starts of one timer, with intervals 2 and 1, and a delayed job of 2; late by up to 2 ticks | `NapCovers` `AtMostOneLate` `PlannedOnGrid` `JobsLeave` `StopEnds` `ExitsAfterShutdown` |
| `timer_ids` | 2 delayed and 2 periodic jobs, 6 ids | `CancelHitsOwn` |
| `rwlock` | 5 threads | `CountersAgree` `NoLostWakeup` `ImplementsSharedLock` `WritersProgress` |
| `protector` | a job with an inner one, two that may destroy the object (one protected with `()`, one not), a thread that may | `WholeInJobs` `DestroyReturns` `JobsReturn` |

Why the bounds are enough. Three items against one higher waiter reach the
second condition of `pick_up_` (more than twice as many items as higher
waiters), two against none the first; three threads allow one to pass an item to
a second while a third is being broken. Four tasks allow one in its hook, one
handed over next and two behind it, which is what a destruction during a hook
needs; with two workers a second one could run concurrently if the queue ever
let it; a keep count of 1 makes the trace full after one task. Three starts let
the threads of two earlier starts still leave while a third enters. With three
workers and two queues these rings occur: two callers of `sync_task` wait for
each other's queue; a caller waits for a task behind another one; callers hold
all the workers that could run what they wait for; a task waits for the end of
its own worker; and others want the lock that is held meanwhile. A task that
calls `sync_task` on its own queue, a ring of one, does not occur in the
instance; the theorems about rings hold of it. The third worker is what lets the
group grow between the test of `sync_task` and the task it runs. Two starts of
one timer share a flag, which is where a stop followed by a start revives the
old chain; the delayed job comes between the two chains. A lateness of 2 makes
the catch-up arithmetic skip an interval of 1, not one of 2: longer intervals
that are skipped are left to the theorem (`PlannedOnGrid` holds for all
intervals and any lateness). Six ids let a periodic
job be queued several times while a delayed one waits or was fired. Five threads
put two writers and two readers to sleep on an rwlock while a fifth barges in.
The theorems below remove the bounds for the safety properties.

Three runs find behaviours of the code that contradict a comment:

| run | what happens |
|---|---|
| `task_queue_head_loses` (`NothingLost`) | A post to the head while a task runs goes before the shell of the running task; the hook pops the new task instead of the shell. Timers post this way. |
| `task_queue_destroy` (`DestroyWaits`) | The destructor does not wait, contrary to its comment. |
| `timer_oversleeps` (`NeverOversleeps`) | The timer thread reads the queue, lets go of the lock and takes it again to wait: a job queued in between notifies nobody, and the thread sleeps past it, although the comment there says that no predicate is needed. `NapCovers` shows that this is the only way to oversleep. |

Liveness with rings. A job that waits for itself never ends, and several
properties are about calls that may do so. They say that a call returns *or* is
caught in a ring of waits, where `Deadlocked` is exact: in `WorkerGroup` a set of
actors that all wait and only for each other, in `Protector` a job that holds
the read lock while the destruction, or a job within it, waits for that lock.
So they claim that these rings are the only way for a call to hang, and the
theorems `DeadlockStays` that the excuse is not used for a passing state: a ring
lasts until a worker is added, and one on the lock for ever.
`EveryTaskRuns` and `SyncReturns` of `TaskQueue` except in the same way queues
that were broken, destroyed or deprived of their event queue (`Cut`).

### Seen while modelling

Behaviours of the code that no run of its own shows, most of them the
exceptions a property has to make:

* `wait` returns nothing, with the queue alive, when it leaves an item to a
  thread of higher priority (`PassesToHigher`); its callers loop.
* `break_queue` refuses new tasks and also strands those accepted: a
  `sync_task` whose task waits behind the one running never returns (`Cut`).
* With a library that leaves a small `std::function` in place when it is moved
  from, the shell of a task that was overtaken by a post to the head may be
  handed over again: the task runs twice. `NoneTwice` shows that this needs a post
  to the head.
* After the keep count is lowered the trace does not shrink, since the hook pops
  at most one entry.
* `stop` does not join: the old thread's last `validate_ = false` may stop the
  thread of the next start, and a later `start` may then poll for ever; hence
  `FirstStart` in `StartedIsValid` and `StartReturns`. With the event queue gone
  `start` may also poll a flag that was set and cleared between two polls.
* The destructor of a worker may take `running_lock_` before a thread that is
  just starting does; the thread then locks a destroyed mutex.
* `sync_task` runs its task inline when the group has one worker; if the group
  grows before it does, other workers run beside it, tasks of the same queue
  included (`AloneUnlessGrown`).
* `decrease_worker` waits under the lock of the group for a task that may want
  that lock, or for the very task that called it.
* `adjust_default_worker_count` loops for ever when the surplus consists of
  workers of another priority, which `decrease_worker` does not remove.
* Once two threads have drawn an id at the same time, `cancel_once` may cancel
  another job.
* `stop` and `start` within an interval leave two chains of jobs (`StopEnds`
  excepts a timer that was started again).
* A protected job that destroys its object, and a job whose inner job comes
  behind a destruction, wait for ever.

### Fairness

* `EventQueue`: a notified thread runs, and a thread nobody stops waits again,
  as the loop of `worker::main` does. Nothing is assumed of timeouts, so
  `ItemsLeave` shows the notifications suffice. The threads wait on a mutex that
  is never held across a sleep, so weak fairness is what an operating system
  gives.
* `TaskQueue`: workers run and tasks return; callers past the check of `valid`
  finish.
* `Worker`: threads run and tasks return, the owner proceeds through its call,
  and a waiting thread that is being stopped notices it within a slice of
  `wait`, which here is needed: `break_waiter` is lost when the thread has not
  registered yet.
* `WorkerGroup`: threads run, and get the lock of the group if it stays free.
  Nobody is assumed to post or to call.
* `Timer`: the thread runs, time passes, and a caller of `start` or
  `once_after` gets to the end of its call. Spurious wake-ups and notifications
  are possible, never needed: `ExitsAfterShutdown` holds although the
  notification of the destructor may be missed.
* `RWLock`: holders release and notified threads run; spurious wake-ups are
  possible, never needed.
* `Protector`: workers take and run jobs, the destroying thread runs, and
  notified threads wake up.

Deadlock is checked for `RWLock`. The other systems may rightly stop: when all
items, tasks or calls of the instance are used up, or the object is destroyed.

## The proofs

Each proof module states an inductive invariant, proves that `Init` implies it
and `Next` preserves it, action by action, and derives the properties from it.
The type invariants are theorems and not repeated in the configurations; so are
`OnePlace` (EventQueue), `IdsUnique` (TimerIds), and what a refinement that is
checked instead says more generally: `Exclusion` and `ReadersHeldBack` (RWLock),
`QuietAfterStop` (Worker), `GoneIsQuiet` (WorkerGroup).

* `EventQueueProofs`, for any finite set of threads, any items and any number of
  priorities: `TypeOK`, `SizeAgrees`, `OnePlace`, `NoMissedWakeup`,
  `SomeoneServes`, `PassesToHigher`, and that `EventQueue` implements
  `ItemPool`. The invariant is the conjunction of the type, the count, the
  places and the wake-ups, with the tie between a thread's entry, its call and
  its priority. `SomeoneServes` follows from it by taking the sleeping thread of
  the highest priority: it either finds items above it that nobody else will
  take, or items at or below it. `PassesToHigher` is about every call that could
  be made in a state, at any priority, and not about calls that were made: one
  that returns at once with nothing may change nothing, so that no action
  property sees it. It follows because a call with no waiter above it is always
  served (`HighestIsServed`), and a waiter that sleeps while an item is queued is
  notified.
* `TaskQueueProofs`, for any tasks, workers and disruptions: `TypeOK` and
  `Serial`, for both directions of posting; and, when nobody posts to the head
  (`Directions \subseteq {0}`), everything else but liveness:
  `HookPopsOwnTask`, `NeverStalls`, `NothingLost`, `SyncSeesEnd`,
  `TraceInOrder`, and that `TaskQueue` implements `SerialQueue`. `Serial` is not
  inductive alone: it needs that the queue is `running` while a task is in
  flight (`FlightRuns`) and that the front of `tq` stays as long as it does
  (`FrontStays`). The others need that the front is the shell of the task in
  flight (`Shell`), which a post to the head breaks, and that what waits or is in
  flight elsewhere (`Pool`) has never been moved from (`Untouched`), since it
  only gets there by a post (`PoolMoves`). `SyncSeesEnd` follows because the call
  that posted what is in the pool has not returned (`Answerable`);
  `TraceInOrder` because the trace is a slice of `began` that ends where the
  finished tasks do, as long as a hook can come (`Listed`). `NoneTwice`, again for
  posts to the tail only, follows because each task is fresh, waits with its
  function, or has begun, and once at most in each (`OnePlace`).
* `WorkerProofs`, for any number of starts and any priorities: `TypeOK`,
  `QuietAfterStop`, `PriorityFloor`, `StartedIsValid`. Nothing runs after stop
  because only a thread that `start` is still waiting for sets `validate_`
  (`OnePending`), so once stop has begun the flag stays false (`StaysInvalid`),
  and because `running_lock_` is held exactly by the thread in `main`
  (`LockHeld`). From the same invariant `Worker` implements `WorkerService`,
  whatever threads of earlier starts are still about: only the holder of
  `running_lock_` can have a task (`OneTask`). `StopBounded` is the safety core of
  `StopReturns`: once stop has dealt with the flag each thread of the worker is
  at most five steps from its end (`Left`), every step brings it nearer, and what
  it may wait for is a thread that is on its way out of `main`. What stays with
  TLC is that threads run and tasks end.
* `WorkerGroupProofs`, for any workers, managers, tasks and queues: `TypeOK`,
  `MembersServe`, `GoneIsQuiet`, `AloneUnlessGrown`. The invariant says who
  holds the lock (`Locked`), which worker is alive or being destroyed, and by
  whom (`Lives`), and that a worker without a task is idle (`Busy`). `Alone`
  strengthens the last property from the inline task back to the test of the
  size.
  - `PartsAsPromised`: step by step for the workers; for the queues with the
    invariant `Once` that a task is waiting, under way or done, in one place
    only, and `InnerFresh` that a task which `sync_task` will run or post is none
    of these yet.
  - `DeadlockStays`: a ring (a set of actors that all wait, and only for each
    other) stays one under every step that adds no worker. The first definition of
    `Deadlocked` was not preserved: it also held of an actor that waits for a
    lock somebody is about to release. The failed proof showed it, the
    definition in the module is the one that is preserved, and with it the
    liveness properties claim more than they did.
  - `PlainTasksNeverDeadlock`: without `sync_task` and `decrease_worker` in
    tasks there is never a ring, whatever the managers do.
    `LayeredSyncNeverDeadlocks`: with `sync_task` there is none if the group is not
    shrunk, the tasks it runs are of queues whose tasks do not call it, and
    there are more workers than queues whose tasks do. Under these disciplines
    the exception in `DecreaseReturns` and `SyncReturns` is empty, and they say that
    the calls return.
  - `AdjustCorrect`: a single `adjust_default_worker_count` that returns leaves
    the number of workers it was asked for.
* `TimerProofs`, for any calls, timers, intervals and bounds: `TypeOK`,
  `NapCovers`, `AtMostOneLate`, `PlannedOnGrid`. What the thread read of the
  queue stays good but for the time it took and the jobs it missed
  (`ReadCovers`, `SleepCovers`); a running timer has posted nothing late
  (`Lates`); the catch-up arithmetic gives the first multiple of the interval
  after now for all integers (`NextFireGrid`).
* `TimerIdsProofs`, for any jobs and any bound of the counter: `TypeOK`,
  `IdsUnique`, `CancelHitsOwn`. Until threads race, at most one is between its
  two uses of the counter, and has read what it still holds (`OneDraws`).
* `RWLockProofs`, for any finite set of threads: `TypeOK`, `Exclusion`,
  `CountersAgree`, `NoLostWakeup`, `ReadersHeldBack`, and that `RWLock` implements
  `SharedLock`. `TypeOK` and the first three are inductive together: the counters
  tie the conditions the threads sleep on to who holds the lock.
* `ProtectorProofs`, for any finite set of jobs: `TypeOK`, `WholeInJobs`, and
  `LockKept`, that the lock in `Protector` only takes steps of `RWLock`, so that
  the theorems of `RWLockProofs` hold of it, the refinement of `SharedLock`
  (`LockImplemented`) among them. A job that works on the object holds
  the lock for reading and has seen the flag (`JobLock`, `SeenFlag`); the flag
  falls under the lock for writing, and before the object does (`FlagFirst`).
  `DeadlockStays`: a ring of the lock is for ever, since its job keeps the lock
  for reading and nobody else can release it. `PlainJobsNeverDeadlock`: there is
  none where protected jobs do not run others inside themselves (`>>`) and only
  unprotected ones destroy the object; `DestroyReturns` and `JobsReturn` then
  hold without exception.

The assumptions are the named `ASSUME`s of the modules: types and finiteness of
the constants, that a task calls `sync_task` one level deep, and that no two
tasks run the same task by it (each call makes a task of its own). A theorem
that needs more says so in its own `ASSUME`.

Only model-checked are the liveness properties (`ItemsLeave`, `EveryTaskRuns`,
`SyncReturns`, `WritersProgress`, `StopReturns`, `StartReturns`,
`DecreaseReturns`, `AdjustReturns`, `JobsLeave`, `StopEnds`,
`ExitsAfterShutdown`, `DestroyReturns`, `JobsReturn`): they depend on fairness,
which is out of the prover's reach. `StopBounded` and the theorems about rings
prove what in some of them is safety.

## Not modelled

* The Windows thread file: the same state machine over another API; a second
  model would repeat `Worker`.
* Of `thread`: `detach`, which nothing in the library calls, a `pthread_create`
  that fails, and what the priority becomes in the scheduler.
* The memory of an event_queue that is being destroyed: the destructor frees the
  mutex while the last waiter may still hold it. That is undefined at once,
  whatever follows. In the same way the members of the timer thread (`cv_`,
  `cv_l_`, `pq_`) are destroyed after the body of its destructor, before the
  base class joins the thread that may still use them; `Timer` lets them stay.
* The destruction of a `worker_group`. Its destructor is empty: whoever drops the
  last reference destroys the workers one by one, without `worker_lock_`. A task
  that drops it, as the one in `sync_task` may, would wait for its own worker,
  as `decrease_worker` of it does in the model.
* `sync_task` nested more than once, and groups or queues that tasks create.
* The `POST_TASK` macros, which name a namespace that does not exist; type
  definitions, tests and build files, which have no behaviour of their own.
