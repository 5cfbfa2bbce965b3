------------------------------ MODULE EventQueue ------------------------------
(***************************************************************************)
(* event_queue<_Ty, max_priority> (src/src/task_event_queue.h): a blocking *)
(* queue with one list of items per priority, shared by the threads that   *)
(* wait on it.                                                             *)
(*                                                                         *)
(* Every member function runs under the mutex l_ from its first access to  *)
(* the state to its return, except while it sleeps on cv_.  An action      *)
(* below is therefore one critical section: a call up to the point where   *)
(* it sleeps or returns, or one wake-up of a sleeping thread up to the     *)
(* point where it sleeps again or returns.                                 *)
(***************************************************************************)
EXTENDS Integers, Sequences, FiniteSets, FiniteSetsExt, SequencesExt

CONSTANTS
  Threads,      \* the threads that wait on the queue
  Items,        \* the items ever added
  MaxPriority,  \* template argument max_priority
  Stoppable     \* the threads some other thread stops (worker::stop)

ASSUME PriorityAssumption == MaxPriority \in Nat \ {0}
ASSUME ThreadsAssumption ==
  /\ IsFiniteSet(Threads)
  /\ Stoppable \subseteq Threads
  /\ Threads \cap {"unborn", "queued", "gone"} = {}

Prios == 1..MaxPriority

NoEntry == -1   \* the thread has no entry in pending_threads_

VARIABLES
  st,        \* st_: the queue accepts and delivers items
  il,        \* il_: the list of each priority
  is,        \* is_: the item count
  pending,   \* pending_threads_: the entry of each thread, 0 = broken
  call,      \* the call the thread sleeps in
  prio,      \* the priority argument of that call
  notified,  \* the thread was notified on cv_ since it last went to sleep
  pred,      \* what the pred argument answers (worker: !is_validate())
  where      \* who owns the item: nobody yet, the queue, a thread, nobody more

vars == <<st, il, is, pending, call, prio, notified, pred, where>>
threadVars == <<call, prio, pred>>

Calls == {"none", "wait", "wait_for"}

TypeOK ==
  /\ st \in BOOLEAN
  /\ il \in [Prios -> Seq(Items)]
  /\ is \in Nat
  /\ pending \in [Threads -> NoEntry..MaxPriority]
  /\ call \in [Threads -> Calls]
  /\ prio \in [Threads -> 0..MaxPriority]
  /\ notified \in [Threads -> BOOLEAN]
  /\ pred \in [Threads -> BOOLEAN]
  /\ where \in [Items -> {"unborn", "queued", "gone"} \cup Threads]

Init ==
  /\ st = TRUE
  /\ il = [p \in Prios |-> <<>>]
  /\ is = 0
  /\ pending = [t \in Threads |-> NoEntry]
  /\ call = [t \in Threads |-> "none"]
  /\ prio = [t \in Threads |-> 0]
  /\ notified = [t \in Threads |-> FALSE]
  /\ pred = [t \in Threads |-> FALSE]
  /\ where = [i \in Items |-> "unborn"]

-------------------------------------------------------------------------------
(* pick_up_: which list a thread is served from.                           *)

(* The places of the lists of the priorities in S; |Slots(S)| is the sum   *)
(* of their sizes.                                                         *)
Slots(S) == UNION {{p} \X (1..Len(il[p])) : p \in S}

(* The items in the lists.                                                 *)
Queued == UNION {ToSet(il[p]) : p \in Prios}

NonEmpty(S) == {p \in S : il[p] # <<>>}

Above(p) == (p + 1)..MaxPriority

(* Mutants of HigherWaiters: the comparison off by one, or missing.        *)
WaitersFrom(t, p) == {u \in Threads \ {t} : pending[u] >= p}
AllWaiters(t, p)  == {u \in Threads \ {t} : pending[u] # NoEntry}

(* The threads other than t registered with a priority above p: t has      *)
(* erased its own entry before pick_up_ counts them.                       *)
HigherWaiters(t, p) == {u \in Threads \ {t} : pending[u] > p}

(* Nobody above will take the items above p, or there are too many of them *)
(* for the threads above.                                                  *)
ServesHigher(t, p) ==
  LET items   == Cardinality(Slots(Above(p)))
      waiters == Cardinality(HigherWaiters(t, p))
  IN  \/ items > 0 /\ waiters = 0
      \/ items > waiters * 2

(* The priorities a thread t waiting at p may be served from; it gets the  *)
(* highest of them, or nothing if there is none.                           *)
Candidates(t, p) == NonEmpty(IF ServesHigher(t, p) THEN Above(p) ELSE 1..p)

(* Thread t is left without an item, whatever is queued.                   *)
Declines(t, p) == Candidates(t, p) = {}

PickUp(t, p) ==
  \/ /\ Declines(t, p)
     /\ UNCHANGED <<il, is, where>>
  \/ /\ ~Declines(t, p)
     /\ LET q == Max(Candidates(t, p))
        IN  /\ where' = [where EXCEPT ![Head(il[q])] = t]
            /\ il' = [il EXCEPT ![q] = Tail(@)]
     /\ is' = is - 1

-------------------------------------------------------------------------------
(* wait and wait_for.                                                      *)

(* The predicate both calls sleep on, for a thread whose entry is tp.      *)
Awake(t, tp) ==
  \/ tp # 0 /\ is > 0
  \/ tp = 0
  \/ ~st
  \/ pred[t]

(* What follows the sleep, up to the return.  The entry is erased; then    *)
(* the thread leaves with nothing if the queue or the thread was broken,   *)
(* the thread is being stopped or no item is queued.  Otherwise it picks.  *)
Leave(t, p, tp) ==
  /\ pending' = [pending EXCEPT ![t] = NoEntry]
  /\ call' = [call EXCEPT ![t] = "none"]
  /\ prio' = [prio EXCEPT ![t] = 0]
  /\ notified' = [notified EXCEPT ![t] = FALSE]
  /\ UNCHANGED <<st, pred>>
  /\ \/ /\ ~st \/ tp = 0 \/ pred[t] \/ is = 0
        /\ UNCHANGED <<il, is, where>>
     \/ /\ st /\ tp # 0 /\ ~pred[t] /\ is # 0
        /\ PickUp(t, p)

(* The call: register, then return at once or go to sleep.                 *)
Wait(t, p, c) ==
  /\ call[t] = "none"
  /\ \/ /\ Awake(t, p)
        /\ Leave(t, p, p)
     \/ /\ ~Awake(t, p)
        /\ pending' = [pending EXCEPT ![t] = p]
        /\ call' = [call EXCEPT ![t] = c]
        /\ prio' = [prio EXCEPT ![t] = p]
        /\ notified' = [notified EXCEPT ![t] = FALSE]
        /\ UNCHANGED <<st, il, is, pred, where>>

(* A sleeping thread evaluates the predicate again.                        *)
Resume(t) ==
  \/ /\ Awake(t, pending[t])
     /\ Leave(t, prio[t], pending[t])
  \/ /\ ~Awake(t, pending[t])
     /\ notified' = [notified EXCEPT ![t] = FALSE]
     /\ UNCHANGED <<st, il, is, pending, where, threadVars>>

(* It does so after a notification ...                                     *)
Wake(t) ==
  /\ call[t] # "none"
  /\ notified[t]
  /\ Resume(t)

(* ... or without one: the 10 ms slice of wait is over, or the wake-up is  *)
(* spurious.                                                               *)
Poll(t) ==
  /\ call[t] # "none"
  /\ ~notified[t]
  /\ Resume(t)

(* The timeout of wait_for: the predicate is evaluated one last time and   *)
(* the thread leaves either way.  With the predicate false nothing is      *)
(* queued, so the test of is_ already covers the test of the timeout flag. *)
TimeOut(t) ==
  /\ call[t] = "wait_for"
  /\ Leave(t, prio[t], pending[t])

-------------------------------------------------------------------------------
(* The calls that change what the threads wait for.                        *)

Sleeping == {t \in Threads : call[t] # "none"}

(* Mutant of NotifyAll: notify_one.                                        *)
NotifyOne ==
  \/ Sleeping = {} /\ UNCHANGED notified
  \/ \E t \in Sleeping : notified' = [notified EXCEPT ![t] = TRUE]

NotifyAll == notified' = [t \in Threads |-> notified[t] \/ t \in Sleeping]

(* A broken queue destroys the item instead of taking it.                  *)
Refuse(i) ==
  /\ ~st
  /\ where' = [where EXCEPT ![i] = "gone"]
  /\ UNCHANGED <<st, il, is, pending, notified, threadVars>>

EmplaceBack(i, p) ==
  /\ where[i] = "unborn"
  /\ \/ Refuse(i)
     \/ /\ st
        /\ il' = [il EXCEPT ![p] = Append(@, i)]
        /\ is' = is + 1
        /\ where' = [where EXCEPT ![i] = "queued"]
        /\ NotifyAll
        /\ UNCHANGED <<st, pending, threadVars>>

EmplaceFront(i, p) ==
  /\ where[i] = "unborn"
  /\ \/ Refuse(i)
     \/ /\ st
        /\ il' = [il EXCEPT ![p] = <<i>> \o @]
        /\ is' = is + 1
        /\ where' = [where EXCEPT ![i] = "queued"]
        /\ NotifyAll
        /\ UNCHANGED <<st, pending, threadVars>>

(* Mutant of DropAll: the reset of is_ missing.                            *)
DropKeepingCount ==
  /\ il' = [p \in Prios |-> <<>>]
  /\ is' = is
  /\ where' = [i \in Items |-> IF where[i] = "queued" THEN "gone" ELSE where[i]]

(* Destroys every queued item; nobody is notified.                         *)
DropAll ==
  /\ il' = [p \in Prios |-> <<>>]
  /\ is' = 0
  /\ where' = [i \in Items |-> IF where[i] = "queued" THEN "gone" ELSE where[i]]

CancelAll ==
  /\ DropAll
  /\ UNCHANGED <<st, pending, notified, threadVars>>

(* cancel: the weak pointer still locks while the queue or a thread owns   *)
(* the item, but only an item found in a list is erased.                   *)
Cancel(i) ==
  \E p \in Prios : \E k \in 1..Len(il[p]) :
    /\ il[p][k] = i
    /\ il' = [il EXCEPT ![p] = RemoveAt(@, k)]
    /\ is' = is - 1
    /\ where' = [where EXCEPT ![i] = "gone"]
    /\ UNCHANGED <<st, pending, notified, threadVars>>

(* Only a registered thread can be broken; otherwise the call is lost.     *)
BreakWaiter(t) ==
  /\ pending[t] # NoEntry
  /\ pending' = [pending EXCEPT ![t] = 0]
  /\ NotifyAll
  /\ UNCHANGED <<st, il, is, where, threadVars>>

(* Mutant of BreakQueue: the items stay.                                   *)
BreakKeepingItems ==
  /\ st' = FALSE
  /\ NotifyAll
  /\ UNCHANGED <<il, is, pending, where, threadVars>>

(* break_queue, which only the destructor calls.                           *)
BreakQueue ==
  /\ st' = FALSE
  /\ DropAll
  /\ NotifyAll
  /\ UNCHANGED <<pending, threadVars>>

(* thread::invalidate_: from now on the pred a worker passes to wait is    *)
(* true.  It takes no lock and notifies nobody.                            *)
Invalidate(t) ==
  /\ ~pred[t]
  /\ pred' = [pred EXCEPT ![t] = TRUE]
  /\ UNCHANGED <<st, il, is, pending, call, prio, notified, where>>

-------------------------------------------------------------------------------
ThreadStep(t) ==
  \/ \E p \in 0..MaxPriority, c \in {"wait", "wait_for"} : Wait(t, p, c)
  \/ Wake(t)
  \/ Poll(t)
  \/ TimeOut(t)

Next ==
  \/ \E t \in Threads : ThreadStep(t)
  \/ \E i \in Items, p \in Prios : EmplaceBack(i, p) \/ EmplaceFront(i, p)
  \/ CancelAll
  \/ \E i \in Items : Cancel(i)
  \/ \E t \in Stoppable : BreakWaiter(t) \/ Invalidate(t)
  \/ BreakQueue

Spec == Init /\ [][Next]_vars

(* A notified thread runs.  A thread nobody stops waits again, as the loop *)
(* of worker::main does.  Nothing is assumed of the 10 ms slices.          *)
Fairness ==
  /\ \A t \in Threads : WF_vars(Wake(t))
  /\ \A t \in Threads \ Stoppable :
       WF_vars(\E p \in Prios : Wait(t, p, "wait"))

FairSpec == Spec /\ Fairness

-------------------------------------------------------------------------------
(* Properties.                                                             *)

(* is_ is the number of queued items.  Every call keeps the two in step by *)
(* hand (++is_, --is_, is_ -= 1, is_ = 0); were is_ larger, a thread would *)
(* spin on an empty queue or pick_up_ would take the front of an empty     *)
(* list, were it smaller, an item would never wake anybody.                *)
SizeAgrees == is = Cardinality(Slots(Prios))

(* An item is in a list exactly while the queue owns it, and then at one   *)
(* place.  So no item is delivered twice, and none that a cancel,          *)
(* cancel_all or break_queue dropped is delivered later.                   *)
OnePlace ==
  /\ \A i \in Items : where[i] = "queued" <=> i \in Queued
  /\ \A p, q \in Prios : \A j \in 1..Len(il[p]), k \in 1..Len(il[q]) :
       il[p][j] = il[q][k] => p = q /\ j = k

(* A sleeping thread that nobody notified has nothing to do: the queue is  *)
(* alive, its entry is not broken and no item is queued.  Every call that  *)
(* changes one of the three must notify, so the 10 ms slices of wait are   *)
(* never needed to deliver an item or a break.                             *)
NoMissedWakeup ==
  \A t \in Sleeping : ~notified[t] => st /\ pending[t] # 0 /\ is = 0

(* With items queued and threads asleep, some sleeping thread is notified  *)
(* and, when it runs, takes an item or leaves because it is being stopped. *)
(* The threads may pass items on to each other (pick_up_ returns nullptr   *)
(* for the sake of a higher thread), but never all of them at once.        *)
SomeoneServes ==
  (is > 0 /\ Sleeping # {}) =>
    \E t \in Sleeping :
      /\ notified[t]
      /\ pred[t] \/ pending[t] = 0 \/ ~Declines(t, prio[t])

(* pick_up_ returns nullptr with items queued only for the sake of another *)
(* thread that waits with a priority above the caller's and is notified,   *)
(* so that it is about to look at them.  Whoever calls or wakes up, at     *)
(* whatever priority p and however often in a row, it declines the items   *)
(* only in such a state, and its step leaves the other thread alone.       *)
PassesToHigher ==
  \A t \in Threads, p \in 0..MaxPriority :
    (is > 0 /\ Declines(t, p)) =>
      \E u \in Threads \ {t} : pending[u] > p /\ notified[u]

(* No queued item is left behind while a thread keeps waiting.             *)
ItemsLeave == \A i \in Items : where[i] = "queued" ~> where[i] # "queued"

(* The queue implements a pool of items: whatever the order of the lists   *)
(* and whoever is notified, each item goes to one thread or is dropped,    *)
(* and a thread takes nothing from a broken queue.                         *)
Pool == INSTANCE ItemPool WITH
  open  <- st,
  fresh <- {i \in Items : where[i] = "unborn"},
  pool  <- Queued,
  got   <- [t \in Threads |-> {i \in Items : where[i] = t}]

ImplementsPool == Pool!Spec

===============================================================================
