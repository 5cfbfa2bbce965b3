--------------------------------- MODULE Timer --------------------------------
(***************************************************************************)
(* timer (src/src/task_timer.cc): periodic and delayed jobs.               *)
(*                                                                         *)
(* One thread, timer_inner_worker, serves all timers.  A job waits in its  *)
(* priority queue until it is due; a periodic job computes its next time   *)
(* and is queued again each time it fires.  Each call of timer::start and  *)
(* of once_after owns at most one job, so a job is named by its call.      *)
(*                                                                         *)
(* Time is relative: left[c] is the time from now to the fire time of the  *)
(* job of c, and Tick lowers it.  It is negative for a job that is late,   *)
(* and no lower than -MaxLate, which stands for everything beyond.         *)
(*                                                                         *)
(* The queue and the sleep of the thread are guarded by cv_l_, the flags   *)
(* of the timers and validate_ by nothing.  Job ids are in TimerIds: here  *)
(* the id of a job is unique, that is, its call.                           *)
(***************************************************************************)
EXTENDS Integers, FiniteSets

CONSTANTS
  Starts,   \* the calls of timer::start
  Onces,    \* the calls of timer::once_after
  Timers,
  TimerOf,  \* the timer each start is called on
  Period,   \* the interval of a start, the delay of a once_after
  NoCall,
  Early,    \* LIBTQ_PICKUP_EST_TIME: how much too early a job may fire
  Slice,    \* how long the thread sleeps when the queue is empty
  Shortens, \* whether the platform sleeps less than it is asked to
  MaxLate,  \* bound: the lateness told apart
  MaxLag    \* bound: the ticks the thread takes for a turn of its loop

Calls == Starts \cup Onces

ASSUME CallsAssumption ==
  /\ Starts \cap Onces = {}
  /\ NoCall \notin Calls
  /\ TimerOf \in [Starts -> Timers]
ASSUME TimesAssumption ==
  /\ Period \in [Calls -> Nat \ {0}]
  /\ Early \in Nat
  /\ Slice \in Nat \ {0}
  /\ Shortens \in BOOLEAN
  /\ MaxLate \in Nat \ {0}
  /\ MaxLag \in Nat

VARIABLES
  valid,    \* validate_ of the timer thread
  status,   \* *status_ of each timer
  job,      \* where the job of each call is
  left,     \* the time until it is due
  pc,       \* what the timer thread does
  cur,      \* the job it holds
  nap,      \* how long it will sleep, or still sleeps
  woken,    \* it has been notified since it fell asleep
  lag,      \* the ticks in this turn of its loop
  drift,    \* the ticks between its reading of the queue and its sleep
  missed,   \* the jobs queued between the two
  late      \* the posts of a timer since it was stopped

calls  == <<status, job, left>>
thread == <<pc, cur, nap, woken, lag, drift, missed>>
vars   == <<valid, calls, thread, late>>

(* adding: the fire time is known, the job not yet in the queue;  held:    *)
(* the timer thread has taken it out;  over: it fired for the last time,   *)
(* its timer was stopped or it was cancelled.                              *)
Places == {"none", "adding", "queued", "held", "over"}

TypeOK ==
  /\ valid \in BOOLEAN
  /\ status \in [Timers -> BOOLEAN]
  /\ job \in [Calls -> Places]
  /\ left \in [Calls -> Int]
  /\ pc \in {"loop", "fire", "post", "plan", "add", "wait", "sleep", "exit"}
  /\ cur \in Calls \cup {NoCall}
  /\ nap \in Int
  /\ woken \in BOOLEAN
  /\ lag \in Nat
  /\ drift \in Nat
  /\ missed \subseteq Calls
  /\ late \in [Timers -> Nat]

Init ==
  /\ valid = TRUE
  /\ status \in [Timers -> BOOLEAN]
  /\ job = [c \in Calls |-> "none"]
  /\ left = [c \in Calls |-> 0]
  /\ pc = "loop"
  /\ cur = NoCall
  /\ nap = 0
  /\ woken = FALSE
  /\ lag = 0
  /\ drift = 0
  /\ missed = {}
  /\ late = [t \in Timers |-> 0]

Queue == {c \in Calls : job[c] = "queued"}

-------------------------------------------------------------------------------
(* add_next_job.                                                           *)

(* Mutant of Insert: nobody is notified.                                   *)
InsertQuietly(c) ==
  /\ job[c] = "adding"
  /\ job' = [job EXCEPT ![c] = "queued"]
  /\ missed' = IF pc = "wait" THEN missed \cup {c} ELSE missed
  /\ UNCHANGED <<valid, status, left, nap, woken, drift, late>>

(* The job is queued and the thread notified.                              *)
Insert(c) ==
  /\ job[c] = "adding"
  /\ job' = [job EXCEPT ![c] = "queued"]
  /\ woken' = (woken \/ pc = "sleep")
  /\ missed' = IF pc = "wait" THEN missed \cup {c} ELSE missed
  /\ UNCHANGED <<valid, status, left, nap, drift, late>>

-------------------------------------------------------------------------------
(* The callers.                                                            *)

(* timer::start up to the counter.  The post of fire_now is left out.      *)
StartCall(c) ==
  /\ job[c] = "none"
  /\ job' = [job EXCEPT ![c] = "adding"]
  /\ left' = [left EXCEPT ![c] = Period[c]]
  /\ status' = [status EXCEPT ![TimerOf[c]] = TRUE]
  /\ late' = [late EXCEPT ![TimerOf[c]] = 0]
  /\ UNCHANGED <<valid, thread>>

Stop(t) ==
  /\ status[t]
  /\ status' = [status EXCEPT ![t] = FALSE]
  /\ UNCHANGED <<valid, job, left, thread, late>>

OnceCall(c) ==
  /\ job[c] = "none"
  /\ job' = [job EXCEPT ![c] = "adding"]
  /\ left' = [left EXCEPT ![c] = Period[c]]
  /\ UNCHANGED <<valid, status, thread, late>>

(* A caller of start or once_after returns: the timer thread adds its own. *)
CallInsert(c) ==
  /\ c # cur
  /\ Insert(c)
  /\ UNCHANGED <<pc, cur, lag>>

(* cancel_once of a job that still waits.                                  *)
CancelOnce(c) ==
  /\ job[c] = "queued"
  /\ job' = [job EXCEPT ![c] = "over"]
  /\ left' = [left EXCEPT ![c] = 0]
  /\ missed' = missed \ {c}
  /\ UNCHANGED <<valid, status, pc, cur, nap, woken, lag,
                 drift, late>>

-------------------------------------------------------------------------------
(* The timer thread.                                                       *)

(* lag starts again with each look at the queue and each sleep.            *)
Step(from, to) ==
  /\ pc = from
  /\ pc' = to
  /\ lag' = IF from \in {"loop", "wait"} THEN 0 ELSE lag

(* Timed out, or so near that a sleep would not pay.                       *)
Due(c) == left[c] <= Early

(* Mutant of IsTop: the comparison of the heap turned round.               *)
IsTopLast(c) == c \in Queue /\ \A d \in Queue : left[c] >= left[d]

(* pq_.top(): a job with the least fire time.                              *)
IsTop(c) == c \in Queue /\ \A d \in Queue : left[c] <= left[d]

(* The head of the loop and get_top_fire_job: a due job is popped,         *)
Take(c) ==
  /\ Step("loop", "fire")
  /\ valid
  /\ IsTop(c) /\ Due(c)
  /\ job' = [job EXCEPT ![c] = "held"]
  /\ cur' = c
  /\ UNCHANGED <<valid, status, left, nap, woken, drift, missed,
                 late>>

(* Mutant of Look: the loop does not ask whether it is valid.              *)
LookAnyway ==
  /\ Step("loop", "wait")
  /\ \/ \E c \in Calls : IsTop(c) /\ ~Due(c) /\ nap' = left[c]
     \/ Queue = {} /\ nap' = Slice
  /\ missed' = {}
  /\ UNCHANGED <<valid, calls, cur, woken, drift, late>>

(* or the time until the next one is due is returned,                      *)
Look ==
  /\ Step("loop", "wait")
  /\ valid
  /\ \/ \E c \in Calls : IsTop(c) /\ ~Due(c) /\ nap' = left[c]
     \/ Queue = {} /\ nap' = Slice
  /\ missed' = {}
  /\ UNCHANGED <<valid, calls, cur, woken, drift, late>>

(* or the loop ends.                                                       *)
Exit ==
  /\ Step("loop", "exit")
  /\ ~valid
  /\ UNCHANGED <<valid, calls, cur, nap, woken, drift, missed, late>>

(* How long wait_for sleeps: on Apple and Windows less than the time that  *)
(* is left, or not at all.                                                 *)
Naps == IF Shortens THEN 0..nap ELSE {nap}

Sleep ==
  /\ Step("wait", "sleep")
  /\ nap' \in Naps
  /\ woken' = FALSE
  /\ drift' = lag
  /\ UNCHANGED <<valid, calls, cur, missed, late>>

(* wait_for returns: notified, timed out, or for no reason.                *)
Rise ==
  /\ Step("sleep", "loop")
  /\ nap' = 0
  /\ woken' = FALSE
  /\ drift' = 0
  /\ missed' = {}
  /\ UNCHANGED <<valid, calls, cur, late>>

Wake == (woken \/ nap <= 0) /\ Rise

Spurious == ~woken /\ nap > 0 /\ Rise

(* A job leaves the thread for good.                                       *)
Finish(from, c) ==
  /\ Step(from, "loop")
  /\ cur = c
  /\ cur' = NoCall
  /\ job' = [job EXCEPT ![c] = "over"]
  /\ left' = [left EXCEPT ![c] = 0]
  /\ UNCHANGED <<valid, status, nap, woken, drift, missed>>

(* The job of a once_after: it is posted if the queue still exists.        *)
FireOnce(c) ==
  /\ Finish("fire", c)
  /\ UNCHANGED late

(* fire_job_wrapper: the check of the flag,                                *)
FireStopped(c) ==
  /\ ~status[TimerOf[c]]
  /\ Finish("fire", c)
  /\ UNCHANGED late

(* Mutant of FireChecked: the flag is not looked at.                       *)
FireUnchecked(c) ==
  /\ Step("fire", "post")
  /\ cur = c
  /\ UNCHANGED <<valid, calls, cur, nap, woken, drift, missed, late>>

FireChecked(c) ==
  /\ Step("fire", "post")
  /\ cur = c
  /\ status[TimerOf[c]]
  /\ UNCHANGED <<valid, calls, cur, nap, woken, drift, missed, late>>

(* the post, if the queue still exists,                                    *)
Post(c) ==
  /\ Step("post", "plan")
  /\ cur = c
  /\ \/ ~status[TimerOf[c]] /\ late' = [late EXCEPT ![TimerOf[c]] = @ + 1]
     \/ UNCHANGED late
  /\ UNCHANGED <<valid, calls, cur, nap, woken, drift, missed>>

(* Mutant of NextFire: no catching up.                                     *)
NextFireBehind(f, i) == f + i

(* the next fire time after one at f, both relative to now: the interval   *)
(* is added, then as often as it fits in the time already lost, and once   *)
(* more if that gives a time not after now,                                *)
NextFire(f, i) ==
  LET next   == f + i
      caught == IF next <= 0 THEN next + i * ((0 - next) \div i) ELSE next
  IN  IF caught <= 0 THEN caught + i ELSE caught

(* and add_next_job.                                                       *)
Plan(c) ==
  /\ Step("plan", "add")
  /\ cur = c
  /\ job' = [job EXCEPT ![c] = "adding"]
  /\ left' = [left EXCEPT ![c] = NextFire(left[c], Period[c])]
  /\ UNCHANGED <<valid, status, cur, nap, woken, drift, missed, late>>

Readd(c) ==
  /\ Step("add", "loop")
  /\ cur = c
  /\ Insert(c)
  /\ cur' = NoCall

-------------------------------------------------------------------------------
(* ~timer_inner_worker, when the program ends.  The thread goes on.        *)
Shutdown ==
  /\ valid
  /\ valid' = FALSE
  /\ woken' = (woken \/ pc = "sleep")
  /\ UNCHANGED <<calls, pc, cur, nap, lag, drift, missed, late>>

Lower(n) == IF n > -MaxLate THEN n - 1 ELSE n

(* The thread has something to do.                                         *)
Runnable == pc # "exit" /\ (pc = "sleep" => woken \/ nap <= 0)

Tick ==
  /\ Runnable => lag < MaxLag
  /\ lag' = IF Runnable THEN lag + 1 ELSE 0
  /\ left' = [c \in Calls |->
                IF job[c] \in {"adding", "queued", "held"} THEN Lower(left[c]) ELSE left[c]]
  /\ nap' = IF pc = "sleep" THEN Lower(nap) ELSE nap
  /\ UNCHANGED <<valid, status, job, pc, cur, woken, drift, missed,
                 late>>

-------------------------------------------------------------------------------
ThreadStep ==
  \/ \E c \in Calls : Take(c)
  \/ Look
  \/ Exit
  \/ Sleep
  \/ Wake
  \/ \E c \in Onces : FireOnce(c)
  \/ \E c \in Starts :
       FireStopped(c) \/ FireChecked(c) \/ Post(c) \/ Plan(c) \/ Readd(c)

Next ==
  \/ \E c \in Starts : StartCall(c)
  \/ \E t \in Timers : Stop(t)
  \/ \E c \in Onces : OnceCall(c) \/ CancelOnce(c)
  \/ \E c \in Calls : CallInsert(c)
  \/ ThreadStep
  \/ Spurious
  \/ Shutdown
  \/ Tick

Spec == Init /\ [][Next]_vars

(* The thread runs, time passes and callers finish their calls.            *)
Fairness ==
  /\ WF_vars(ThreadStep)
  /\ WF_vars(Tick)
  /\ \A c \in Calls : WF_vars(CallInsert(c))

FairSpec == Spec /\ Fairness

-------------------------------------------------------------------------------
(* Properties.                                                             *)

Asleep == pc = "sleep" /\ ~woken

(* The thread does not sleep longer than until a queued job is due, by     *)
(* more than it took to fall asleep, except past a job that was queued     *)
(* between its look at the queue and its sleep.                            *)
NapCovers ==
  Asleep => \A c \in Queue \ missed : nap <= (IF left[c] > 0 THEN left[c] ELSE 0) + drift

(* The same without the exception: the comment in main says that after a   *)
(* wait that is broken "next loop will continue to wait until timeout".    *)
NeverOversleeps ==
  Asleep => \A c \in Queue : nap <= (IF left[c] > 0 THEN left[c] ELSE 0) + drift

(* A periodic job that fired is planned for the first multiple of its      *)
(* interval after now, counted from the time it was planned for before: a  *)
(* timer that is late neither drifts nor fires for the intervals it lost.  *)
PlannedOnGrid ==
  [][\A c \in Starts : pc = "plan" /\ cur = c /\ job'[c] = "adding" =>
       /\ left'[c] > 0
       /\ (left'[c] - left[c]) % Period[c] = 0
       /\ left'[c] > left[c]
       /\ left'[c] > left[c] + Period[c] => left'[c] <= Period[c]]_vars

(* After stop a timer posts once more at most, when its thread had already *)
(* looked at the flag; and never again until it is started.                *)
AtMostOneLate == \A t \in Timers : late[t] <= 1

(* A queued job is taken out or cancelled in the end, however often other  *)
(* jobs fire, unless the program ends.                                     *)
JobsLeave == \A c \in Calls : job[c] = "queued" ~> job[c] # "queued" \/ ~valid

(* A stopped timer has no job left in the end, unless it is started again. *)
StopEnds ==
  \A c \in Starts : job[c] = "queued" /\ ~status[TimerOf[c]] ~>
    job[c] = "over" \/ status[TimerOf[c]] \/ ~valid

(* The thread leaves its loop after the program has ended.                 *)
ExitsAfterShutdown == ~valid ~> pc = "exit"

===============================================================================
