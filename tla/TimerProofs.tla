------------------------------ MODULE TimerProofs ------------------------------
(* Theorems about Timer, for any calls, timers and intervals, and for any  *)
(* values of the bounds.                                                   *)
EXTENDS Timer, TLAPS

-------------------------------------------------------------------------------
(* The catching up.                                                        *)

LEMMA Multiple ==
  ASSUME NEW i \in Nat \ {0}, NEW k \in Int
  PROVE  (i * k) % i = 0
OBVIOUS

LEMMA DivisionBounds ==
  ASSUME NEW i \in Nat \ {0}, NEW n \in Nat
  PROVE  /\ n \div i \in Nat
         /\ i * (n \div i) \in Int
         /\ i * (n \div i) <= n
         /\ n < i * (n \div i) + i
OBVIOUS

(* The next fire time is the first multiple of the interval after now.     *)
LEMMA NextFireGrid ==
  ASSUME NEW f \in Int, NEW i \in Nat \ {0}
  PROVE  /\ NextFire(f, i) \in Int
         /\ NextFire(f, i) > 0
         /\ NextFire(f, i) > f
         /\ (NextFire(f, i) - f) % i = 0
         /\ NextFire(f, i) > f + i => NextFire(f, i) <= i
<1> DEFINE n == f + i
           q == (0 - n) \div i
<1>1. n \in Int /\ n - f = i * 1 /\ (i * 1) % i = 0
  BY Multiple
<1>2. CASE n > 0
  <2>1. NextFire(f, i) = n
    BY <1>2 DEF NextFire
  <2>2. QED
    BY <1>1, <1>2, <2>1
<1>3. CASE n <= 0
  <2>1. 0 - n \in Nat
    BY <1>1, <1>3
  <2>2. /\ q \in Nat
        /\ i * q \in Int
        /\ i * q <= 0 - n
        /\ 0 - n < i * q + i
    BY <2>1, DivisionBounds
  <2> HIDE DEF q
  <2>3. NextFire(f, i) = (n + i * q) + i
    BY <1>1, <1>3, <2>2 DEF NextFire, q
  <2>4. NextFire(f, i) - f = i * (q + 2)
    BY <2>2, <2>3
  <2>5. (i * (q + 2)) % i = 0
    BY <2>2, Multiple
  <2> HIDE DEF n
  <2>6. /\ NextFire(f, i) \in Int
        /\ NextFire(f, i) > 0
        /\ NextFire(f, i) <= i
    BY <1>1, <2>2, <2>3
  <2>7. NextFire(f, i) > f
    BY <1>1, <1>3, <2>6
  <2>8. QED
    BY <2>4, <2>5, <2>6, <2>7
<1>4. QED
  BY <1>1, <1>2, <1>3

-------------------------------------------------------------------------------
(* The invariant.                                                          *)

(* The job that fires is out of the queue.                                 *)
Holds == pc \in {"fire", "post", "plan"} => cur \in Calls /\ job[cur] = "held"

Left(c) == IF left[c] > 0 THEN left[c] ELSE 0

(* What the thread has read of the queue is still good when it waits, but  *)
(* for the time it took and the jobs it missed.                            *)
ReadCovers == pc = "wait" => \A c \in Queue \ missed : nap <= Left(c) + lag

SleepCovers == Asleep => \A c \in Queue \ missed : nap <= Left(c) + drift

(* A timer that runs has posted nothing late, and the thread is not about  *)
(* to post for a timer that already did.                                   *)
Lates ==
  \A t \in Timers :
    /\ status[t] => late[t] = 0
    /\ late[t] <= 1
    /\ pc = "post" /\ cur \in Starts /\ TimerOf[cur] = t => late[t] = 0

Inv == TypeOK /\ Holds /\ ReadCovers /\ SleepCovers /\ Lates

LEMMA InvInit == Init => Inv
<1> SUFFICES ASSUME Init PROVE Inv
  OBVIOUS
<1>1. TypeOK
  <2>1. woken \in BOOLEAN /\ valid \in BOOLEAN
    BY Zenon DEF Init
  <2>2. QED
    BY <2>1 DEF Init, TypeOK, Places
<1>2. Holds /\ ReadCovers /\ SleepCovers
  BY DEF Init, Holds, ReadCovers, SleepCovers, Asleep
<1>3. Lates
  BY DEF Init, Lates
<1>4. QED
  BY <1>1, <1>2, <1>3 DEF Inv

(* Steps that another step of the model is made of.                        *)
LEMMA LowerBounds ==
  ASSUME NEW n \in Int
  PROVE  Lower(n) \in Int /\ Lower(n) <= n /\ Lower(n) >= n - 1 /\ (n > 0 => Lower(n) = n - 1)
BY TimesAssumption DEF Lower

LEMMA TypeStep == Inv /\ [Next]_vars => TypeOK'
<1> SUFFICES ASSUME Inv, [Next]_vars PROVE TypeOK'
  OBVIOUS
<1> USE DEF Inv, TypeOK, Places, calls, thread, Step
<1>a. /\ \A c \in Calls : Period[c] \in Nat \ {0}
      /\ \A c \in Starts : TimerOf[c] \in Timers /\ c \in Calls
      /\ \A c \in Onces : c \in Calls
      /\ Slice \in Int
  BY CallsAssumption, TimesAssumption DEF Calls
<1>1. ASSUME NEW c \in Starts, StartCall(c) PROVE TypeOK'
  BY <1>a, <1>1 DEF StartCall
<1>2. ASSUME NEW t \in Timers, Stop(t) PROVE TypeOK'
  BY <1>2 DEF Stop
<1>3. ASSUME NEW c \in Onces, OnceCall(c) PROVE TypeOK'
  BY <1>a, <1>3 DEF OnceCall
<1>4. ASSUME NEW c \in Onces, CancelOnce(c) PROVE TypeOK'
  BY <1>a, <1>4 DEF CancelOnce
<1>5. ASSUME NEW c \in Calls, CallInsert(c) PROVE TypeOK'
  BY <1>5 DEF CallInsert, Insert
<1>6. ASSUME NEW c \in Calls, Take(c) PROVE TypeOK'
  BY <1>6 DEF Take
<1>7. CASE Look
  BY <1>a, <1>7 DEF Look
<1>8. CASE Exit
  BY <1>8 DEF Exit
<1>9. CASE Sleep
  <2>1. nap' \in Int /\ drift' \in Nat
    BY <1>9 DEF Sleep, Naps
  <2>2. woken' \in BOOLEAN
    BY <1>9, Zenon DEF Sleep
  <2>3. QED
    BY <1>9, <2>1, <2>2 DEF Sleep
<1>10. CASE Wake \/ Spurious
  <2>1. Rise
    BY <1>10 DEF Wake, Spurious
  <2>2. woken' \in BOOLEAN /\ missed' \subseteq Calls
    BY <2>1 DEF Rise
  <2>3. QED
    BY <2>1, <2>2 DEF Rise
<1>11. ASSUME NEW c \in Calls, Finish("fire", c), UNCHANGED late PROVE TypeOK'
  BY <1>11 DEF Finish
<1>12. ASSUME NEW c \in Starts, FireChecked(c) PROVE TypeOK'
  BY <1>12 DEF FireChecked
<1>13. ASSUME NEW c \in Starts, Post(c) PROVE TypeOK'
  BY <1>a, <1>13 DEF Post
<1>14. ASSUME NEW c \in Starts, Plan(c) PROVE TypeOK'
  <2>1. NextFire(left[c], Period[c]) \in Int
    BY <1>a, NextFireGrid
  <2>2. QED
    BY <1>a, <1>14, <2>1 DEF Plan
<1>15. ASSUME NEW c \in Starts, Readd(c) PROVE TypeOK'
  BY <1>15 DEF Readd, Insert
<1>16. CASE Shutdown
  BY <1>16 DEF Shutdown
<1>17. CASE Tick
  BY <1>17, LowerBounds DEF Tick
<1>18. CASE UNCHANGED vars
  BY <1>18 DEF vars
<1>19. QED
  BY <1>a, <1>1, <1>2, <1>3, <1>4, <1>5, <1>6, <1>7, <1>8, <1>9, <1>10, <1>11, <1>12,
     <1>13, <1>14, <1>15, <1>16, <1>17, <1>18
     DEF Next, ThreadStep, FireOnce, FireStopped

LEMMA HoldsStep == Inv /\ [Next]_vars => Holds'
<1> SUFFICES ASSUME Inv, [Next]_vars PROVE Holds'
  OBVIOUS
<1> USE DEF Inv, TypeOK, Holds, calls, thread, Step
<1>1. ASSUME NEW c \in Starts, StartCall(c) PROVE Holds'
  BY <1>1 DEF StartCall
<1>2. ASSUME NEW t \in Timers, Stop(t) PROVE Holds'
  BY <1>2 DEF Stop
<1>3. ASSUME NEW c \in Onces, OnceCall(c) PROVE Holds'
  BY <1>3 DEF OnceCall
<1>4. ASSUME NEW c \in Onces, CancelOnce(c) PROVE Holds'
  BY <1>4 DEF CancelOnce
<1>5. ASSUME NEW c \in Calls, CallInsert(c) PROVE Holds'
  BY <1>5 DEF CallInsert, Insert
<1>6. ASSUME NEW c \in Calls, Take(c) PROVE Holds'
  BY <1>6 DEF Take
<1>7. CASE Look \/ Exit \/ Sleep \/ Wake \/ Spurious
  BY <1>7 DEF Look, Exit, Sleep, Wake, Spurious, Rise
<1>8. ASSUME NEW c \in Calls, Finish("fire", c) PROVE Holds'
  BY <1>8 DEF Finish
<1>9. ASSUME NEW c \in Starts, FireChecked(c) \/ Post(c) PROVE Holds'
  BY <1>9 DEF FireChecked, Post
<1>10. ASSUME NEW c \in Starts, Plan(c) \/ Readd(c) PROVE Holds'
  BY <1>10 DEF Plan, Readd
<1>11. CASE Shutdown \/ Tick
  BY <1>11 DEF Shutdown, Tick
<1>12. CASE UNCHANGED vars
  BY <1>12 DEF vars
<1>13. QED
  BY <1>1, <1>2, <1>3, <1>4, <1>5, <1>6, <1>7, <1>8, <1>9, <1>10, <1>11, <1>12
     DEF Next, ThreadStep, FireOnce, FireStopped, Calls

(* The jobs the thread may oversleep: steps that change neither its sleep  *)
(* nor the jobs it knows of.                                               *)
LEMMA CoversKept ==
  ASSUME Inv, TypeOK', UNCHANGED <<pc, nap, lag, drift>>,
         pc = "sleep" /\ woken => woken',
         Queue' \ missed' \subseteq Queue \ missed,
         \A c \in Queue' \ missed' : left'[c] = left[c]
  PROVE  ReadCovers' /\ SleepCovers'
BY DEF Inv, ReadCovers, SleepCovers, Asleep, Left

LEMMA CoversStep == Inv /\ [Next]_vars => ReadCovers' /\ SleepCovers'
<1> SUFFICES ASSUME Inv, [Next]_vars PROVE ReadCovers' /\ SleepCovers'
  OBVIOUS
<1> TypeOK /\ TypeOK'
  BY TypeStep DEF Inv
<1> USE DEF calls, thread, Step
<1> DEFINE Covers == ReadCovers' /\ SleepCovers'
<1>0. ASSUME pc' \notin {"wait", "sleep"} PROVE Covers
  BY <1>0 DEF ReadCovers, SleepCovers, Asleep
<1>1. ASSUME NEW c \in Starts, StartCall(c) PROVE Covers
  BY <1>1, CoversKept DEF StartCall, Queue, TypeOK
<1>2. ASSUME NEW t \in Timers, Stop(t) PROVE Covers
  BY <1>2, CoversKept DEF Stop, Queue
<1>3. ASSUME NEW c \in Onces, OnceCall(c) PROVE Covers
  BY <1>3, CoversKept DEF OnceCall, Queue, TypeOK
<1>4. ASSUME NEW c \in Onces, CancelOnce(c) PROVE Covers
  BY <1>4, CoversKept DEF CancelOnce, Queue, TypeOK
<1>5. ASSUME NEW c \in Calls, CallInsert(c) PROVE Covers
  <2>1. CASE pc = "wait"
    <3>1. Queue' \ missed' \subseteq Queue \ missed
      BY <1>5, <2>1 DEF CallInsert, Insert, Queue, TypeOK
    <3>2. QED
      BY <1>5, <2>1, <3>1, CoversKept DEF CallInsert, Insert
  <2>2. CASE pc = "sleep"
    BY <1>5, <2>2 DEF CallInsert, Insert, ReadCovers, SleepCovers, Asleep
  <2>3. CASE pc \notin {"wait", "sleep"}
    BY <1>0, <1>5, <2>3 DEF CallInsert
  <2>4. QED
    BY <2>1, <2>2, <2>3
<1>6. ASSUME NEW c \in Calls, Take(c) PROVE Covers
  BY <1>0, <1>6 DEF Take
<1>7. CASE Look
  <2>1. pc' = "wait" /\ lag' = 0 /\ missed' = {} /\ UNCHANGED <<job, left>>
    BY <1>7 DEF Look
  <2>2. CASE Queue = {}
    BY <2>1, <2>2 DEF ReadCovers, SleepCovers, Asleep, Queue
  <2>3. ASSUME NEW d \in Calls, IsTop(d), ~Due(d), nap' = left[d] PROVE Covers
    <3>1. \A c \in Queue : nap' <= left[c] /\ left[c] > 0
      BY <2>3, TimesAssumption DEF IsTop, Due, TypeOK, Queue
    <3>2. QED
      BY <2>1, <3>1 DEF ReadCovers, SleepCovers, Asleep, Queue, Left, TypeOK
  <2>4. QED
    BY <1>7, <2>2, <2>3 DEF Look
<1>8. CASE Exit \/ Wake \/ Spurious
  BY <1>0, <1>8 DEF Exit, Wake, Spurious, Rise
<1>9. CASE Sleep
  <2>1. nap' <= nap /\ pc = "wait" /\ pc' = "sleep" /\ drift' = lag /\ UNCHANGED <<job, left, missed>>
    BY <1>9 DEF Sleep, Naps, TypeOK
  <2>2. QED
    BY <2>1 DEF ReadCovers, SleepCovers, Asleep, Queue, Left, TypeOK, Inv
<1>10. ASSUME NEW c \in Calls, Finish("fire", c) PROVE Covers
  BY <1>0, <1>10 DEF Finish
<1>11. ASSUME NEW c \in Starts, FireChecked(c) \/ Post(c) \/ Plan(c) \/ Readd(c) PROVE Covers
  BY <1>0, <1>11 DEF FireChecked, Post, Plan, Readd
<1>12. CASE Shutdown
  <2>1. CASE pc = "sleep"
    BY <1>12, <2>1 DEF Shutdown, ReadCovers, SleepCovers, Asleep
  <2>2. CASE pc # "sleep"
    BY <1>12, <2>2, CoversKept DEF Shutdown, Queue
  <2>3. QED
    BY <2>1, <2>2
<1>13. CASE Tick
  <2>1. /\ Queue' = Queue /\ missed' = missed /\ pc' = pc /\ drift' = drift /\ woken' = woken
        /\ \A c \in Queue : left'[c] = Lower(left[c])
    BY <1>13 DEF Tick, Queue
  <2>2. \A c \in Queue : /\ Left(c) \in Nat /\ Left(c)' \in Nat
                         /\ Left(c) <= Left(c)' + 1
                         /\ left[c] <= 0 => Left(c) = 0
                         /\ left[c] > 0 => Left(c)' = Left(c) - 1
    BY <2>1, LowerBounds DEF Left, TypeOK, Queue
  <2>3. ReadCovers'
    <3>1. CASE pc = "wait"
      <4>1. lag' = lag + 1 /\ nap' = nap
        BY <1>13, <3>1 DEF Tick, Runnable
      <4>2. QED
        BY <2>1, <2>2, <3>1, <4>1 DEF ReadCovers, TypeOK, Inv
    <3>2. QED
      BY <2>1, <3>1 DEF ReadCovers
  <2>4. SleepCovers'
    <3>1. SUFFICES ASSUME Asleep, NEW c \in Queue \ missed PROVE nap' <= Left(c)' + drift
      BY <2>1 DEF SleepCovers, Asleep
    <3>2. nap' = Lower(nap) /\ nap <= Left(c) + drift
      BY <1>13, <3>1 DEF Tick, Asleep, Inv, SleepCovers
    <3>3. Lower(nap) <= nap /\ Lower(nap) \in Int /\ (nap > 0 => Lower(nap) = nap - 1)
      BY LowerBounds DEF TypeOK
    <3>4. Left(c) \in Nat /\ Left(c)' \in Nat /\ Left(c) <= Left(c)' + 1 /\ nap \in Int /\ drift \in Nat
      BY <2>2 DEF TypeOK
    <3>5. CASE nap > 0
      BY <3>2, <3>3, <3>4, <3>5
    <3>6. CASE nap <= 0
      BY <3>2, <3>3, <3>4, <3>6
    <3>7. QED
      BY <3>4, <3>5, <3>6
  <2>5. QED
    BY <2>3, <2>4
<1>14. CASE UNCHANGED vars
  BY <1>14, CoversKept DEF vars, Queue
<1>15. QED
  BY <1>1, <1>2, <1>3, <1>4, <1>5, <1>6, <1>7, <1>8, <1>9, <1>10, <1>11, <1>12, <1>13, <1>14
     DEF Next, ThreadStep, FireOnce, FireStopped, Calls

LEMMA LatesStep == Inv /\ [Next]_vars => Lates'
<1> SUFFICES ASSUME Inv, [Next]_vars PROVE Lates'
  OBVIOUS
<1> USE DEF calls, thread, Step
<1>0. TypeOK /\ Lates /\ \A c \in Starts : TimerOf[c] \in Timers
  BY CallsAssumption DEF Inv
<1>1. ASSUME NEW c \in Starts, StartCall(c) PROVE Lates'
  BY <1>0, <1>1 DEF StartCall, Lates, TypeOK
<1>2. ASSUME NEW t \in Timers, Stop(t) PROVE Lates'
  BY <1>0, <1>2 DEF Stop, Lates, TypeOK
<1>3. ASSUME UNCHANGED <<status, late>>, pc' = "post" => pc = "post" /\ cur' = cur PROVE Lates'
  BY <1>0, <1>3 DEF Lates
<1>4. ASSUME NEW c \in Onces, OnceCall(c) \/ CancelOnce(c) PROVE Lates'
  BY <1>3, <1>4 DEF OnceCall, CancelOnce
<1>5. ASSUME NEW c \in Calls, CallInsert(c) PROVE Lates'
  BY <1>3, <1>5 DEF CallInsert, Insert
<1>6. ASSUME NEW c \in Calls, Take(c) PROVE Lates'
  BY <1>3, <1>6 DEF Take
<1>7. CASE Look \/ Exit \/ Sleep \/ Wake \/ Spurious
  BY <1>3, <1>7 DEF Look, Exit, Sleep, Wake, Spurious, Rise
<1>8. ASSUME NEW c \in Calls, Finish("fire", c), UNCHANGED late PROVE Lates'
  BY <1>3, <1>8 DEF Finish
<1>9. ASSUME NEW c \in Starts, FireChecked(c) PROVE Lates'
  BY <1>0, <1>9 DEF FireChecked, Lates
<1>10. ASSUME NEW c \in Starts, Post(c) PROVE Lates'
  <2>1. late[TimerOf[c]] = 0 /\ pc' # "post"
    BY <1>0, <1>10 DEF Post, Lates
  <2>2. QED
    BY <1>0, <1>10, <2>1 DEF Post, Lates, TypeOK
<1>11. ASSUME NEW c \in Starts, Plan(c) \/ Readd(c) PROVE Lates'
  BY <1>3, <1>11 DEF Plan, Readd, Insert
<1>12. CASE Shutdown \/ Tick
  BY <1>3, <1>12 DEF Shutdown, Tick
<1>13. CASE UNCHANGED vars
  BY <1>3, <1>13 DEF vars
<1>14. QED
  BY <1>1, <1>2, <1>4, <1>5, <1>6, <1>7, <1>8, <1>9, <1>10, <1>11, <1>12, <1>13
     DEF Next, ThreadStep, FireOnce, FireStopped, Calls

LEMMA Invariance == Spec => []Inv
<1>1. Inv /\ [Next]_vars => Inv'
  BY TypeStep, HoldsStep, CoversStep, LatesStep DEF Inv
<1>2. QED
  BY InvInit, <1>1, PTL DEF Spec

-------------------------------------------------------------------------------
(* The theorems.                                                           *)

(* The state of the timers and their thread is well typed.                 *)
THEOREM TypeCorrect == Spec => []TypeOK
<1>1. Inv => TypeOK
  BY DEF Inv
<1>2. QED
  BY <1>1, Invariance, PTL

(* main sleeps no longer than until the first job it can know of is due,   *)
(* however many jobs and callers there are and however slow it is.         *)
THEOREM NapCorrect == Spec => []NapCovers
<1>1. Inv => NapCovers
  BY DEF Inv, SleepCovers, NapCovers, Left
<1>2. QED
  BY <1>1, Invariance, PTL

(* fire_job_wrapper posts once at most after stop, however many chains of  *)
(* jobs share the flag of the timer.                                       *)
THEOREM LateCorrect == Spec => []AtMostOneLate
<1>1. Inv => AtMostOneLate
  BY DEF Inv, Lates, AtMostOneLate
<1>2. QED
  BY <1>1, Invariance, PTL

(* The catching up of fire_job_wrapper gives the first time on the grid of *)
(* the interval that is after now.                                         *)
THEOREM GridCorrect == Spec => PlannedOnGrid
<1> DEFINE OnGrid(c) ==
      /\ left'[c] > 0
      /\ (left'[c] - left[c]) % Period[c] = 0
      /\ left'[c] > left[c]
      /\ left'[c] > left[c] + Period[c] => left'[c] <= Period[c]
    Grid == \A c \in Starts : pc = "plan" /\ cur = c /\ job'[c] = "adding" => OnGrid(c)
<1>1. Inv /\ [Next]_vars => [Grid]_vars
  <2> SUFFICES ASSUME Inv, Next, NEW c \in Starts,
                      pc = "plan", cur = c, job'[c] = "adding"
               PROVE  OnGrid(c)
    OBVIOUS
  <2>1. job[c] = "held" /\ c \in Calls /\ job \in [Calls -> Places]
    BY DEF Inv, Holds, TypeOK
  <2>2. Plan(c)
    <3>1. ASSUME NEW d \in Starts, StartCall(d) PROVE FALSE
      BY <2>1, <3>1 DEF StartCall
    <3>2. ASSUME NEW d \in Onces, OnceCall(d) \/ CancelOnce(d) PROVE FALSE
      BY <2>1, <3>2 DEF OnceCall, CancelOnce
    <3>3. ASSUME NEW d \in Calls, CallInsert(d) PROVE FALSE
      BY <2>1, <3>3 DEF CallInsert, Insert
    <3>4. ASSUME NEW t \in Timers, Stop(t) PROVE FALSE
      BY <2>1, <3>4 DEF Stop
    <3>5. ~Spurious /\ ~Shutdown /\ ~Tick
      BY <2>1 DEF Spurious, Rise, Step, Shutdown, Tick, calls
    <3>6. ThreadStep
      BY <3>1, <3>2, <3>3, <3>4, <3>5 DEF Next
    <3>7. PICK d \in Starts : Plan(d)
      BY <3>6 DEF ThreadStep, Take, Look, Exit, Sleep, Wake, Rise, FireOnce, FireStopped, Finish,
                  FireChecked, Post, Readd, Step
    <3>8. QED
      BY <3>7 DEF Plan
  <2>3. left'[c] = NextFire(left[c], Period[c])
    BY <2>1, <2>2 DEF Plan, Inv, TypeOK
  <2>4. left[c] \in Int /\ Period[c] \in Nat \ {0}
    BY <2>1, TimesAssumption DEF Inv, TypeOK
  <2>5. QED
    BY <2>3, <2>4, NextFireGrid
<1>2. [][Grid]_vars <=> PlannedOnGrid
  BY PTL DEF PlannedOnGrid
<1>3. QED
  BY <1>1, <1>2, Invariance, PTL DEF Spec

===============================================================================
