---------------------------- MODULE WorkerProofs -----------------------------
(***************************************************************************)
(* Proofs about Worker, for any number of starts and any priorities.       *)
(*                                                                         *)
(* That no task runs after stop rests on who may set validate_: only a     *)
(* thread that start is still waiting for (Pending), so once stop has      *)
(* begun the flag stays false; and on running_lock_, which the thread      *)
(* holds exactly while it is in main.                                      *)
(***************************************************************************)
EXTENDS Worker, TLAPS

(* The thread has not set validate_ yet.                                   *)
Pending(n) == phase[n] \in {"created", "entered"}

Working == {"fetch", "calling", "waiting", "task"}

(* running_lock_ is held by the thread in main.                            *)
LockHeld == \A n \in Threads : running = n <=> phase[n] \in InMain

(* Only a call of start leaves a thread pending, one at a time, and until  *)
(* it has set the flag.                                                    *)
OnePending ==
  /\ \A m, n \in Threads : Pending(m) /\ Pending(n) => m = n
  /\ \A n \in Threads : Pending(n) => owner = "starting" /\ ~validate

(* From the moment stop has cleared the flag, or found it false, it stays  *)
(* false.                                                                  *)
StaysInvalid ==
  /\ owner \in {"break", "lock"} => ~validate
  /\ stopped => owner # "starting" /\ ~validate

(* After stop the thread gets no further than the loop.                    *)
Quiet == stopped => \A n \in Threads : phase[n] \notin Working

(* Once a thread has entered, the priority is at least that configured.    *)
Floor ==
  (\E n \in Threads : phase[n] \notin {"unborn", "created"}) => prio >= Configured

(* From its first start to its first stop, with an event queue, the worker *)
(* has a thread that has set the flag and does not leave.                  *)
Alive == validate /\ phase[1] \in {"valid", "loop"} \cup Working

Started ==
  FirstStart /\ ~stopped /\ eqOwned =>
    /\ owner \in {"idle", "check"} => Alive
    /\ owner = "starting" => Pending(1) \/ Alive

Inv == TypeOK /\ LockHeld /\ OnePending /\ StaysInvalid /\ Quiet /\ Floor /\ Started

-------------------------------------------------------------------------------
(* Every step keeps the types.                                           *)
LEMMA TypeOKStep ==
  ASSUME TypeOK, [Next]_vars
  PROVE  TypeOK'
<1> USE BoundsAssumption, ConfiguredAssumption DEF TypeOK, Threads, Prios, Phases, InMain, Owners, InStop
<1>1. ASSUME NEW n \in Threads, Enter(n) PROVE TypeOK'
  BY <1>1 DEF Move, ownerVars, Enter
<1>2. ASSUME NEW n \in Threads, Validate(n) PROVE TypeOK'
  BY <1>2 DEF Move, ownerVars, Validate
<1>3. ASSUME NEW n \in Threads, LockRunning(n) PROVE TypeOK'
  BY <1>3 DEF Move, ownerVars, LockRunning
<1>4. ASSUME NEW n \in Threads, Check(n) PROVE TypeOK'
  BY <1>4 DEF Move, ownerVars, Check
<1>5. ASSUME NEW n \in Threads, LockQueue(n) PROVE TypeOK'
  BY <1>5 DEF Move, ownerVars, LockQueue, EqAlive
<1>6. ASSUME NEW n \in Threads, Call(n) PROVE TypeOK'
  BY <1>6 DEF Move, ownerVars, Call
<1>7. ASSUME NEW n \in Threads, ReturnStopped(n) PROVE TypeOK'
  BY <1>7 DEF Move, ownerVars, ReturnStopped, Return
<1>8. ASSUME NEW n \in Threads, EndTask(n) PROVE TypeOK'
  BY <1>8 DEF Move, ownerVars, EndTask
<1>9. ASSUME NEW n \in Threads, Leave(n) PROVE TypeOK'
  BY <1>9 DEF Move, ownerVars, Leave
<1>10. ASSUME NEW n \in Threads, ReturnEmpty(n) PROVE TypeOK'
  BY <1>10 DEF Move, ownerVars, ReturnEmpty, Return
<1>11. ASSUME NEW n \in Threads, Start(n) PROVE TypeOK'
  BY <1>11 DEF Move, ownerVars, Start
<1>12. ASSUME NEW n \in Threads, NEW p \in Prios, GetItem(n, p) PROVE TypeOK'
  BY <1>12 DEF Move, ownerVars, GetItem, Adjusted, Prios
<1>13. CASE StartSeen
  BY <1>13 DEF StartSeen
<1>14. CASE StopCheck
  BY <1>14 DEF StopCheck
<1>15. CASE StopInvalidate
  BY <1>15 DEF StopInvalidate
<1>16. CASE StopBreak
  BY <1>16 DEF StopBreak
<1>17. CASE StopLock
  BY <1>17 DEF StopLock
<1>18. CASE Join
  BY <1>18 DEF Join
<1>19. ASSUME NEW d \in BOOLEAN, Stop(d) PROVE TypeOK'
  BY <1>19 DEF Stop
<1>20. CASE EqDrop
  BY <1>20 DEF EqDrop, ownerVars
<1>21. CASE UNCHANGED vars
  BY <1>21 DEF vars
<1>22. QED
  BY <1>1, <1>2, <1>3, <1>4, <1>5, <1>6, <1>7, <1>8, <1>9, <1>10, <1>11, <1>12, <1>13, <1>14, <1>15, <1>16, <1>17, <1>18, <1>19, <1>20, <1>21 DEF Next, ThreadStep, OwnerStep

(* Every step keeps the lock with the thread in main.                    *)
LEMMA LockHeldStep ==
  ASSUME TypeOK, LockHeld, [Next]_vars
  PROVE  LockHeld'
<1> USE BoundsAssumption, ConfiguredAssumption DEF TypeOK, LockHeld, Threads, InMain, Nobody
<1>1. ASSUME NEW n \in Threads, Enter(n) PROVE LockHeld'
  BY <1>1 DEF Move, ownerVars, Enter
<1>2. ASSUME NEW n \in Threads, Validate(n) PROVE LockHeld'
  BY <1>2 DEF Move, ownerVars, Validate
<1>3. ASSUME NEW n \in Threads, LockRunning(n) PROVE LockHeld'
  BY <1>3 DEF Move, ownerVars, LockRunning
<1>4. ASSUME NEW n \in Threads, Check(n) PROVE LockHeld'
  BY <1>4 DEF Move, ownerVars, Check
<1>5. ASSUME NEW n \in Threads, LockQueue(n) PROVE LockHeld'
  BY <1>5 DEF Move, ownerVars, LockQueue, EqAlive
<1>6. ASSUME NEW n \in Threads, Call(n) PROVE LockHeld'
  BY <1>6 DEF Move, ownerVars, Call
<1>7. ASSUME NEW n \in Threads, ReturnStopped(n) PROVE LockHeld'
  BY <1>7 DEF Move, ownerVars, ReturnStopped, Return
<1>8. ASSUME NEW n \in Threads, EndTask(n) PROVE LockHeld'
  BY <1>8 DEF Move, ownerVars, EndTask
<1>9. ASSUME NEW n \in Threads, Leave(n) PROVE LockHeld'
  BY <1>9 DEF Move, ownerVars, Leave
<1>10. ASSUME NEW n \in Threads, ReturnEmpty(n) PROVE LockHeld'
  BY <1>10 DEF Move, ownerVars, ReturnEmpty, Return
<1>11. ASSUME NEW n \in Threads, Start(n) PROVE LockHeld'
  BY <1>11 DEF Move, ownerVars, Start
<1>12. ASSUME NEW n \in Threads, NEW p \in Prios, GetItem(n, p) PROVE LockHeld'
  BY <1>12 DEF Move, ownerVars, GetItem, Adjusted, Prios
<1>13. CASE StartSeen
  BY <1>13 DEF StartSeen
<1>14. CASE StopCheck
  BY <1>14 DEF StopCheck
<1>15. CASE StopInvalidate
  BY <1>15 DEF StopInvalidate
<1>16. CASE StopBreak
  BY <1>16 DEF StopBreak
<1>17. CASE StopLock
  BY <1>17 DEF StopLock
<1>18. CASE Join
  BY <1>18 DEF Join
<1>19. ASSUME NEW d \in BOOLEAN, Stop(d) PROVE LockHeld'
  BY <1>19 DEF Stop
<1>20. CASE EqDrop
  BY <1>20 DEF EqDrop, ownerVars
<1>21. CASE UNCHANGED vars
  BY <1>21 DEF vars
<1>22. QED
  BY <1>1, <1>2, <1>3, <1>4, <1>5, <1>6, <1>7, <1>8, <1>9, <1>10, <1>11, <1>12, <1>13, <1>14, <1>15, <1>16, <1>17, <1>18, <1>19, <1>20, <1>21 DEF Next, ThreadStep, OwnerStep

(* Every step leaves one pending thread at most.                         *)
LEMMA OnePendingStep ==
  ASSUME TypeOK, OnePending, [Next]_vars
  PROVE  OnePending'
<1> USE BoundsAssumption, ConfiguredAssumption DEF TypeOK, OnePending, Pending, Threads
<1>1. ASSUME NEW n \in Threads, Enter(n) PROVE OnePending'
  BY <1>1 DEF Move, ownerVars, Enter
<1>2. ASSUME NEW n \in Threads, Validate(n) PROVE OnePending'
  BY <1>2 DEF Move, ownerVars, Validate
<1>3. ASSUME NEW n \in Threads, LockRunning(n) PROVE OnePending'
  BY <1>3 DEF Move, ownerVars, LockRunning
<1>4. ASSUME NEW n \in Threads, Check(n) PROVE OnePending'
  BY <1>4 DEF Move, ownerVars, Check
<1>5. ASSUME NEW n \in Threads, LockQueue(n) PROVE OnePending'
  BY <1>5 DEF Move, ownerVars, LockQueue, EqAlive
<1>6. ASSUME NEW n \in Threads, Call(n) PROVE OnePending'
  BY <1>6 DEF Move, ownerVars, Call
<1>7. ASSUME NEW n \in Threads, ReturnStopped(n) PROVE OnePending'
  BY <1>7 DEF Move, ownerVars, ReturnStopped, Return
<1>8. ASSUME NEW n \in Threads, EndTask(n) PROVE OnePending'
  BY <1>8 DEF Move, ownerVars, EndTask
<1>9. ASSUME NEW n \in Threads, Leave(n) PROVE OnePending'
  BY <1>9 DEF Move, ownerVars, Leave
<1>10. ASSUME NEW n \in Threads, ReturnEmpty(n) PROVE OnePending'
  BY <1>10 DEF Move, ownerVars, ReturnEmpty, Return
<1>11. ASSUME NEW n \in Threads, Start(n) PROVE OnePending'
  BY <1>11 DEF Move, ownerVars, Start
<1>12. ASSUME NEW n \in Threads, NEW p \in Prios, GetItem(n, p) PROVE OnePending'
  BY <1>12 DEF Move, ownerVars, GetItem, Adjusted, Prios
<1>13. CASE StartSeen
  BY <1>13 DEF StartSeen
<1>14. CASE StopCheck
  BY <1>14 DEF StopCheck
<1>15. CASE StopInvalidate
  BY <1>15 DEF StopInvalidate
<1>16. CASE StopBreak
  BY <1>16 DEF StopBreak
<1>17. CASE StopLock
  BY <1>17 DEF StopLock
<1>18. CASE Join
  BY <1>18 DEF Join
<1>19. ASSUME NEW d \in BOOLEAN, Stop(d) PROVE OnePending'
  BY <1>19 DEF Stop
<1>20. CASE EqDrop
  BY <1>20 DEF EqDrop, ownerVars
<1>21. CASE UNCHANGED vars
  BY <1>21 DEF vars
<1>22. QED
  BY <1>1, <1>2, <1>3, <1>4, <1>5, <1>6, <1>7, <1>8, <1>9, <1>10, <1>11, <1>12, <1>13, <1>14, <1>15, <1>16, <1>17, <1>18, <1>19, <1>20, <1>21 DEF Next, ThreadStep, OwnerStep

(* No step sets the flag after stop.                                     *)
LEMMA StaysInvalidStep ==
  ASSUME TypeOK, OnePending, StaysInvalid, [Next]_vars
  PROVE  StaysInvalid'
<1> USE BoundsAssumption, ConfiguredAssumption DEF TypeOK, OnePending, StaysInvalid, Pending, Threads
<1>1. ASSUME NEW n \in Threads, Enter(n) PROVE StaysInvalid'
  BY <1>1 DEF Move, ownerVars, Enter
<1>2. ASSUME NEW n \in Threads, Validate(n) PROVE StaysInvalid'
  BY <1>2 DEF Move, ownerVars, Validate
<1>3. ASSUME NEW n \in Threads, LockRunning(n) PROVE StaysInvalid'
  BY <1>3 DEF Move, ownerVars, LockRunning
<1>4. ASSUME NEW n \in Threads, Check(n) PROVE StaysInvalid'
  BY <1>4 DEF Move, ownerVars, Check
<1>5. ASSUME NEW n \in Threads, LockQueue(n) PROVE StaysInvalid'
  BY <1>5 DEF Move, ownerVars, LockQueue, EqAlive
<1>6. ASSUME NEW n \in Threads, Call(n) PROVE StaysInvalid'
  BY <1>6 DEF Move, ownerVars, Call
<1>7. ASSUME NEW n \in Threads, ReturnStopped(n) PROVE StaysInvalid'
  BY <1>7 DEF Move, ownerVars, ReturnStopped, Return
<1>8. ASSUME NEW n \in Threads, EndTask(n) PROVE StaysInvalid'
  BY <1>8 DEF Move, ownerVars, EndTask
<1>9. ASSUME NEW n \in Threads, Leave(n) PROVE StaysInvalid'
  BY <1>9 DEF Move, ownerVars, Leave
<1>10. ASSUME NEW n \in Threads, ReturnEmpty(n) PROVE StaysInvalid'
  BY <1>10 DEF Move, ownerVars, ReturnEmpty, Return
<1>11. ASSUME NEW n \in Threads, Start(n) PROVE StaysInvalid'
  BY <1>11 DEF Move, ownerVars, Start
<1>12. ASSUME NEW n \in Threads, NEW p \in Prios, GetItem(n, p) PROVE StaysInvalid'
  BY <1>12 DEF Move, ownerVars, GetItem, Adjusted, Prios
<1>13. CASE StartSeen
  BY <1>13 DEF StartSeen
<1>14. CASE StopCheck
  BY <1>14 DEF StopCheck
<1>15. CASE StopInvalidate
  BY <1>15 DEF StopInvalidate
<1>16. CASE StopBreak
  BY <1>16 DEF StopBreak
<1>17. CASE StopLock
  BY <1>17 DEF StopLock
<1>18. CASE Join
  BY <1>18 DEF Join
<1>19. ASSUME NEW d \in BOOLEAN, Stop(d) PROVE StaysInvalid'
  BY <1>19 DEF Stop
<1>20. CASE EqDrop
  BY <1>20 DEF EqDrop, ownerVars
<1>21. CASE UNCHANGED vars
  BY <1>21 DEF vars
<1>22. QED
  BY <1>1, <1>2, <1>3, <1>4, <1>5, <1>6, <1>7, <1>8, <1>9, <1>10, <1>11, <1>12, <1>13, <1>14, <1>15, <1>16, <1>17, <1>18, <1>19, <1>20, <1>21 DEF Next, ThreadStep, OwnerStep

(* No step begins work after stop.                                       *)
LEMMA QuietStep ==
  ASSUME TypeOK, LockHeld, StaysInvalid, Quiet, [Next]_vars
  PROVE  Quiet'
<1> USE BoundsAssumption, ConfiguredAssumption DEF TypeOK, LockHeld, StaysInvalid, Quiet, Working, Threads, InMain, Nobody
<1>1. ASSUME NEW n \in Threads, Enter(n) PROVE Quiet'
  BY <1>1 DEF Move, ownerVars, Enter
<1>2. ASSUME NEW n \in Threads, Validate(n) PROVE Quiet'
  BY <1>2 DEF Move, ownerVars, Validate
<1>3. ASSUME NEW n \in Threads, LockRunning(n) PROVE Quiet'
  BY <1>3 DEF Move, ownerVars, LockRunning
<1>4. ASSUME NEW n \in Threads, Check(n) PROVE Quiet'
  BY <1>4 DEF Move, ownerVars, Check
<1>5. ASSUME NEW n \in Threads, LockQueue(n) PROVE Quiet'
  BY <1>5 DEF Move, ownerVars, LockQueue, EqAlive
<1>6. ASSUME NEW n \in Threads, Call(n) PROVE Quiet'
  BY <1>6 DEF Move, ownerVars, Call
<1>7. ASSUME NEW n \in Threads, ReturnStopped(n) PROVE Quiet'
  BY <1>7 DEF Move, ownerVars, ReturnStopped, Return
<1>8. ASSUME NEW n \in Threads, EndTask(n) PROVE Quiet'
  BY <1>8 DEF Move, ownerVars, EndTask
<1>9. ASSUME NEW n \in Threads, Leave(n) PROVE Quiet'
  BY <1>9 DEF Move, ownerVars, Leave
<1>10. ASSUME NEW n \in Threads, ReturnEmpty(n) PROVE Quiet'
  BY <1>10 DEF Move, ownerVars, ReturnEmpty, Return
<1>11. ASSUME NEW n \in Threads, Start(n) PROVE Quiet'
  BY <1>11 DEF Move, ownerVars, Start
<1>12. ASSUME NEW n \in Threads, NEW p \in Prios, GetItem(n, p) PROVE Quiet'
  BY <1>12 DEF Move, ownerVars, GetItem, Adjusted, Prios
<1>13. CASE StartSeen
  BY <1>13 DEF StartSeen
<1>14. CASE StopCheck
  BY <1>14 DEF StopCheck
<1>15. CASE StopInvalidate
  BY <1>15 DEF StopInvalidate
<1>16. CASE StopBreak
  BY <1>16 DEF StopBreak
<1>17. CASE StopLock
  BY <1>17 DEF StopLock
<1>18. CASE Join
  BY <1>18 DEF Join
<1>19. ASSUME NEW d \in BOOLEAN, Stop(d) PROVE Quiet'
  BY <1>19 DEF Stop
<1>20. CASE EqDrop
  BY <1>20 DEF EqDrop, ownerVars
<1>21. CASE UNCHANGED vars
  BY <1>21 DEF vars
<1>22. QED
  BY <1>1, <1>2, <1>3, <1>4, <1>5, <1>6, <1>7, <1>8, <1>9, <1>10, <1>11, <1>12, <1>13, <1>14, <1>15, <1>16, <1>17, <1>18, <1>19, <1>20, <1>21 DEF Next, ThreadStep, OwnerStep

(* No step takes the priority below the configured one.                  *)
LEMMA FloorStep ==
  ASSUME TypeOK, Floor, [Next]_vars
  PROVE  Floor'
<1> USE BoundsAssumption, ConfiguredAssumption DEF TypeOK, Floor, Threads, Prios
<1>1. ASSUME NEW n \in Threads, Enter(n) PROVE Floor'
  BY <1>1 DEF Move, ownerVars, Enter
<1>2. ASSUME NEW n \in Threads, Validate(n) PROVE Floor'
  BY <1>2 DEF Move, ownerVars, Validate
<1>3. ASSUME NEW n \in Threads, LockRunning(n) PROVE Floor'
  BY <1>3 DEF Move, ownerVars, LockRunning
<1>4. ASSUME NEW n \in Threads, Check(n) PROVE Floor'
  BY <1>4 DEF Move, ownerVars, Check
<1>5. ASSUME NEW n \in Threads, LockQueue(n) PROVE Floor'
  BY <1>5 DEF Move, ownerVars, LockQueue, EqAlive
<1>6. ASSUME NEW n \in Threads, Call(n) PROVE Floor'
  BY <1>6 DEF Move, ownerVars, Call
<1>7. ASSUME NEW n \in Threads, ReturnStopped(n) PROVE Floor'
  BY <1>7 DEF Move, ownerVars, ReturnStopped, Return
<1>8. ASSUME NEW n \in Threads, EndTask(n) PROVE Floor'
  BY <1>8 DEF Move, ownerVars, EndTask
<1>9. ASSUME NEW n \in Threads, Leave(n) PROVE Floor'
  BY <1>9 DEF Move, ownerVars, Leave
<1>10. ASSUME NEW n \in Threads, ReturnEmpty(n) PROVE Floor'
  BY <1>10 DEF Move, ownerVars, ReturnEmpty, Return
<1>11. ASSUME NEW n \in Threads, Start(n) PROVE Floor'
  BY <1>11 DEF Move, ownerVars, Start
<1>12. ASSUME NEW n \in Threads, NEW p \in Prios, GetItem(n, p) PROVE Floor'
  BY <1>12 DEF Move, ownerVars, GetItem, Adjusted, Prios
<1>13. CASE StartSeen
  BY <1>13 DEF StartSeen
<1>14. CASE StopCheck
  BY <1>14 DEF StopCheck
<1>15. CASE StopInvalidate
  BY <1>15 DEF StopInvalidate
<1>16. CASE StopBreak
  BY <1>16 DEF StopBreak
<1>17. CASE StopLock
  BY <1>17 DEF StopLock
<1>18. CASE Join
  BY <1>18 DEF Join
<1>19. ASSUME NEW d \in BOOLEAN, Stop(d) PROVE Floor'
  BY <1>19 DEF Stop
<1>20. CASE EqDrop
  BY <1>20 DEF EqDrop, ownerVars
<1>21. CASE UNCHANGED vars
  BY <1>21 DEF vars
<1>22. QED
  BY <1>1, <1>2, <1>3, <1>4, <1>5, <1>6, <1>7, <1>8, <1>9, <1>10, <1>11, <1>12, <1>13, <1>14, <1>15, <1>16, <1>17, <1>18, <1>19, <1>20, <1>21 DEF Next, ThreadStep, OwnerStep

(* No step but stop makes a first thread leave.                          *)
LEMMA StartedStep ==
  ASSUME TypeOK, OnePending, StaysInvalid, Started, [Next]_vars
  PROVE  Started'
<1> USE BoundsAssumption, ConfiguredAssumption DEF TypeOK, OnePending, StaysInvalid, Started, FirstStart, Alive, Pending, Working, Threads
<1>1. ASSUME NEW n \in Threads, Enter(n) PROVE Started'
  BY <1>1 DEF Move, ownerVars, Enter
<1>2. ASSUME NEW n \in Threads, Validate(n) PROVE Started'
  BY <1>2 DEF Move, ownerVars, Validate
<1>3. ASSUME NEW n \in Threads, LockRunning(n) PROVE Started'
  BY <1>3 DEF Move, ownerVars, LockRunning
<1>4. ASSUME NEW n \in Threads, Check(n) PROVE Started'
  BY <1>4 DEF Move, ownerVars, Check
<1>5. ASSUME NEW n \in Threads, LockQueue(n) PROVE Started'
  BY <1>5 DEF Move, ownerVars, LockQueue, EqAlive
<1>6. ASSUME NEW n \in Threads, Call(n) PROVE Started'
  BY <1>6 DEF Move, ownerVars, Call
<1>7. ASSUME NEW n \in Threads, ReturnStopped(n) PROVE Started'
  BY <1>7 DEF Move, ownerVars, ReturnStopped, Return
<1>8. ASSUME NEW n \in Threads, EndTask(n) PROVE Started'
  BY <1>8 DEF Move, ownerVars, EndTask
<1>9. ASSUME NEW n \in Threads, Leave(n) PROVE Started'
  BY <1>9 DEF Move, ownerVars, Leave
<1>10. ASSUME NEW n \in Threads, ReturnEmpty(n) PROVE Started'
  BY <1>10 DEF Move, ownerVars, ReturnEmpty, Return
<1>11. ASSUME NEW n \in Threads, Start(n) PROVE Started'
  BY <1>11 DEF Move, ownerVars, Start
<1>12. ASSUME NEW n \in Threads, NEW p \in Prios, GetItem(n, p) PROVE Started'
  BY <1>12 DEF Move, ownerVars, GetItem, Adjusted, Prios
<1>13. CASE StartSeen
  BY <1>13 DEF StartSeen
<1>14. CASE StopCheck
  BY <1>14 DEF StopCheck
<1>15. CASE StopInvalidate
  BY <1>15 DEF StopInvalidate
<1>16. CASE StopBreak
  BY <1>16 DEF StopBreak
<1>17. CASE StopLock
  BY <1>17 DEF StopLock
<1>18. CASE Join
  BY <1>18 DEF Join
<1>19. ASSUME NEW d \in BOOLEAN, Stop(d) PROVE Started'
  BY <1>19 DEF Stop
<1>20. CASE EqDrop
  BY <1>20 DEF EqDrop, ownerVars
<1>21. CASE UNCHANGED vars
  BY <1>21 DEF vars
<1>22. QED
  BY <1>1, <1>2, <1>3, <1>4, <1>5, <1>6, <1>7, <1>8, <1>9, <1>10, <1>11, <1>12, <1>13, <1>14, <1>15, <1>16, <1>17, <1>18, <1>19, <1>20, <1>21 DEF Next, ThreadStep, OwnerStep

-------------------------------------------------------------------------------
(* The invariant holds in every state.                                     *)
THEOREM Invariance == Spec => []Inv
<1>1. Init => Inv
  <2> SUFFICES ASSUME Init PROVE Inv
    OBVIOUS
  <2>1. \A n \in Threads : phase[n] = "unborn" /\ entry[n] = "none" /\ n # Nobody
    BY DEF Init, Threads, Nobody
  <2>2. 1 \in Threads
    BY BoundsAssumption DEF Threads
  <2>3. TypeOK
    BY <2>1 DEF Init, TypeOK, Nobody, Phases, Owners
  <2>4. LockHeld /\ OnePending /\ StaysInvalid
    BY <2>1 DEF Init, LockHeld, OnePending, StaysInvalid, Pending, InMain
  <2>5. Quiet /\ Floor /\ Started
    BY <2>1, <2>2 DEF Init, Quiet, Floor, Started, FirstStart
  <2>6. QED
    BY <2>3, <2>4, <2>5 DEF Inv
<1>2. Inv /\ [Next]_vars => Inv'
  BY TypeOKStep, LockHeldStep, OnePendingStep, StaysInvalidStep, QuietStep, FloorStep, StartedStep
  DEF Inv
<1>3. QED
  BY <1>1, <1>2, PTL DEF Spec

(* Every variable keeps its type, and a thread is registered on the event  *)
(* queue only while it waits.                                              *)
THEOREM TypeCorrect == Spec => []TypeOK
<1>1. Inv => TypeOK
  BY DEF Inv
<1>2. QED
  BY <1>1, Invariance, PTL

(* Once stop has returned no task runs until the next start.               *)
THEOREM QuietCorrect == Spec => []QuietAfterStop
<1>1. Inv => QuietAfterStop
  BY DEF Inv, Quiet, QuietAfterStop, Working
<1>2. QED
  BY <1>1, Invariance, PTL

(* In main the priority is never below the configured one.                 *)
THEOREM FloorCorrect == Spec => []PriorityFloor
<1>1. Inv => PriorityFloor
  BY DEF Inv, Floor, PriorityFloor, InMain
<1>2. QED
  BY <1>1, Invariance, PTL

(* A worker that was started once is validate until it is stopped.         *)
THEOREM StartedCorrect == Spec => []StartedIsValid
<1>1. Inv => StartedIsValid
  BY DEF Inv, Started, Alive, StartedIsValid
<1>2. QED
  BY <1>1, Invariance, PTL

-------------------------------------------------------------------------------
(* The object is one worker.                                               *)

Stage ==
  IF stopped \/ \A n \in Threads : phase[n] = "unborn" THEN "rest"
  ELSE IF owner \in {"break", "lock"} THEN "stopping" ELSE "serving"

Task == \E n \in Threads : phase[n] = "task"

(* A move of a system thread within its life leaves the stage alone.       *)
LEMMA StageKept ==
  ASSUME TypeOK, NEW n \in Threads, NEW from, NEW to, Move(n, from, to),
         from # "unborn", to # "unborn", UNCHANGED <<owner, stopped>>
  PROVE  Stage' = Stage
BY DEF TypeOK, Move, Stage

(* A thread that neither gets nor ends a task leaves its worker as busy as *)
(* it was.                                                                 *)
LEMMA TaskKept ==
  ASSUME TypeOK, NEW n \in Threads, NEW from, NEW to, Move(n, from, to),
         from # "task", to # "task"
  PROVE  Task' = Task
BY DEF TypeOK, Move, Task

(* Only the thread that holds running_lock_ has a task.                    *)
LEMMA OneTask ==
  ASSUME TypeOK, LockHeld, NEW n \in Threads, phase[n] \in InMain
  PROVE  Task <=> phase[n] = "task"
BY DEF TypeOK, LockHeld, Task, InMain

(* Every step is one of the abstract worker or none.                       *)
LEMMA ServiceNext == Inv /\ [Next]_vars => [Service!Next]_<<Stage, Task>>
<1> SUFFICES ASSUME Inv, [Next]_vars
             PROVE  Service!Next \/ (Stage' = Stage /\ Task' = Task)
  OBVIOUS
<1>0. TypeOK /\ LockHeld /\ OnePending /\ StaysInvalid /\ Quiet
  BY DEF Inv
<1>00. Task \in BOOLEAN /\ Task' \in BOOLEAN
  BY DEF Task
<1> DEFINE Same == Stage' = Stage /\ Task' = Task
<1>1. ASSUME NEW n \in Threads, ThreadStep(n), ~EndTask(n) PROVE Same
  <2>1. \E from, to \in Phases \ {"unborn", "task"} : Move(n, from, to)
    BY <1>1 DEF ThreadStep, Enter, Validate, LockRunning, Check, LockQueue, Call, ReturnStopped,
      Return, Leave, Phases, InMain
  <2>2. UNCHANGED <<owner, stopped>>
    BY <1>1 DEF ThreadStep, Enter, Validate, LockRunning, Check, LockQueue, Call, ReturnStopped,
      Return, Leave, ownerVars
  <2>3. QED
    BY <1>0, <2>1, <2>2, StageKept, TaskKept
<1>2. ASSUME NEW n \in Threads, ReturnEmpty(n) PROVE Same
  <2>1. Move(n, "waiting", "loop") /\ UNCHANGED <<owner, stopped>>
    BY <1>2 DEF ReturnEmpty, Return, ownerVars
  <2>2. QED
    BY <1>0, <2>1, StageKept, TaskKept
<1>3. ASSUME NEW n \in Threads, EndTask(n) PROVE Service!End
  <2>1. Move(n, "task", "loop") /\ UNCHANGED <<owner, stopped>>
    BY <1>3 DEF EndTask, ownerVars
  <2>2. Stage' = Stage
    BY <1>0, <2>1, StageKept
  <2>3. Task /\ ~Task'
    BY <1>0, <2>1 DEF TypeOK, LockHeld, InMain, Move, Task
  <2>4. QED
    BY <2>2, <2>3 DEF Service!End, Stage, Task
<1>4. ASSUME NEW n \in Threads, NEW p \in Prios, GetItem(n, p) PROVE Service!Begin
  <2>1. Move(n, "waiting", "task") /\ UNCHANGED <<owner, stopped>> /\ validate
    BY <1>4 DEF GetItem, ownerVars
  <2>2. Stage' = Stage
    BY <1>0, <2>1, StageKept
  <2>3. Stage = "serving"
    BY <1>0, <2>1 DEF Stage, StaysInvalid, Move
  <2>4. ~Task /\ Task'
    BY <1>0, <2>1, OneTask DEF TypeOK, InMain, Move, Task
  <2>5. QED
    BY <2>2, <2>3, <2>4 DEF Service!Begin, Stage, Task
<1>5. ASSUME NEW n \in Threads, Start(n) PROVE Service!Start \/ Same
  <2>1. Move(n, "unborn", "created")
    BY <1>5 DEF Start, Move
  <2>2. Task' = Task
    BY <1>0, <2>1, TaskKept
  <2>3. Stage' = "serving" /\ Stage \in {"rest", "serving"}
    BY <1>0, <1>5, <2>1 DEF TypeOK, Start, Stage
  <2>4. QED
    BY <2>2, <2>3 DEF Service!Start, Stage, Task
<1>6. CASE StopCheck \/ StopInvalidate
  <2>1. UNCHANGED <<phase, stopped>> /\ owner \in {"check", "invalidate"}
    BY <1>6 DEF StopCheck, StopInvalidate
  <2>2. Task' = Task
    BY <2>1 DEF Task
  <2>3. Stage' = Stage \/ (Stage = "serving" /\ Stage' = "stopping")
    BY <1>6, <2>1 DEF Stage, StopCheck, StopInvalidate
  <2>4. QED
    BY <2>2, <2>3 DEF Service!Stop, Service!Next, Stage, Task
<1>7. CASE StopLock
  <2>1. ~Task /\ Task' = Task
    BY <1>0, <1>7 DEF StopLock, Task, LockHeld, InMain, Threads, Nobody
  <2>2. Stage' = "rest"
    BY <1>7 DEF StopLock, Stage
  <2>3. QED
    BY <2>1, <2>2 DEF Service!Rest, Service!Next, Stage, Task
<1>8. CASE StartSeen \/ StopBreak \/ Join \/ EqDrop \/ \E d \in BOOLEAN : Stop(d)
  <2>1. UNCHANGED <<phase, stopped>>
    BY <1>8 DEF StartSeen, StopBreak, Join, EqDrop, Stop, ownerVars
  <2>2. Task' = Task
    BY <2>1 DEF Task
  <2>3. owner' \in {"break", "lock"} <=> owner \in {"break", "lock"}
    BY <1>8 DEF StartSeen, StopBreak, Join, EqDrop, Stop, ownerVars
  <2>4. Stage' = Stage
    BY <2>1, <2>3 DEF Stage
  <2>5. QED
    BY <2>2, <2>4
<1>9. CASE UNCHANGED vars
  BY <1>9 DEF vars, Stage, Task
<1>10. QED
  BY <1>1, <1>2, <1>3, <1>4, <1>5, <1>6, <1>7, <1>8, <1>9 DEF Next, OwnerStep, Service!Next

(* Worker implements the abstract worker: one task at a time, none begun   *)
(* once stop has cleared or read the flag, none under way when it returns. *)
THEOREM ServiceImplemented == Spec => ImplementsService
<1>1. Init => Service!Init
  BY DEF Init, Service!Init, Threads
<1>2. Inv /\ [Next]_vars => [Service!Next]_(Service!vars)
  BY ServiceNext DEF Service!vars, Stage, Task
<1>3. QED
  BY <1>1, <1>2, Invariance, PTL DEF Spec, Service!Spec, ImplementsService

-------------------------------------------------------------------------------
(* How far a stop has to wait.                                             *)

(* The destructor joins after its stop has returned.                       *)
Joins == owner \in {"joining", "dead"} => stopped

(* Only that stop takes the owner to the join.                             *)
LEMMA JoinsStep ==
  ASSUME TypeOK, Joins, [Next]_vars
  PROVE  Joins'
<1>1. ASSUME NEW n \in Threads, ThreadStep(n) PROVE Joins'
  BY <1>1 DEF Joins, ThreadStep, Enter, Validate, LockRunning, Check, LockQueue, Call, ReturnStopped,
    Return, EndTask, Leave, ownerVars
<1>2. ASSUME NEW n \in Threads, ReturnEmpty(n) \/ Start(n) PROVE Joins'
  BY <1>2 DEF Joins, ReturnEmpty, Return, Start, ownerVars
<1>3. ASSUME NEW n \in Threads, NEW p \in Prios, GetItem(n, p) PROVE Joins'
  BY <1>3 DEF Joins, GetItem, ownerVars
<1>4. CASE OwnerStep
  BY <1>4 DEF Joins, OwnerStep, StartSeen, StopCheck, StopInvalidate, StopBreak, StopLock, Join
<1>5. CASE EqDrop \/ UNCHANGED vars \/ \E d \in BOOLEAN : Stop(d)
  BY <1>5 DEF Joins, EqDrop, Stop, ownerVars, vars
<1>6. QED
  BY <1>1, <1>2, <1>3, <1>4, <1>5 DEF Next

(* The steps that a thread has left to take once the flag is false.        *)
Left(p) ==
  CASE p = "leaving" -> 1
    [] p = "loop" -> 2
    [] p \in {"calling", "waiting", "task"} -> 3
    [] p = "fetch" -> 4
    [] p = "valid" -> 5
    [] OTHER -> 0

(* Stop has cleared the flag or found it false, and waits for the thread;  *)
(* or the destructor waits for it to end.                                  *)
Stopping == owner \in {"break", "lock", "joining"}

(* With every step of a thread what stop waits for comes nearer.           *)
ComesNearer ==
  [][Stopping => \A n \in Threads :
       phase'[n] = phase[n] \/ Left(phase'[n]) < Left(phase[n])]_vars

(* Nothing a thread waits for is missing: none is still to set the flag,   *)
(* one that waits on the event queue finds the flag false, and the lock    *)
(* that one waits for is held by a thread on its way out of main.          *)
Unhindered ==
  Stopping =>
    /\ ~validate
    /\ \A n \in Threads : ~Pending(n)
    /\ running # Nobody => phase[running] \in InMain

(* Whatever the threads of a worker are doing when stop has dealt with the *)
(* flag, each of them has at most five steps left, of which a task is one, *)
(* and none of them waits for anything but a thread that has fewer left:   *)
(* what remains of StopReturns is that threads run and tasks end.          *)
THEOREM StopBounded == Spec => ComesNearer /\ []Unhindered
<1>1. Init => Joins
  BY DEF Init, Joins
<1>2. Inv /\ Joins => Unhindered
  <2> SUFFICES ASSUME Inv, Joins, Stopping PROVE Unhindered
    BY DEF Unhindered
  <2>1. ~validate /\ \A n \in Threads : ~Pending(n)
    BY DEF Inv, Joins, StaysInvalid, OnePending, Stopping
  <2>2. running # Nobody => phase[running] \in InMain
    BY DEF Inv, TypeOK, LockHeld
  <2>3. QED
    BY <2>1, <2>2 DEF Unhindered
<1>3. ASSUME Inv, Joins, Next, Stopping, NEW m \in Threads
      PROVE  phase'[m] = phase[m] \/ Left(phase'[m]) < Left(phase[m])
  <2> DEFINE Nearer == phase'[m] = phase[m] \/ Left(phase'[m]) < Left(phase[m])
  <2>0. TypeOK /\ ~validate /\ \A n \in Threads : ~Pending(n)
    BY <1>2, <1>3 DEF Inv, Unhindered
  <2>1. ASSUME NEW n \in Threads, NEW from, NEW to, Move(n, from, to), Left(to) < Left(from)
        PROVE  Nearer
    BY <2>0, <2>1 DEF TypeOK, Move
  <2>2. /\ Left("gone") = 0 /\ Left("leaving") = 1 /\ Left("loop") = 2 /\ Left("calling") = 3
        /\ Left("waiting") = 3 /\ Left("task") = 3 /\ Left("fetch") = 4 /\ Left("valid") = 5
    BY DEF Left
  <2> HIDE DEF Nearer
  <2>3. ASSUME NEW n \in Threads, ThreadStep(n) PROVE Nearer
    <3>1. ~Enter(n) /\ ~Validate(n)
      BY <2>0 DEF Enter, Validate, Move, Pending
    <3>2. CASE LockRunning(n)
      BY <2>1, <2>2, <3>2 DEF LockRunning
    <3>3. CASE Check(n) \/ LockQueue(n)
      BY <2>0, <2>1, <2>2, <3>3 DEF Check, LockQueue
    <3>4. CASE Call(n) \/ ReturnStopped(n) \/ EndTask(n) \/ Leave(n)
      BY <2>0, <2>1, <2>2, <3>4 DEF Call, ReturnStopped, Return, EndTask, Leave
    <3>5. QED
      BY <2>3, <3>1, <3>2, <3>3, <3>4 DEF ThreadStep
  <2>4. ASSUME NEW n \in Threads PROVE ~ReturnEmpty(n) /\ ~Start(n)
    BY <1>3, <2>0 DEF ReturnEmpty, Start, Stopping
  <2>5. ASSUME NEW n \in Threads, NEW p \in Prios PROVE ~GetItem(n, p)
    BY <2>0 DEF GetItem
  <2>6. CASE OwnerStep \/ EqDrop \/ \E d \in BOOLEAN : Stop(d)
    BY <2>6 DEF OwnerStep, StartSeen, StopCheck, StopInvalidate, StopBreak, StopLock, Join, EqDrop,
      Stop, Nearer
  <2>7. QED
    BY <1>3, <2>3, <2>4, <2>5, <2>6 DEF Next, Nearer
<1>4. Inv /\ Joins /\ [Next]_vars =>
        [Stopping => \A n \in Threads :
           phase'[n] = phase[n] \/ Left(phase'[n]) < Left(phase[n])]_vars
  BY <1>3
<1>5. Inv /\ Joins /\ [Next]_vars => Joins'
  BY JoinsStep DEF Inv
<1>6. QED
  BY <1>1, <1>2, <1>4, <1>5, Invariance, PTL DEF Spec, ComesNearer

===============================================================================
