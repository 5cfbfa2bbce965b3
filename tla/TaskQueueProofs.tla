---------------------------- MODULE TaskQueueProofs ---------------------------
(* Theorems about TaskQueue, for all tasks, workers and disruptions.       *)
EXTENDS TaskQueue, SequenceTheorems, TLAPS

Hooked == \E w \in Workers : worker[w].phase = "hook"

(* A task in flight belongs to a running queue.                            *)
FlightRuns == eq # <<>> \/ InFlight # {} => running

(* While impl lives, a running queue has a front for the hook to pop.      *)
FrontStays == running /\ (owned \/ Hooked) => tq # <<>>

Inv == TypeOK /\ Serial /\ FlightRuns /\ FrontStays

-------------------------------------------------------------------------------
LEMMA EntryFacts ==
  /\ \A k \in Tasks : NewTask(k) \in Entry
  /\ \A e \in Entry : e.task \in Tasks /\ e.t \in BOOLEAN /\ e.after \in BOOLEAN
  /\ \A e \in Entry : \A s \in Shells(e) : s \in Entry /\ s.moved /\ s.task = e.task
<1>1. ASSUME NEW e \in Entry, NEW s \in Shells(e)
      PROVE  s \in Entry /\ s.moved /\ s.task = e.task
  <2>1. e.task \in Tasks
    BY DEF Entry
  <2>2. {e.t /\ x : x \in Kept} \subseteq BOOLEAN /\ {e.after /\ x : x \in Kept} \subseteq BOOLEAN
    BY Zenon
  <2>3. QED
    BY <2>1, <2>2 DEF Entry, Shells
<1>2. QED
  BY <1>1 DEF Entry, NewTask

LEMMA HandedOverFacts ==
  ASSUME NEW q \in Seq(Entry), q # <<>>, NEW r \in HandedOver(q)
  PROVE  /\ Head(q) \in Entry /\ Head(q) = q[1]
         /\ r \in Seq(Entry) /\ r # <<>> /\ Len(r) = Len(q)
         /\ r[1].moved /\ r[1].task = q[1].task
         /\ \A j \in 2..Len(q) : r[j] = q[j]
<1>1. PICK s \in Shells(Head(q)) : r = <<s>> \o Tail(q)
  BY DEF HandedOver
<1>2. /\ Head(q) \in Entry /\ Head(q) = q[1] /\ Tail(q) \in Seq(Entry)
      /\ Len(q) \in Nat \ {0}
      /\ Len(Tail(q)) = Len(q) - 1
      /\ \A i \in 1..Len(Tail(q)) : Tail(q)[i] = q[i + 1]
  BY HeadTailProperties, EmptySeq
<1>3. s \in Entry /\ s.moved /\ s.task = q[1].task
  BY <1>1, <1>2, EntryFacts
<1>4. <<s>> \in Seq(Entry) /\ Len(<<s>>) = 1 /\ <<s>>[1] = s
  BY <1>3
<1>5. /\ r \in Seq(Entry) /\ Len(r) = Len(q)
      /\ \A i \in 1..Len(q) : r[i] = IF i = 1 THEN s ELSE Tail(q)[i - 1]
  BY <1>1, <1>2, <1>4, ConcatProperties
<1>6. ASSUME NEW j \in 2..Len(q) PROVE r[j] = q[j]
  BY <1>2, <1>5
<1>7. r # <<>>
  BY <1>2, <1>5
<1>8. QED
  BY <1>2, <1>3, <1>5, <1>6, <1>7

LEMMA AppendFacts ==
  ASSUME NEW S, NEW s \in Seq(S), NEW e \in S
  PROVE  /\ Append(s, e) \in Seq(S) /\ Append(s, e) # <<>>
         /\ Len(Append(s, e)) = Len(s) + 1
         /\ \A j \in 1..Len(s) : Append(s, e)[j] = s[j]
         /\ Append(s, e)[Len(s) + 1] = e
<1>1. /\ Append(s, e) \in Seq(S) /\ Len(Append(s, e)) = Len(s) + 1
      /\ Len(s) \in Nat /\ Len(<<>>) = 0
  OBVIOUS
<1>2. Append(s, e) # <<>>
  BY <1>1
<1>3. QED
  BY <1>1, <1>2

(* The list post_task makes before it looks whether to hand over.          *)
LEMMA InsertedFacts ==
  ASSUME NEW k \in Tasks, tq \in Seq(Entry)
  PROVE  /\ Append(tq, NewTask(k)) \in Seq(Entry) /\ Append(tq, NewTask(k)) # <<>>
         /\ <<NewTask(k)>> \o tq \in Seq(Entry) /\ <<NewTask(k)>> \o tq # <<>>
<1>1. NewTask(k) \in Entry
  BY EntryFacts
<1>2. <<NewTask(k)>> \in Seq(Entry) /\ Len(<<NewTask(k)>>) = 1
  BY <1>1
<1>3. <<NewTask(k)>> \o tq \in Seq(Entry) /\ Len(<<NewTask(k)>> \o tq) = 1 + Len(tq)
  BY <1>2, ConcatProperties
<1>4. Len(tq) \in Nat /\ Len(<<>>) = 0
  OBVIOUS
<1>5. <<NewTask(k)>> \o tq # <<>>
  BY <1>3, <1>4
<1>6. QED
  BY <1>1, <1>3, <1>5, AppendFacts

LEMMA WorkerFacts ==
  ASSUME TypeOK, NEW w \in Workers
  PROVE  /\ worker[w].phase # "idle" => worker[w] \in Busy /\ w \in InFlight
         /\ worker[w].phase = "idle" => worker[w] = Idle
         /\ w \in InFlight => worker[w] \in Busy /\ worker[w].phase # "idle"
         /\ worker[w] \in Busy => worker[w].item \in Entry
BY DEF TypeOK, Busy, Idle, InFlight

-------------------------------------------------------------------------------
(* Every step preserves the invariant.                                     *)

LEMMA InvInit == Init => Inv
<1> SUFFICES ASSUME Init PROVE Inv
  OBVIOUS
<1>1. TypeOK
  <2>1. worker \in [Workers -> Busy \cup {Idle}]
    BY DEF Init
  <2>2. tq \in Seq(Entry) /\ eq \in Seq(Entry) /\ trace \in Seq(Tasks) /\ began \in Seq(Tasks)
    BY EmptySeq DEF Init
  <2>3. QED
    BY <2>1, <2>2 DEF Init, TypeOK
<1>2. InFlight = {} /\ eq = <<>> /\ ~running
  BY DEF Init, InFlight
<1>3. QED
  BY <1>1, <1>2 DEF Inv, Serial, FlightRuns, FrontStays

(* A step that leaves the worker states alone and moves no task.           *)
LEMMA QuietPreserves ==
  ASSUME Inv, TypeOK', UNCHANGED <<running, worker>>,
         eq' = eq \/ eq' = <<>>,
         owned' => owned,
         running /\ (owned' \/ Hooked) /\ tq # <<>> => tq' # <<>>
  PROVE  Inv'
<1>1. InFlight' = InFlight /\ Hooked' = Hooked
  BY DEF InFlight, Hooked
<1>2. Serial' /\ FlightRuns'
  BY <1>1 DEF Inv, Serial, FlightRuns
<1>3. FrontStays'
  BY <1>1 DEF Inv, FrontStays
<1>4. QED
  BY <1>2, <1>3 DEF Inv

LEMMA InsertPreserves ==
  ASSUME Inv, NEW k \in Tasks, NEW d \in Directions, PostInsert(k, d)
  PROVE  Inv'
<1> DEFINE q == Inserted(k, d)
<1>1. q \in Seq(Entry) /\ q # <<>>
  BY InsertedFacts DEF Inserted, Inv, TypeOK
<1>2. /\ InFlight' = InFlight /\ Hooked' = Hooked
      /\ call' \in [Tasks -> {"none", "posting", "waiting", "done"}]
  BY DEF PostInsert, InFlight, Hooked, Inv, TypeOK
<1> HIDE DEF q
<1>3. CASE /\ Len(q) = 1 /\ ~running /\ eqAlive
           /\ running' = TRUE
           /\ eq' = Append(eq, Head(q))
           /\ tq' \in HandedOver(q)
  <2>1. Head(q) \in Entry /\ tq' \in Seq(Entry) /\ tq' # <<>>
    BY <1>1, <1>3, HandedOverFacts
  <2>2. eq = <<>> /\ InFlight = {}
    BY <1>3 DEF Inv, FlightRuns
  <2>3. eq' \in Seq(Entry) /\ Len(eq') = 1
    BY <1>3, <2>1, <2>2
  <2>4. TypeOK'
    BY <1>2, <1>3, <2>1, <2>3 DEF Inv, TypeOK, PostInsert
  <2>5. Serial' /\ FlightRuns' /\ FrontStays'
    BY <1>2, <1>3, <2>1, <2>2, <2>3 DEF Serial, FlightRuns, FrontStays
  <2>6. QED
    BY <2>4, <2>5 DEF Inv
<1>4. CASE tq' = q /\ UNCHANGED <<running, eq>>
  <2>1. TypeOK'
    BY <1>1, <1>2, <1>4 DEF Inv, TypeOK, PostInsert
  <2>2. QED
    BY <1>1, <1>4, <2>1, QuietPreserves DEF PostInsert
<1>5. QED
  BY <1>3, <1>4 DEF PostInsert, Starts, Inserted, q

LEMMA TakePreserves ==
  ASSUME Inv, NEW w \in Workers, Take(w)
  PROVE  Inv'
<1>1. /\ Head(eq) \in Entry /\ Tail(eq) \in Seq(Entry) /\ Len(Tail(eq)) = Len(eq) - 1
      /\ Len(eq) \in Nat \ {0}
      /\ eq' = Tail(eq)
  BY HeadTailProperties, EmptySeq DEF Inv, TypeOK, Take
<1>2. Len(eq) = 1 /\ InFlight = {} /\ running
  BY <1>1 DEF Inv, Serial, FlightRuns, Take
<1>3. eq' = <<>> /\ Len(eq') = 0
  BY <1>1, <1>2, EmptySeq
<1>4. PICK ph \in {"task", "ended"} :
        worker' = [worker EXCEPT ![w] = [phase |-> ph, item |-> Head(eq)]]
  BY DEF Take
<1>5. [phase |-> ph, item |-> Head(eq)] \in Busy
  BY <1>1 DEF Busy
<1>6. InFlight' \subseteq {w}
  BY <1>2, <1>4 DEF InFlight, Inv, TypeOK
<1>7. began' \in Seq(Tasks)
  <2>1. Head(eq).task \in Tasks
    BY <1>1, EntryFacts
  <2>2. began' = Append(began, Head(eq).task) \/ began' = began
    BY Zenon DEF Take
  <2>3. began \in Seq(Tasks)
    BY DEF Inv, TypeOK
  <2>4. QED
    BY <2>1, <2>2, <2>3, AppendFacts
<1>8. TypeOK'
  BY <1>1, <1>4, <1>5, <1>7 DEF Take, Inv, TypeOK
<1>9. Hooked' => Hooked
  BY <1>4 DEF Hooked, Inv, TypeOK
<1>10. Serial' /\ FlightRuns' /\ FrontStays'
  BY <1>2, <1>3, <1>6, <1>9 DEF Serial, FlightRuns, FrontStays, Take, Inv
<1>11. QED
  BY <1>8, <1>10 DEF Inv

(* The steps of a worker that holds an item, up to the hook.               *)
LEMMA HolderPreserves ==
  ASSUME Inv, NEW w \in Workers, EndTask(w) \/ SkipAfter(w) \/ EnterAfter(w)
  PROVE  Inv'
<1>1. w \in InFlight /\ worker[w] \in Busy
  BY WorkerFacts DEF Inv, EndTask, SkipAfter, EnterAfter
<1>2. PICK x \in Busy \cup {Idle} : worker' = [worker EXCEPT ![w] = x]
  <2>1. [worker[w] EXCEPT !.phase = "ended"] \in Busy
    BY <1>1 DEF Busy
  <2>2. [worker[w] EXCEPT !.phase = "hook"] \in Busy
    BY <1>1 DEF Busy
  <2>3. QED
    BY <2>1, <2>2 DEF EndTask, SkipAfter, EnterAfter
<1>3. TypeOK'
  BY <1>2 DEF Inv, TypeOK, EndTask, SkipAfter, EnterAfter
<1>4. InFlight' \subseteq InFlight
  BY <1>1, <1>2 DEF InFlight, Inv, TypeOK
<1>5. Serial' /\ FlightRuns'
  BY <1>1, <1>4 DEF Inv, Serial, FlightRuns, EndTask, SkipAfter, EnterAfter
<1>6. Hooked' => Hooked \/ owned
  <2>1. CASE EnterAfter(w)
    BY <2>1 DEF EnterAfter
  <2>2. CASE EndTask(w) \/ SkipAfter(w)
    <3>1. \A v \in Workers : worker'[v].phase = "hook" => worker[v].phase = "hook"
      BY <1>1, <2>2 DEF EndTask, SkipAfter, Inv, TypeOK, Idle, Busy
    <3>2. QED
      BY <3>1 DEF Hooked
  <2>3. QED
    BY <2>1, <2>2
<1>7. FrontStays'
  BY <1>6 DEF Inv, FrontStays, EndTask, SkipAfter, EnterAfter
<1>8. QED
  BY <1>3, <1>5, <1>7 DEF Inv

(* What the hook knows when it has the lock.                               *)
LEMMA HookKnows ==
  ASSUME Inv, NEW w \in Workers, worker[w].phase = "hook"
  PROVE  /\ worker[w] \in Busy /\ InFlight = {w} /\ running /\ eq = <<>>
         /\ tq # <<>> /\ Tail(tq) \in Seq(Entry)
         /\ Len(tq) \in Nat \ {0} /\ Len(Tail(tq)) = Len(tq) - 1
         /\ \A j \in 1..Len(Tail(tq)) : Tail(tq)[j] = tq[j + 1]
<1>1. w \in InFlight /\ worker[w] \in Busy /\ Hooked
  BY WorkerFacts DEF Inv, Hooked
<1>2. InFlight = {w} /\ running /\ eq = <<>> /\ tq # <<>>
  BY <1>1 DEF Inv, Serial, FlightRuns, FrontStays
<1>3. QED
  BY <1>1, <1>2, HeadTailProperties, EmptySeq DEF Inv, TypeOK

LEMMA AfterPreserves ==
  ASSUME Inv, NEW w \in Workers, After(w)
  PROVE  Inv'
<1> DEFINE q == Tail(tq)
<1>1. /\ worker[w] \in Busy /\ InFlight = {w} /\ eq = <<>>
      /\ q \in Seq(Entry) /\ running
  BY HookKnows DEF After
<1>2. worker' = [worker EXCEPT ![w] = Idle]
  BY DEF After
<1>3. InFlight' = {} /\ ~Hooked'
  <2>1. \A v \in Workers : worker'[v] = Idle
    BY <1>1, <1>2 DEF InFlight, Inv, TypeOK
  <2>2. QED
    BY <2>1 DEF InFlight, Hooked, Idle
<1>4. trace' \in Seq(Tasks)
  <2>1. worker[w].item.task \in Tasks
    BY <1>1 DEF Busy, Entry
  <2>2. Append(trace, worker[w].item.task) \in Seq(Tasks)
        /\ Append(trace, worker[w].item.task) # <<>>
    BY <2>1, AppendFacts DEF Inv, TypeOK
  <2>3. QED
    BY <2>2, HeadTailProperties DEF After, Traced
<1>5. worker' \in [Workers -> Busy \cup {Idle}]
  BY <1>2 DEF Inv, TypeOK
<1> HIDE DEF q
<1>6. CASE /\ q # <<>> /\ eqAlive
           /\ eq' = Append(eq, Head(q))
           /\ tq' \in IF owned THEN HandedOver(q) ELSE {<<>>}
           /\ UNCHANGED running
  <2>1. Head(q) \in Entry
    BY <1>1, <1>6, HeadTailProperties
  <2>2. eq' \in Seq(Entry) /\ Len(eq') = 1
    BY <1>1, <1>6, <2>1
  <2>3. tq' \in Seq(Entry) /\ (owned => tq' # <<>>)
    BY <1>1, <1>6, HandedOverFacts, EmptySeq
  <2>4. TypeOK'
    BY <1>4, <1>5, <1>6, <2>2, <2>3 DEF Inv, TypeOK, After
  <2>5. Serial' /\ FlightRuns' /\ FrontStays'
    BY <1>1, <1>3, <1>6, <2>2, <2>3 DEF Serial, FlightRuns, FrontStays, After
  <2>6. QED
    BY <2>4, <2>5 DEF Inv
<1>7. CASE /\ tq' = IF owned THEN q ELSE <<>>
           /\ running' = FALSE
           /\ UNCHANGED eq
  <2>1. TypeOK'
    BY <1>1, <1>4, <1>5, <1>7, EmptySeq DEF Inv, TypeOK, After
  <2>2. Serial' /\ FlightRuns' /\ FrontStays'
    BY <1>1, <1>3, <1>7 DEF Serial, FlightRuns, FrontStays
  <2>3. QED
    BY <2>1, <2>2 DEF Inv
<1>8. QED
  BY <1>6, <1>7 DEF After, q

(* What cancel leaves of the list.                                         *)
LEMMA CancelKeeps ==
  ASSUME Inv, Cancel
  PROVE  /\ tq' \in Seq(Entry)
         /\ running => tq' # <<>> /\ Len(tq') = 1 /\ tq'[1] = tq[1]
<1>1. CASE running
  <2>1. tq # <<>> /\ tq \in Seq(Entry)
    BY <1>1 DEF Inv, TypeOK, FrontStays, Cancel
  <2>2. Len(tq) \in Nat \ {0} /\ tq[1] \in Entry
    BY <2>1, EmptySeq, ElementOfSeq
  <2>3. /\ SubSeq(tq, 1, 1) \in Seq(Entry) /\ Len(SubSeq(tq, 1, 1)) = 1
        /\ SubSeq(tq, 1, 1)[1] = tq[1]
    BY <2>1, <2>2, SubSeqProperties
  <2>4. tq' = SubSeq(tq, 1, 1)
    BY <1>1 DEF Cancel
  <2>5. tq' # <<>>
    <3> DEFINE r == SubSeq(tq, 1, 1)
    <3>1. Len(r) = 1
      BY <2>3
    <3> HIDE DEF r
    <3>2. r # <<>>
      BY <3>1, Len(<<>>) = 0
    <3>3. QED
      BY <2>4, <3>2 DEF r
  <2>6. QED
    BY <2>3, <2>4, <2>5
<1>2. CASE ~running
  BY <1>2, EmptySeq DEF Cancel
<1>3. QED
  BY <1>1, <1>2 DEF Inv, TypeOK

LEMMA DisruptionPreserves ==
  ASSUME Inv,
         Cancel \/ BreakQueue \/ Destroy \/ EqCancelAll \/ EqDrop \/
           \E n \in KeepCounts : SetKeep(n)
  PROVE  Inv'
<1>1. CASE Cancel
  <2>1. TypeOK'
    BY <1>1, CancelKeeps DEF Cancel, Inv, TypeOK
  <2>2. QED
    BY <1>1, <2>1, CancelKeeps, QuietPreserves DEF Cancel
<1>2. CASE BreakQueue
  <2>1. TypeOK'
    BY <1>2 DEF BreakQueue, Inv, TypeOK
  <2>2. QED
    BY <1>2, <2>1, QuietPreserves DEF BreakQueue
<1>3. CASE Destroy
  <2>1. TypeOK'
    BY <1>3, EmptySeq DEF Destroy, Inv, TypeOK
  <2>2. Hooked => tq' = tq
    BY <1>3 DEF Destroy, Hooked
  <2>3. QED
    BY <1>3, <2>1, <2>2, QuietPreserves DEF Destroy
<1>4. CASE EqCancelAll \/ EqDrop
  <2>1. TypeOK'
    BY <1>4, EmptySeq DEF EqCancelAll, EqDrop, Inv, TypeOK
  <2>2. QED
    BY <1>4, <2>1, QuietPreserves DEF EqCancelAll, EqDrop
<1>5. ASSUME NEW n \in KeepCounts, SetKeep(n) PROVE Inv'
  <2>1. TypeOK'
    BY <1>5, ChoicesAssumption DEF SetKeep, Inv, TypeOK
  <2>2. QED
    BY <1>5, <2>1, QuietPreserves DEF SetKeep
<1>6. QED
  BY <1>1, <1>2, <1>3, <1>4, <1>5

LEMMA NextPreserves == Inv /\ [Next]_vars => Inv'
<1> SUFFICES ASSUME Inv, [Next]_vars PROVE Inv'
  OBVIOUS
<1>1. ASSUME NEW k \in Tasks, PostBegin(k) \/ SyncReturn(k) PROVE Inv'
  <2>1. TypeOK'
    BY <1>1 DEF PostBegin, SyncReturn, Inv, TypeOK
  <2>2. QED
    BY <1>1, <2>1, QuietPreserves DEF PostBegin, SyncReturn
<1>2. ASSUME NEW w \in Workers, WorkerStep(w) PROVE Inv'
  BY <1>2, TakePreserves, HolderPreserves, AfterPreserves DEF WorkerStep
<1>3. CASE UNCHANGED vars
  <2>1. TypeOK'
    BY <1>3 DEF vars, Inv, TypeOK
  <2>2. QED
    BY <1>3, <2>1, QuietPreserves DEF vars
<1>4. QED
  BY <1>1, <1>2, <1>3, InsertPreserves, DisruptionPreserves DEF Next, CallStep

-------------------------------------------------------------------------------
(* The inductive invariant holds in every reachable state.                 *)
THEOREM Invariance == Spec => []Inv
BY InvInit, NextPreserves, PTL DEF Spec

(* Every variable keeps its type.                                          *)
THEOREM TypeCorrect == Spec => []TypeOK
<1>1. Inv => TypeOK
  BY DEF Inv
<1>2. QED
  BY <1>1, Invariance, PTL

(* The tasks of a queue run one at a time, for either direction and under  *)
(* every disruption.                                                       *)
THEOREM SerialCorrect == Spec => []Serial
<1>1. Inv => Serial
  BY DEF Inv
<1>2. QED
  BY <1>1, Invariance, PTL

-------------------------------------------------------------------------------
(* Without posts to the head, the front of tq is the shell of the task in  *)
(* flight.                                                                 *)

Shell ==
  running /\ (owned \/ Hooked) =>
    /\ tq[1].moved
    /\ eq # <<>> => eq[1].task = tq[1].task
    /\ \A w \in InFlight : worker[w].item.task = tq[1].task

LEMMA ShellInsert ==
  ASSUME Inv, Shell, NEW k \in Tasks, PostInsert(k, 0)
  PROVE  Shell'
<1> DEFINE q == Append(tq, NewTask(k))
<1>1. InFlight' = InFlight /\ Hooked' = Hooked /\ UNCHANGED <<worker, owned>>
  BY DEF PostInsert, InFlight, Hooked
<1>2. q \in Seq(Entry) /\ q # <<>> /\ \A j \in 1..Len(tq) : q[j] = tq[j]
  BY EntryFacts, AppendFacts DEF Inv, TypeOK
<1> HIDE DEF q
<1>3. CASE ~running /\ eq' = Append(eq, Head(q)) /\ tq' \in HandedOver(q)
  <2>1. Head(q) = q[1] /\ Head(q) \in Entry /\ tq'[1].moved /\ tq'[1].task = q[1].task
    BY <1>2, <1>3, HandedOverFacts
  <2>2. eq = <<>> /\ InFlight = {}
    BY <1>3 DEF Inv, FlightRuns
  <2>3. eq'[1] = Head(q)
    BY <1>3, <2>1, <2>2
  <2>4. QED
    BY <1>1, <2>1, <2>2, <2>3 DEF Shell
<1>4. CASE tq' = q /\ UNCHANGED <<running, eq>>
  <2>1. ASSUME running, owned \/ Hooked PROVE tq'[1] = tq[1]
    <3>1. tq # <<>>
      BY <2>1 DEF Inv, FrontStays
    <3>2. 1 \in 1..Len(tq)
      BY <3>1, EmptySeq DEF Inv, TypeOK
    <3>3. QED
      BY <1>2, <1>4, <3>2
  <2>2. QED
    BY <1>1, <1>4, <2>1 DEF Shell
<1>5. QED
  BY <1>3, <1>4 DEF PostInsert, Starts, Inserted, q

LEMMA ShellWorker ==
  ASSUME Inv, Shell, NEW w \in Workers, WorkerStep(w)
  PROVE  Shell'
<1>1. CASE Take(w)
  <2>1. PICK ph \in {"task", "ended"} :
          worker' = [worker EXCEPT ![w] = [phase |-> ph, item |-> Head(eq)]]
    BY <1>1 DEF Take
  <2>2. Head(eq) = eq[1] /\ eq # <<>> /\ InFlight = {} /\ eq' = <<>>
    <3>1. eq # <<>> /\ eq \in Seq(Entry) /\ Len(eq) <= 1 /\ eq' = Tail(eq)
      BY <1>1 DEF Take, Inv, TypeOK, Serial
    <3>2. /\ Len(eq) \in Nat \ {0} /\ Len(Tail(eq)) = Len(eq) - 1
          /\ Tail(eq) \in Seq(Entry)
      BY <3>1, EmptySeq, HeadTailProperties
    <3>3. Tail(eq) = <<>>
      BY <3>1, <3>2, EmptySeq
    <3>4. QED
      BY <3>1, <3>3 DEF Inv, Serial
  <2>3. \A v \in InFlight' : v = w
    BY <2>1, <2>2 DEF InFlight, Inv, TypeOK
  <2>4. worker'[w].item = eq[1]
    BY <2>1, <2>2 DEF Inv, TypeOK
  <2>5. Hooked' => Hooked
    BY <2>1 DEF Hooked, Inv, TypeOK
  <2>6. QED
    BY <1>1, <2>2, <2>3, <2>4, <2>5 DEF Shell, Take
<1>2. CASE EndTask(w) \/ SkipAfter(w) \/ EnterAfter(w)
  <2>1. w \in InFlight /\ worker[w] \in Busy
    BY <1>2, WorkerFacts DEF Inv, EndTask, SkipAfter, EnterAfter
  <2>2. \A v \in InFlight' : v \in InFlight /\ worker'[v].item = worker[v].item
    <3>1. \A v \in Workers \ {w} : worker'[v] = worker[v]
      BY <1>2 DEF EndTask, SkipAfter, EnterAfter, Inv, TypeOK
    <3>2. worker'[w] = Idle \/ worker'[w].item = worker[w].item
      BY <1>2, <2>1 DEF EndTask, SkipAfter, EnterAfter, Inv, TypeOK, Busy
    <3>3. QED
      BY <2>1, <3>1, <3>2 DEF InFlight
  <2>3. Hooked' => Hooked \/ owned
    <3>1. CASE EnterAfter(w)
      BY <3>1 DEF EnterAfter
    <3>2. CASE EndTask(w) \/ SkipAfter(w)
      <4>1. \A v \in Workers : worker'[v].phase = "hook" => worker[v].phase = "hook"
        BY <2>1, <3>2 DEF EndTask, SkipAfter, Inv, TypeOK, Idle, Busy
      <4>2. QED
        BY <4>1 DEF Hooked
    <3>3. QED
      BY <1>2, <3>1, <3>2
  <2>4. UNCHANGED <<running, owned, tq, eq>>
    BY <1>2 DEF EndTask, SkipAfter, EnterAfter
  <2>5. QED
    BY <2>2, <2>3, <2>4 DEF Shell
<1>3. CASE After(w)
  <2>1. InFlight = {w} /\ eq = <<>> /\ Tail(tq) \in Seq(Entry)
    BY <1>3, HookKnows DEF After
  <2>2. InFlight' = {} /\ ~Hooked'
    <3>1. \A v \in Workers : worker'[v] = Idle
      BY <1>3, <2>1 DEF InFlight, Inv, TypeOK, After
    <3>2. QED
      BY <3>1 DEF InFlight, Hooked, Idle
  <2>3. ASSUME running', owned
        PROVE  tq'[1].moved /\ eq'[1].task = tq'[1].task
    <3>1. /\ Tail(tq) # <<>> /\ eq' = Append(eq, Head(Tail(tq)))
          /\ tq' \in HandedOver(Tail(tq))
      BY <1>3, <2>3 DEF After
    <3>2. /\ Head(Tail(tq)) \in Entry /\ Head(Tail(tq)) = Tail(tq)[1]
          /\ tq'[1].moved /\ tq'[1].task = Tail(tq)[1].task
      BY <2>1, <3>1, HandedOverFacts
    <3>3. eq'[1] = Head(Tail(tq))
      BY <2>1, <3>1, <3>2
    <3>4. QED
      BY <3>2, <3>3
  <2>4. owned' = owned
    BY <1>3 DEF After
  <2>5. QED
    BY <2>2, <2>3, <2>4 DEF Shell
<1>4. QED
  BY <1>1, <1>2, <1>3 DEF WorkerStep

LEMMA ShellQuiet ==
  ASSUME Shell, UNCHANGED <<running, worker>>,
         eq' = eq \/ eq' = <<>>,
         owned' => owned,
         running /\ (owned' \/ Hooked) => tq'[1] = tq[1]
  PROVE  Shell'
<1>1. InFlight' = InFlight /\ Hooked' = Hooked
  BY DEF InFlight, Hooked
<1>2. QED
  BY <1>1 DEF Shell

LEMMA ShellNext ==
  ASSUME Directions \subseteq {0}
  PROVE  Inv /\ Shell /\ [Next]_vars => Shell'
<1> SUFFICES ASSUME Inv, Shell, [Next]_vars PROVE Shell'
  OBVIOUS
<1>1. ASSUME NEW k \in Tasks, NEW d \in Directions, PostInsert(k, d) PROVE Shell'
  BY <1>1, ShellInsert
<1>2. ASSUME NEW w \in Workers, WorkerStep(w) PROVE Shell'
  BY <1>2, ShellWorker
<1>3. CASE Cancel
  BY <1>3, CancelKeeps, ShellQuiet DEF Cancel
<1>4. CASE Destroy
  <2>1. Hooked => tq' = tq
    BY <1>4 DEF Destroy, Hooked
  <2>2. QED
    BY <1>4, <2>1, ShellQuiet DEF Destroy
<1>5. CASE /\ UNCHANGED <<running, worker, tq, owned>>
           /\ eq' = eq \/ eq' = <<>>
  BY <1>5, ShellQuiet
<1>6. QED
  BY <1>1, <1>2, <1>3, <1>4, <1>5
     DEF Next, CallStep, PostBegin, SyncReturn, BreakQueue, SetKeep, EqCancelAll, EqDrop, vars

(* When nobody posts to the head, every hook pops the task that ended.     *)
THEOREM HookCorrect ==
  ASSUME Directions \subseteq {0}
  PROVE  Spec => []HookPopsOwnTask
<1>1. Init => Shell
  BY DEF Init, Shell
<1>2. Inv /\ Shell /\ [Next]_vars => Shell'
  BY ShellNext
<1>3. Inv /\ Shell => HookPopsOwnTask
  <2>1. SUFFICES ASSUME Inv, Shell, NEW w \in InFlight, worker[w].phase = "hook"
                 PROVE  tq # <<>> /\ Head(tq).moved /\ Head(tq).task = worker[w].item.task
    BY DEF HookPopsOwnTask
  <2>2. w \in Workers /\ Hooked
    BY <2>1 DEF InFlight, Hooked
  <2>3. running /\ tq # <<>>
    BY <2>1, <2>2, HookKnows
  <2>4. Head(tq) = tq[1]
    OBVIOUS
  <2>5. QED
    BY <2>1, <2>2, <2>3, <2>4 DEF Shell
<1>4. QED
  BY <1>1, <1>2, <1>3, Invariance, PTL DEF Spec

-------------------------------------------------------------------------------
(* The refinement.                                                         *)

Fresh == {k \in Tasks : call[k] \in {"none", "posting"}}

Rest == IF running THEN SubSeq(tq, 2, Len(tq)) ELSE tq

Active == IF Running = {} THEN NoTask ELSE CHOOSE k \in Running : TRUE

LEMMA EmptyByLen ==
  ASSUME NEW S, NEW s \in Seq(S), Len(s) = 0
  PROVE  s = <<>>
BY EmptySeq

LEMMA IdsFacts ==
  ASSUME NEW s \in Seq(Entry)
  PROVE  /\ Ids(s) \in Seq(Tasks) /\ Len(Ids(s)) = Len(s) /\ Len(s) \in Nat
         /\ \A j \in 1..Len(s) : Ids(s)[j] = s[j].task
         /\ s = <<>> => Ids(s) = <<>>
<1>1. Len(s) \in Nat /\ DOMAIN s = 1..Len(s) /\ \A j \in 1..Len(s) : s[j].task \in Tasks
  BY LenProperties, ElementOfSeq, EntryFacts
<1>2. Ids(s) \in [1..Len(s) -> Tasks] /\ \A j \in 1..Len(s) : Ids(s)[j] = s[j].task
  BY <1>1 DEF Ids
<1>3. Ids(s) \in Seq(Tasks) /\ Len(Ids(s)) = Len(s)
  BY <1>1, <1>2
<1>4. s = <<>> => Ids(s) = <<>>
  BY <1>3, EmptyByLen, EmptySeq
<1>5. QED
  BY <1>1, <1>2, <1>3, <1>4

(* The rest of a list after its front.                                     *)
LEMMA RestFacts ==
  ASSUME NEW s \in Seq(Entry), s # <<>>
  PROVE  /\ SubSeq(s, 2, Len(s)) \in Seq(Entry)
         /\ Len(SubSeq(s, 2, Len(s))) = Len(s) - 1
         /\ \A j \in 1..(Len(s) - 1) : SubSeq(s, 2, Len(s))[j] = s[j + 1]
         /\ SubSeq(s, 2, Len(s)) = Tail(s)
<1>1. SubSeq(s, 2, Len(s)) = Tail(s)
  BY TailIsSubSeq
<1>2. QED
  BY <1>1, HeadTailProperties

LEMMA EmptyRest == SubSeq(<<>>, 2, Len(<<>>)) = <<>>
BY SubSeqEmpty, Len(<<>>) = 0

LEMMA RestType == Inv => Rest \in Seq(Entry) /\ Waiting = Ids(eq) \o Ids(Rest)
<1> SUFFICES ASSUME Inv PROVE Rest \in Seq(Entry)
  BY DEF Waiting, Rest
<1>1. CASE running /\ tq # <<>>
  BY <1>1, RestFacts DEF Rest, Inv, TypeOK
<1>2. CASE running /\ tq = <<>>
  BY <1>2, EmptyRest, EmptySeq DEF Rest
<1>3. CASE ~running
  BY <1>3 DEF Rest, Inv, TypeOK
<1>4. QED
  BY <1>1, <1>2, <1>3

(* Either part of a concatenation is one of its ends.                      *)
LEMMA ConcatParts ==
  ASSUME NEW S, NEW x \in Seq(S), NEW y \in Seq(S), NEW b, b = x \o y
  PROVE  /\ b \in Seq(S) /\ Len(b) = Len(x) + Len(y)
         /\ Len(x) \in Nat /\ Len(y) \in Nat
         /\ x = SubSeq(b, 1, Len(x))
         /\ y = SubSeq(b, Len(x) + 1, Len(b))
<1>1. /\ b \in Seq(S) /\ Len(b) = Len(x) + Len(y)
      /\ Len(x) \in Nat /\ Len(y) \in Nat
      /\ \A i \in 1..(Len(x) + Len(y)) :
           b[i] = IF i <= Len(x) THEN x[i] ELSE y[i - Len(x)]
  BY ConcatProperties
<1>2. \A i \in 1..Len(b) : b[i] \in S
  BY <1>1, ElementOfSeq
<1>3. x = SubSeq(b, 1, Len(x))
  <2>1. /\ SubSeq(b, 1, Len(x)) \in Seq(S)
        /\ Len(SubSeq(b, 1, Len(x))) = Len(x)
        /\ \A i \in 1..Len(x) : SubSeq(b, 1, Len(x))[i] = b[i]
    BY <1>1, <1>2, SubSeqProperties
  <2>2. \A i \in 1..Len(x) : b[i] = x[i]
    BY <1>1
  <2>3. QED
    BY <1>1, <2>1, <2>2, SeqEqual
<1>4. y = SubSeq(b, Len(x) + 1, Len(b))
  <2>1. /\ SubSeq(b, Len(x) + 1, Len(b)) \in Seq(S)
        /\ Len(SubSeq(b, Len(x) + 1, Len(b))) = Len(y)
        /\ \A i \in 1..Len(y) : SubSeq(b, Len(x) + 1, Len(b))[i] = b[Len(x) + i]
    BY <1>1, <1>2, SubSeqProperties
  <2>2. \A i \in 1..Len(y) : b[Len(x) + i] = y[i]
    BY <1>1
  <2>3. QED
    BY <1>1, <2>1, <2>2, SeqEqual
<1>5. QED
  BY <1>1, <1>3, <1>4

LEMMA ConcatAt ==
  ASSUME NEW x \in Seq(Tasks), NEW y \in Seq(Tasks)
  PROVE  /\ x \o y \in Seq(Tasks) /\ Len(x \o y) = Len(x) + Len(y)
         /\ Len(x) \in Nat /\ Len(y) \in Nat
         /\ \A i \in 1..Len(x) : (x \o y)[i] = x[i]
         /\ \A i \in 1..Len(y) : (x \o y)[Len(x) + i] = y[i]
         /\ y = SubSeq(x \o y, Len(x) + 1, Len(x \o y))
<1> DEFINE b == x \o y
<1>1. /\ b \in Seq(Tasks) /\ Len(b) = Len(x) + Len(y)
      /\ Len(x) \in Nat /\ Len(y) \in Nat
      /\ \A i \in 1..(Len(x) + Len(y)) :
           b[i] = IF i <= Len(x) THEN x[i] ELSE y[i - Len(x)]
  BY ConcatProperties
<1>2. y = SubSeq(b, Len(x) + 1, Len(b))
  BY ConcatParts
<1> HIDE DEF b
<1>3. \A i \in 1..Len(x) : b[i] = x[i]
  BY <1>1
<1>4. ASSUME NEW i \in 1..Len(y) PROVE b[Len(x) + i] = y[i]
  <2>1. /\ Len(x) + i \in 1..(Len(x) + Len(y)) /\ ~(Len(x) + i <= Len(x))
        /\ (Len(x) + i) - Len(x) = i
    BY <1>1
  <2>2. QED
    BY <1>1, <2>1
<1>5. QED
  BY <1>1, <1>2, <1>3, <1>4 DEF b

LEMMA FrontOfConcat ==
  ASSUME NEW x \in Seq(Tasks), NEW y \in Seq(Tasks), Len(x) = 1
  PROVE  x \o y # <<>> /\ Head(x \o y) = x[1] /\ Tail(x \o y) = y
<1> DEFINE b == x \o y
<1>1. /\ b \in Seq(Tasks) /\ Len(b) = Len(x) + Len(y)
      /\ Len(x) \in Nat /\ Len(y) \in Nat
      /\ \A i \in 1..Len(x) : b[i] = x[i]
      /\ y = SubSeq(b, Len(x) + 1, Len(b))
  BY ConcatAt, Zenon
<1> HIDE DEF b
<1>2. Len(b) \in Nat \ {0} /\ b[1] = x[1] /\ y = SubSeq(b, 2, Len(b))
  BY <1>1
<1>3. b # <<>> /\ Tail(b) = SubSeq(b, 2, Len(b))
  BY <1>1, <1>2, TailIsSubSeq, EmptySeq
<1>4. Head(b) = b[1]
  OBVIOUS
<1>5. QED
  BY <1>2, <1>3, <1>4 DEF b

(* The whole, either part and nothing are what is left of a concatenation  *)
(* when its ends are dropped.                                              *)
LEMMA Ends ==
  ASSUME NEW x \in Seq(Tasks), NEW y \in Seq(Tasks), NEW c \in {x \o y, x, y, <<>>}
  PROVE  \E m, n \in 0..Len(x \o y) : c = SubSeq(x \o y, m + 1, n)
<1> DEFINE b == x \o y
<1> SUFFICES \E m, n \in 0..Len(b) : c = SubSeq(b, m + 1, n)
  OBVIOUS
<1>1. /\ b \in Seq(Tasks) /\ Len(b) = Len(x) + Len(y)
      /\ Len(x) \in Nat /\ Len(y) \in Nat
      /\ x = SubSeq(b, 1, Len(x))
      /\ y = SubSeq(b, Len(x) + 1, Len(b))
  BY ConcatParts
<1> HIDE DEF b
<1>2. CASE c = b
  <2>1. b = SubSeq(b, 0 + 1, Len(b))
    <3>1. <<>> \in Seq(Tasks) /\ b = <<>> \o b
      BY <1>1, EmptySeq, ConcatEmptySeq
    <3>2. b = SubSeq(b, Len(<<>>) + 1, Len(b))
      BY <1>1, <3>1, ConcatParts
    <3>3. QED
      BY <3>2, Len(<<>>) = 0
  <2>2. 0 \in 0..Len(b) /\ Len(b) \in 0..Len(b)
    BY <1>1
  <2>3. QED
    BY <1>2, <2>1, <2>2, Zenon
<1>3. CASE c = x
  <2>1. 0 \in 0..Len(b) /\ Len(x) \in 0..Len(b) /\ 0 + 1 = 1
    BY <1>1
  <2>2. x = SubSeq(b, 0 + 1, Len(x))
    BY <1>1, <2>1
  <2>3. QED
    BY <1>3, <2>1, <2>2, Zenon
<1>4. CASE c = y
  <2>1. Len(x) \in 0..Len(b) /\ Len(b) \in 0..Len(b)
    BY <1>1
  <2>2. QED
    BY <1>1, <1>4, <2>1, Zenon
<1>5. CASE c = <<>>
  <2>1. 0 \in 0..Len(b) /\ <<>> = SubSeq(b, 0 + 1, 0)
    BY <1>1, SubSeqEmpty
  <2>2. QED
    BY <1>5, <2>1, Zenon
<1>6. QED
  BY <1>2, <1>3, <1>4, <1>5 DEF b

LEMMA WaitingFacts ==
  ASSUME Inv
  PROVE  /\ Ids(eq) \in Seq(Tasks) /\ Ids(Rest) \in Seq(Tasks) /\ Ids(<<>>) = <<>>
         /\ Waiting = Ids(eq) \o Ids(Rest)
         /\ eq = <<>> => Waiting = Ids(Rest)
<1>1. eq \in Seq(Entry) /\ Rest \in Seq(Entry) /\ Waiting = Ids(eq) \o Ids(Rest)
  BY RestType DEF Inv, TypeOK
<1>2. Ids(eq) \in Seq(Tasks) /\ Ids(Rest) \in Seq(Tasks) /\ Ids(<<>>) = <<>>
  BY <1>1, IdsFacts, EmptySeq
<1>3. <<>> \o Ids(Rest) = Ids(Rest)
  BY <1>2, ConcatEmptySeq
<1>4. QED
  BY <1>1, <1>2, <1>3

(* A step that only drops items from the event queue or tasks from tq.     *)
LEMMA DropStep ==
  ASSUME Inv, UNCHANGED <<Fresh, Active>>, eq' \in {eq, <<>>}, Rest' \in {Rest, <<>>}
  PROVE  Abstract!Discard
<1>1. Waiting' = Ids(eq') \o Ids(Rest')
  BY DEF Waiting, Rest
<1>2. /\ Ids(eq) \o Ids(<<>>) = Ids(eq) /\ Ids(<<>>) \o Ids(Rest) = Ids(Rest)
      /\ Ids(<<>>) \o Ids(<<>>) = <<>>
  BY WaitingFacts, ConcatEmptySeq, EmptySeq
<1>3. Waiting' \in {Waiting, Ids(eq), Ids(Rest), <<>>}
  BY <1>1, <1>2, WaitingFacts
<1>4. \E m, n \in 0..Len(Waiting) : Waiting' = SubSeq(Waiting, m + 1, n)
  <2>1. /\ Ids(eq) \in Seq(Tasks) /\ Ids(Rest) \in Seq(Tasks)
        /\ Waiting = Ids(eq) \o Ids(Rest)
    BY WaitingFacts
  <2>2. Waiting' \in {Ids(eq) \o Ids(Rest), Ids(eq), Ids(Rest), <<>>}
    BY <1>3, <2>1
  <2> DEFINE x == Ids(eq)
             y == Ids(Rest)
             c == Waiting'
  <2>3. x \in Seq(Tasks) /\ y \in Seq(Tasks) /\ c \in {x \o y, x, y, <<>>}
    BY <2>1, <2>2
  <2> HIDE DEF x, y, c
  <2>4. \E m, n \in 0..Len(x \o y) : c = SubSeq(x \o y, m + 1, n)
    BY <2>3, Ends, Zenon
  <2>5. QED
    BY <2>1, <2>4 DEF x, y, c
<1>5. QED
  BY <1>4 DEF Abstract!Discard, Fresh, Active

LEMMA IdsAppend ==
  ASSUME NEW s \in Seq(Entry), NEW e \in Entry
  PROVE  Ids(Append(s, e)) = Append(Ids(s), e.task)
<1>1. /\ Append(s, e) \in Seq(Entry) /\ Len(Append(s, e)) = Len(s) + 1
      /\ \A j \in 1..Len(s) : Append(s, e)[j] = s[j]
      /\ Append(s, e)[Len(s) + 1] = e
  BY AppendFacts
<1>2. /\ Ids(s) \in Seq(Tasks) /\ Len(Ids(s)) = Len(s) /\ Len(s) \in Nat
      /\ \A j \in 1..Len(s) : Ids(s)[j] = s[j].task
  BY IdsFacts
<1>3. e.task \in Tasks
  BY EntryFacts
<1>4. /\ Append(Ids(s), e.task) \in Seq(Tasks)
      /\ Len(Append(Ids(s), e.task)) = Len(s) + 1
      /\ \A j \in 1..Len(s) : Append(Ids(s), e.task)[j] = s[j].task
      /\ Append(Ids(s), e.task)[Len(s) + 1] = e.task
  BY <1>2, <1>3, AppendFacts
<1> DEFINE long == Append(s, e)
<1>5. /\ long \in Seq(Entry) /\ Len(long) = Len(s) + 1
      /\ \A j \in 1..Len(s) : long[j] = s[j]
      /\ long[Len(s) + 1] = e
  BY <1>1
<1> HIDE DEF long
<1>6. /\ Ids(long) \in Seq(Tasks) /\ Len(Ids(long)) = Len(long)
      /\ \A j \in 1..Len(long) : Ids(long)[j] = long[j].task
  BY <1>5, IdsFacts
<1>7. \A j \in 1..(Len(s) + 1) : Ids(long)[j] = Append(Ids(s), e.task)[j]
  BY <1>2, <1>4, <1>5, <1>6
<1>8. Ids(long) = Append(Ids(s), e.task)
  BY <1>2, <1>4, <1>5, <1>6, <1>7, SeqEqual
<1>9. QED
  BY <1>8 DEF long

LEMMA IdsOfFront ==
  ASSUME NEW q \in Seq(Entry), q # <<>>
  PROVE  Ids(q) = Ids(<<Head(q)>>) \o Ids(Tail(q))
<1> DEFINE h == <<Head(q)>>
           r == Tail(q)
<1>1. /\ Len(q) \in Nat \ {0} /\ Head(q) \in Entry /\ Head(q) = q[1]
      /\ r \in Seq(Entry) /\ Len(r) = Len(q) - 1
      /\ \A j \in 1..Len(r) : r[j] = q[j + 1]
  BY HeadTailProperties, EmptySeq
<1>2. h \in Seq(Entry) /\ Len(h) = 1 /\ h[1] = q[1]
  BY <1>1
<1> HIDE DEF h, r
<1>3. /\ Ids(h) \in Seq(Tasks) /\ Len(Ids(h)) = 1 /\ Ids(h)[1] = q[1].task
      /\ Ids(r) \in Seq(Tasks) /\ Len(Ids(r)) = Len(r)
      /\ \A j \in 1..Len(r) : Ids(r)[j] = r[j].task
      /\ Ids(q) \in Seq(Tasks) /\ Len(Ids(q)) = Len(q)
      /\ \A j \in 1..Len(q) : Ids(q)[j] = q[j].task
  BY <1>1, <1>2, IdsFacts
<1> DEFINE x == Ids(h)
           y == Ids(r)
           z == Ids(q)
<1> HIDE DEF x, y, z
<1>4. /\ x \in Seq(Tasks) /\ Len(x) = 1 /\ x[1] = q[1].task
      /\ y \in Seq(Tasks) /\ Len(y) = Len(r)
      /\ \A j \in 1..Len(r) : y[j] = r[j].task
      /\ z \in Seq(Tasks) /\ Len(z) = Len(q)
      /\ \A j \in 1..Len(q) : z[j] = q[j].task
  BY <1>3 DEF x, y, z
<1> DEFINE b == x \o y
<1>5. /\ b \in Seq(Tasks) /\ Len(b) = Len(x) + Len(y)
      /\ \A i \in 1..Len(x) : b[i] = x[i]
      /\ \A i \in 1..Len(y) : b[Len(x) + i] = y[i]
  BY <1>4, ConcatAt, Zenon
<1> HIDE DEF b
<1>6. ASSUME NEW j \in 1..Len(z) PROVE z[j] = b[j]
  <2>1. CASE j = 1
    BY <1>1, <1>4, <1>5, <2>1
  <2>2. CASE j # 1
    <3>1. PICK i \in 1..Len(r) : j = 1 + i
      <4>1. j - 1 \in 1..Len(r) /\ j = 1 + (j - 1)
        BY <1>1, <1>4, <2>2
      <4>2. QED
        BY <4>1
    <3>2. b[j] = y[i] /\ y[i] = r[i].task /\ r[i] = q[j]
      BY <1>1, <1>4, <1>5, <3>1
    <3>3. QED
      BY <1>4, <3>2
  <2>3. QED
    BY <2>1, <2>2
<1>7. z = b
  <2>1. Len(z) = Len(b)
    BY <1>1, <1>4, <1>5
  <2>2. QED
    BY <1>4, <1>5, <1>6, <2>1, SeqEqual
<1>8. QED
  BY <1>7 DEF b, x, y, z, h, r

LEMMA ConcatAppend ==
  ASSUME NEW S, NEW x \in Seq(S), NEW y \in Seq(S), NEW e \in S
  PROVE  x \o Append(y, e) = Append(x \o y, e)
<1>1. <<e>> \in Seq(S)
  OBVIOUS
<1>2. x \o (y \o <<e>>) = (x \o y) \o <<e>>
  BY <1>1, ConcatAssociative
<1>3. x \o y \in Seq(S)
  BY ConcatProperties
<1>4. Append(y, e) = y \o <<e>> /\ Append(x \o y, e) = (x \o y) \o <<e>>
  BY <1>3, AppendIsConcat
<1>5. QED
  BY <1>2, <1>4

(* A call that gives a task up, without any change to the backlog.         *)
LEMMA RefusedStep ==
  ASSUME Inv, NEW k \in Tasks, PostBegin(k)
  PROVE  Abstract!Next \/ UNCHANGED Abstract!vars
<1>1. UNCHANGED <<Waiting, Active>>
  BY DEF PostBegin, Waiting, Active, Running
<1>2. CASE valid
  <2>1. UNCHANGED Fresh
    BY <1>2 DEF PostBegin, Fresh, Inv, TypeOK
  <2>2. QED
    BY <1>1, <2>1 DEF Abstract!vars, Fresh, Active
<1>3. CASE ~valid
  <2>1. k \in Fresh /\ Fresh' = Fresh \ {k}
    BY <1>3 DEF PostBegin, Fresh, Inv, TypeOK
  <2>2. Abstract!Post(k)
    BY <1>1, <2>1 DEF Abstract!Post, Fresh, Active
  <2>3. QED
    BY <2>2 DEF Abstract!Next
<1>4. QED
  BY <1>2, <1>3

LEMMA InsertStep ==
  ASSUME Inv, NEW k \in Tasks, PostInsert(k, 0)
  PROVE  Abstract!Post(k)
<1> DEFINE n == NewTask(k)
           q == Append(tq, n)
<1>1. n \in Entry /\ n.task = k
  BY EntryFacts DEF NewTask
<1>2. /\ tq \in Seq(Entry) /\ eq \in Seq(Entry) /\ Len(tq) \in Nat
      /\ q \in Seq(Entry) /\ q # <<>> /\ Len(q) = Len(tq) + 1
      /\ q[Len(tq) + 1] = n
  BY <1>1, AppendFacts DEF Inv, TypeOK
<1>3. k \in Fresh /\ Fresh' = Fresh \ {k} /\ UNCHANGED Active
  BY DEF PostInsert, Fresh, Inv, TypeOK, Active, Running
<1>4. Waiting' = Ids(eq') \o Ids(Rest')
  BY DEF Waiting, Rest
<1>5. CASE /\ Len(q) = 1 /\ ~running
           /\ running' = TRUE
           /\ eq' = Append(eq, Head(q))
           /\ tq' \in HandedOver(q)
  <2>1. tq = <<>> /\ eq = <<>>
    BY <1>2, <1>5, EmptyByLen DEF Inv, FlightRuns
  <2>2. /\ Head(q) = q[1] /\ tq' \in Seq(Entry) /\ tq' # <<>>
        /\ Len(tq') = Len(q)
    <3> HIDE DEF q
    <3>1. QED
      BY <1>2, <1>5, HandedOverFacts
  <2>3. Rest' = <<>>
    <3>1. /\ SubSeq(tq', 2, Len(tq')) \in Seq(Entry)
          /\ Len(SubSeq(tq', 2, Len(tq'))) = Len(tq') - 1
      BY <2>2, RestFacts
    <3>2. Rest' = SubSeq(tq', 2, Len(tq'))
      BY <1>5 DEF Rest
    <3> HIDE DEF q
    <3>3. Rest' \in Seq(Entry) /\ Len(Rest') = 0
      BY <1>5, <2>2, <3>1, <3>2
    <3>4. QED
      BY <3>3, EmptyByLen
  <2>4. Rest = <<>>
    BY <1>5, <2>1 DEF Rest
  <2>5. Waiting = <<>>
    BY <2>1, <2>4, WaitingFacts
  <2>6. eq' = Append(<<>>, n)
    <3>1. Len(tq) = 0
      BY <2>1
    <3>2. q[1] = n
      BY <1>2, <3>1
    <3> HIDE DEF q, n
    <3>3. QED
      BY <1>5, <2>1, <2>2, <3>2
  <2>7. Ids(eq') = Append(<<>>, k)
    BY <1>1, <2>6, IdsAppend, WaitingFacts, EmptySeq
  <2>8. Waiting' = Append(Waiting, k)
    <3>1. Append(<<>>, k) \in Seq(Tasks)
      BY EmptySeq, AppendFacts
    <3>2. Append(<<>>, k) \o <<>> = Append(<<>>, k)
      BY <3>1, ConcatEmptySeq
    <3>3. QED
      BY <1>4, <2>3, <2>5, <2>7, <3>2, WaitingFacts
  <2>9. QED
    BY <1>3, <2>8 DEF Abstract!Post, Fresh, Active
<1>6. CASE tq' = q /\ UNCHANGED <<running, eq>>
  <2>1. CASE running /\ tq = <<>>
    <3>1. Rest = <<>>
      BY <2>1, EmptyRest DEF Rest
    <3>2. Len(q) = 1
      BY <1>2, <2>1, Len(<<>>) = 0
    <3>3. Rest' = SubSeq(q, 2, Len(q))
      BY <1>6, <2>1 DEF Rest
    <3> HIDE DEF q
    <3>4. Rest' \in Seq(Entry) /\ Len(Rest') = 0
      BY <1>2, <3>2, <3>3, RestFacts
    <3>5. Rest' = <<>>
      BY <3>4, EmptyByLen
    <3>6. Waiting' = Waiting
      BY <1>4, <1>6, <3>1, <3>5, WaitingFacts
    <3>7. QED
      BY <1>3, <3>6 DEF Abstract!Post, Fresh, Active
  <2>2. CASE ~running \/ tq # <<>>
    <3>1. Rest' = Append(Rest, n)
      <4>1. CASE running
        <5>1. Rest = Tail(tq) /\ Rest' = Tail(q)
          <6>1. Rest = SubSeq(tq, 2, Len(tq)) /\ Rest' = SubSeq(q, 2, Len(q))
            BY <1>6, <4>1 DEF Rest
          <6> HIDE DEF q
          <6>2. QED
            BY <1>2, <2>2, <4>1, <6>1, RestFacts
        <5>2. Tail(q) = Append(Tail(tq), n)
          BY <1>1, <1>2, <2>2, <4>1, HeadTailAppend
        <5>3. QED
          BY <5>1, <5>2
      <4>2. CASE ~running
        BY <1>6, <4>2 DEF Rest
      <4>3. QED
        BY <4>1, <4>2
    <3>2. Ids(Rest') = Append(Ids(Rest), k)
      <4> HIDE DEF n
      <4>1. QED
        BY <1>1, <3>1, IdsAppend, RestType
    <3>3. Ids(eq) \o Append(Ids(Rest), k) = Append(Ids(eq) \o Ids(Rest), k)
      BY WaitingFacts, ConcatAppend
    <3>4. Waiting' = Append(Waiting, k)
      BY <1>4, <1>6, <3>2, <3>3, WaitingFacts
    <3>5. QED
      BY <1>3, <3>4 DEF Abstract!Post, Fresh, Active
  <2>3. QED
    BY <2>1, <2>2
<1>7. QED
  BY <1>5, <1>6 DEF PostInsert, Starts, Inserted

(* With one task in flight, Running is that task or nothing.               *)
LEMMA RunningFacts ==
  ASSUME Inv, NEW w \in Workers, w \in InFlight
  PROVE  /\ worker[w].phase = "task" => Running = {worker[w].item.task}
         /\ worker[w].phase # "task" => Running = {}
<1>1. \A v \in Workers : worker[v].phase = "task" => v = w
  BY WorkerFacts DEF Inv, Serial
<1>2. QED
  BY <1>1 DEF Running

(* What running a set of tasks means to the abstract queue.                *)
LEMMA ActiveFacts ==
  /\ Running = {} => Active = NoTask
  /\ \A k \in Tasks : Running = {k} => Active = k /\ Active # NoTask
<1>1. ASSUME NEW k \in Tasks, Running = {k} PROVE Active = k
  BY <1>1, Zenon DEF Active
<1>2. QED
  BY <1>1, TasksAssumption DEF Active

(* A worker that takes an item takes what is first in the waiting line.    *)
LEMMA TakeFront ==
  ASSUME Inv, NEW w \in Workers, Take(w)
  PROVE  /\ Head(eq) \in Entry
         /\ Waiting # <<>> /\ Head(Waiting) = Head(eq).task
         /\ Waiting' = Tail(Waiting)
<1>1. eq # <<>> /\ eq \in Seq(Entry) /\ eq' = Tail(eq) /\ Len(eq) <= 1
  BY DEF Take, Inv, TypeOK, Serial
<1>2. /\ Len(eq) = 1 /\ Head(eq) \in Entry /\ Head(eq) = eq[1]
      /\ Tail(eq) \in Seq(Entry) /\ Len(Tail(eq)) = 0
  <2>1. /\ Len(eq) \in Nat \ {0} /\ Head(eq) \in Entry
        /\ Tail(eq) \in Seq(Entry) /\ Len(Tail(eq)) = Len(eq) - 1
    BY <1>1, EmptySeq, HeadTailProperties
  <2>2. QED
    BY <1>1, <2>1
<1>3. eq' = <<>>
  BY <1>1, <1>2, EmptySeq
<1>4. Rest' = Rest
  BY DEF Take, Rest
<1> DEFINE x == Ids(eq)
           y == Ids(Rest)
           b == x \o y
<1>5. /\ x \in Seq(Tasks) /\ y \in Seq(Tasks) /\ Waiting = b /\ Len(x) = 1
      /\ x[1] = Head(eq).task
  BY <1>1, <1>2, WaitingFacts, IdsFacts
<1>6. Waiting' = y
  <2>1. Waiting' = Ids(eq') \o Ids(Rest')
    BY DEF Waiting, Rest
  <2>2. QED
    BY <1>3, <1>4, <1>5, <2>1, WaitingFacts, ConcatEmptySeq
<1> HIDE DEF x, y
<1>7. b # <<>> /\ Head(b) = x[1] /\ Tail(b) = y
  BY <1>5, FrontOfConcat
<1> HIDE DEF b
<1>8. QED
  BY <1>2, <1>5, <1>6, <1>7

LEMMA TakeStep ==
  ASSUME Inv, NEW w \in Workers, Take(w)
  PROVE  Abstract!Begin \/ Abstract!Discard
<1>1. /\ eq # <<>> /\ eq \in Seq(Entry) /\ eq' = Tail(eq) /\ Len(eq) <= 1
      /\ InFlight = {} /\ running
  BY DEF Take, Inv, TypeOK, Serial, FlightRuns
<1>2. /\ Len(eq) = 1 /\ Head(eq) \in Entry /\ Head(eq) = eq[1]
      /\ Tail(eq) \in Seq(Entry) /\ Len(Tail(eq)) = 0
  <2>1. /\ Len(eq) \in Nat \ {0} /\ Head(eq) \in Entry
        /\ Tail(eq) \in Seq(Entry) /\ Len(Tail(eq)) = Len(eq) - 1
    BY <1>1, EmptySeq, HeadTailProperties
  <2>2. QED
    BY <1>1, <2>1
<1>3. eq' = <<>>
  BY <1>1, <1>2, EmptySeq
<1>4. UNCHANGED Rest /\ UNCHANGED Fresh /\ Rest' \in {Rest, <<>>}
  BY DEF Take, Rest, Fresh
<1>5. Running = {} /\ Active = NoTask
  <2>1. Running = {}
    BY <1>1 DEF Running, InFlight, Idle
  <2>2. QED
    BY <2>1, ActiveFacts
<1>6. CASE /\ Head(eq).t
           /\ worker' = [worker EXCEPT ![w] = [phase |-> "task", item |-> Head(eq)]]
  <2>1. Head(eq).task \in Tasks
    BY <1>2, EntryFacts
  <2>2. Running' = {Head(eq).task}
    <3>1. \A v \in Workers : worker'[v].phase = "task" <=> v = w
      BY <1>1, <1>6 DEF InFlight, Idle, Inv, TypeOK
    <3>2. worker'[w].item = Head(eq)
      BY <1>6 DEF Inv, TypeOK
    <3>3. QED
      BY <3>1, <3>2 DEF Running
  <2>3. Active' = Head(eq).task
    BY <2>2, Zenon DEF Active
  <2>4. /\ Waiting # <<>> /\ Head(Waiting) = Head(eq).task
        /\ Waiting' = Tail(Waiting)
    BY TakeFront
  <2>5. Abstract!Begin
    BY <1>4, <1>5, <2>3, <2>4 DEF Abstract!Begin, Fresh, Active
  <2>6. QED
    BY <2>5
<1>7. CASE worker' = [worker EXCEPT ![w] = [phase |-> "ended", item |-> Head(eq)]]
  <2>1. Running' = {}
    BY <1>1, <1>7 DEF Running, InFlight, Idle, Inv, TypeOK
  <2>2. Active' = NoTask
    BY <2>1 DEF Active
  <2>3. QED
    BY <1>3, <1>4, <1>5, <2>2, DropStep
<1>8. QED
  BY <1>6, <1>7 DEF Take

LEMMA HolderStep ==
  ASSUME Inv, NEW w \in Workers, EndTask(w) \/ SkipAfter(w) \/ EnterAfter(w)
  PROVE  Abstract!End \/ UNCHANGED Abstract!vars
<1>1. w \in InFlight /\ worker[w] \in Busy /\ worker[w].item.task \in Tasks
  BY WorkerFacts, EntryFacts DEF Inv, EndTask, SkipAfter, EnterAfter
<1>2. UNCHANGED <<Fresh, Waiting>>
  BY DEF EndTask, SkipAfter, EnterAfter, Fresh, Waiting
<1>3. Running' = {}
  <2>1. \A v \in Workers \ {w} : worker[v] = Idle
    BY <1>1 DEF Inv, Serial, InFlight
  <2>2. \A v \in Workers \ {w} : worker'[v] = Idle
    BY <2>1 DEF EndTask, SkipAfter, EnterAfter, Inv, TypeOK
  <2>3. worker'[w].phase # "task"
    BY <1>1 DEF EndTask, SkipAfter, EnterAfter, Inv, TypeOK, Idle, Busy
  <2>4. QED
    BY <2>2, <2>3 DEF Running, Idle
<1>4. Active' = NoTask
  BY <1>3 DEF Active
<1>5. CASE EndTask(w)
  <2>1. Active # NoTask
    BY <1>1, <1>5, RunningFacts, ActiveFacts DEF EndTask
  <2>2. QED
    BY <1>2, <1>4, <2>1 DEF Abstract!End, Fresh, Active
<1>6. CASE SkipAfter(w) \/ EnterAfter(w)
  <2>1. worker[w].phase # "task"
    BY <1>6 DEF SkipAfter, EnterAfter
  <2>2. Active = NoTask
    BY <1>1, <2>1, RunningFacts, ActiveFacts
  <2>3. QED
    BY <1>2, <1>4, <2>2 DEF Abstract!vars, Fresh, Active
<1>7. QED
  BY <1>5, <1>6

(* The hook keeps the backlog, or the first task of it, or nothing.        *)
LEMMA AfterStep ==
  ASSUME Inv, NEW w \in Workers, After(w)
  PROVE  Abstract!Discard
<1> DEFINE q == Tail(tq)
<1>1. /\ InFlight = {w} /\ running /\ eq = <<>> /\ tq # <<>> /\ tq \in Seq(Entry)
      /\ q \in Seq(Entry)
  BY HookKnows DEF After, Inv, TypeOK
<1>2. UNCHANGED Fresh /\ Active = NoTask /\ Active' = NoTask
  <2>1. Running = {}
    BY <1>1, RunningFacts DEF After
  <2>2. Running' = {}
    BY <1>1 DEF After, Running, InFlight, Idle, Inv, TypeOK
  <2>3. QED
    BY <2>1, <2>2 DEF After, Fresh, Active
<1>3. Rest = q /\ Waiting = Ids(q)
  <2>1. Rest = q
    BY <1>1, RestFacts DEF Rest
  <2>2. QED
    BY <1>1, <2>1, WaitingFacts
<1>4. Waiting' = Ids(eq') \o Ids(Rest')
  BY DEF Waiting, Rest
<1> HIDE DEF q
<1>5. CASE /\ q # <<>>
           /\ eq' = Append(eq, Head(q))
           /\ tq' \in IF owned THEN HandedOver(q) ELSE {<<>>}
           /\ UNCHANGED running
  <2> DEFINE x == Ids(<<Head(q)>>)
             y == Ids(Tail(q))
             c == Waiting'
  <2>1. /\ Head(q) \in Entry /\ Tail(q) \in Seq(Entry)
        /\ <<Head(q)>> \in Seq(Entry) /\ Len(<<Head(q)>>) = 1
        /\ eq' = <<Head(q)>>
    BY <1>1, <1>5, HeadTailProperties
  <2>2. x \in Seq(Tasks) /\ y \in Seq(Tasks)
    BY <2>1, IdsFacts
  <2>3. Waiting = x \o y
    BY <1>1, <1>3, <1>5, IdsOfFront
  <2>4. Rest' \in {Tail(q), <<>>}
    <3>1. CASE owned
      <4>1. /\ tq' \in Seq(Entry) /\ tq' # <<>> /\ Len(tq') = Len(q)
            /\ \A j \in 2..Len(q) : tq'[j] = q[j]
        BY <1>1, <1>5, <3>1, HandedOverFacts
      <4>2. Rest' = SubSeq(tq', 2, Len(tq'))
        BY <1>1, <1>5 DEF Rest
      <4>3. /\ SubSeq(tq', 2, Len(tq')) \in Seq(Entry)
            /\ Len(SubSeq(tq', 2, Len(tq'))) = Len(tq') - 1
            /\ \A j \in 1..(Len(tq') - 1) : SubSeq(tq', 2, Len(tq'))[j] = tq'[j + 1]
        BY <4>1, RestFacts
      <4>4. /\ Len(q) \in Nat \ {0} /\ Len(Tail(q)) = Len(q) - 1
            /\ \A j \in 1..(Len(q) - 1) : Tail(q)[j] = q[j + 1]
        BY <1>1, <1>5, HeadTailProperties, EmptySeq
      <4>5. \A j \in 1..(Len(q) - 1) : tq'[j + 1] = q[j + 1]
        BY <4>1, <4>4
      <4>6. \A j \in 1..Len(Tail(q)) : SubSeq(tq', 2, Len(tq'))[j] = Tail(q)[j]
        BY <4>1, <4>3, <4>4, <4>5
      <4>7. SubSeq(tq', 2, Len(tq')) = Tail(q)
        BY <2>1, <4>1, <4>3, <4>4, <4>6, SeqEqual
      <4>8. QED
        BY <4>2, <4>7
    <3>2. CASE ~owned
      BY <1>1, <1>5, <3>2, EmptyRest DEF Rest
    <3>3. QED
      BY <3>1, <3>2
  <2>5. c \in {x \o y, x, y, <<>>}
    <3>1. Ids(Rest') = y \/ Ids(Rest') = <<>>
      BY <2>4, WaitingFacts
    <3>2. x \o <<>> = x
      BY <2>2, ConcatEmptySeq
    <3>3. Waiting' = x \o Ids(Rest')
      BY <1>4, <2>1
    <3>4. QED
      BY <3>1, <3>2, <3>3
  <2> HIDE DEF x, y, c
  <2>6. \E m, n \in 0..Len(x \o y) : c = SubSeq(x \o y, m + 1, n)
    BY <2>2, <2>5, Ends, Zenon
  <2>7. QED
    BY <1>2, <2>3, <2>6 DEF c, Abstract!Discard, Fresh, Active
<1>6. CASE /\ tq' = IF owned THEN q ELSE <<>>
           /\ running' = FALSE
           /\ UNCHANGED eq
  <2>1. Rest' \in {Rest, <<>>}
    BY <1>3, <1>6 DEF Rest
  <2>2. QED
    BY <1>2, <1>6, <2>1, DropStep
<1>7. QED
  BY <1>5, <1>6 DEF After, q

LEMMA DisruptionStep ==
  ASSUME Inv, Cancel \/ Destroy \/ EqCancelAll \/ EqDrop
  PROVE  Abstract!Discard
<1>1. UNCHANGED <<Fresh, Active>>
  BY DEF Cancel, Destroy, EqCancelAll, EqDrop, Fresh, Active, Running
<1>2. Rest' \in {Rest, <<>>} /\ eq' \in {eq, <<>>}
  <2>1. CASE Cancel
    <3>1. CASE running
      <4>1. /\ tq' \in Seq(Entry) /\ tq' # <<>> /\ Len(tq') = 1
        BY <2>1, <3>1, CancelKeeps
      <4>2. Rest' = SubSeq(tq', 2, Len(tq'))
        BY <2>1, <3>1 DEF Cancel, Rest
      <4>3. Rest' \in Seq(Entry) /\ Len(Rest') = 0
        BY <4>1, <4>2, RestFacts
      <4>4. Rest' = <<>>
        BY <4>3, EmptyByLen
      <4>5. QED
        BY <2>1, <4>4 DEF Cancel
    <3>2. CASE ~running
      BY <2>1, <3>2 DEF Cancel, Rest
    <3>3. QED
      BY <3>1, <3>2
  <2>2. CASE Destroy
    BY <2>2, EmptyRest DEF Destroy, Rest
  <2>3. CASE EqCancelAll \/ EqDrop
    BY <2>3 DEF EqCancelAll, EqDrop, Rest
  <2>4. QED
    BY <2>1, <2>2, <2>3
<1>3. QED
  BY <1>1, <1>2, DropStep

(* Every step of a task queue is one of SerialQueue, or changes nothing    *)
(* that SerialQueue sees.                                                  *)
LEMMA SerialSteps ==
  ASSUME Directions \subseteq {0}
  PROVE  Inv /\ [Next]_vars => [Abstract!Next]_(Abstract!vars)
<1> SUFFICES ASSUME Inv, [Next]_vars
             PROVE  Abstract!Next \/ UNCHANGED Abstract!vars
  OBVIOUS
<1>1. ASSUME NEW k \in Tasks, PostBegin(k)
      PROVE  Abstract!Next \/ UNCHANGED Abstract!vars
  BY <1>1, RefusedStep
<1>2. ASSUME NEW k \in Tasks, NEW d \in Directions, PostInsert(k, d)
      PROVE  Abstract!Next
  BY <1>2, InsertStep DEF Abstract!Next
<1>3. ASSUME NEW w \in Workers, WorkerStep(w)
      PROVE  Abstract!Next \/ UNCHANGED Abstract!vars
  BY <1>3, TakeStep, HolderStep, AfterStep DEF WorkerStep, Abstract!Next
<1>4. CASE Cancel \/ Destroy \/ EqCancelAll \/ EqDrop
  BY <1>4, DisruptionStep DEF Abstract!Next
<1>5. CASE /\ UNCHANGED <<eq, tq, running, worker>>
           /\ UNCHANGED Fresh
  BY <1>5 DEF Abstract!vars, Fresh, Waiting, Running
<1>6. ASSUME NEW k \in Tasks, SyncReturn(k) PROVE UNCHANGED Fresh
  BY <1>6 DEF SyncReturn, Fresh, Inv, TypeOK
<1>7. CASE BreakQueue \/ (\E n \in KeepCounts : SetKeep(n)) \/ UNCHANGED vars
  BY <1>5, <1>7 DEF BreakQueue, SetKeep, Fresh, vars
<1>8. ASSUME NEW k \in Tasks, SyncReturn(k) PROVE UNCHANGED Abstract!vars
  BY <1>6, <1>8 DEF SyncReturn, Abstract!vars, Fresh, Waiting, Running
<1>9. QED
  BY <1>1, <1>2, <1>3, <1>4, <1>7, <1>8 DEF Next, CallStep

(* Used without direction, a task queue is a serial queue: every step of   *)
(* it is one of SerialQueue, or changes nothing SerialQueue sees.          *)
THEOREM SerialImplemented ==
  ASSUME Directions \subseteq {0}
  PROVE  Spec => ImplementsSerial
<1>1. Init => Abstract!Init
  <2> SUFFICES ASSUME Init PROVE Abstract!Init
    OBVIOUS
  <2>1. Fresh = Tasks /\ Running = {}
    BY DEF Init, Fresh, Running, Idle
  <2>2. Ids(<<>>) = <<>>
    BY IdsFacts, EmptySeq
  <2>3. Waiting = <<>>
    BY <2>2, ConcatEmptySeq, EmptySeq DEF Init, Waiting
  <2>4. QED
    BY <2>1, <2>3 DEF Abstract!Init, Fresh
<1>2. Inv /\ [Next]_vars => [Abstract!Next]_(Abstract!vars)
  BY SerialSteps
<1>3. QED
  BY <1>1, <1>2, Invariance, PTL DEF Spec, ImplementsSerial, Abstract!Spec

-------------------------------------------------------------------------------
(* Where the tasks are that have not been run: in the event queue, in tq   *)
(* behind the shell at its front, or with a worker.                        *)

Behind == {j \in 1..Len(tq) : j # 1 \/ ~running}

Pool ==
  {eq[j] : j \in 1..Len(eq)} \cup {tq[j] : j \in Behind} \cup {worker[w].item : w \in InFlight}

(* How each step moves them.                                               *)
LEMMA InsertMoves ==
  ASSUME Inv, NEW k \in Tasks, PostInsert(k, 0)
  PROVE  \/ /\ tq = <<>> /\ eq = <<>> /\ InFlight = {} /\ running'
            /\ Len(eq') = 1 /\ eq'[1] = NewTask(k)
            /\ Len(tq') = 1
         \/ /\ tq = <<>> /\ eqAlive => running
            /\ UNCHANGED <<running, eq>>
            /\ Len(tq') = Len(tq) + 1
            /\ \A j \in 1..Len(tq) : tq'[j] = tq[j]
            /\ tq'[Len(tq) + 1] = NewTask(k)
<1> DEFINE q == Append(tq, NewTask(k))
<1>1. /\ q \in Seq(Entry) /\ q # <<>> /\ Len(q) = Len(tq) + 1 /\ Len(tq) \in Nat
      /\ \A j \in 1..Len(tq) : q[j] = tq[j]
      /\ q[Len(tq) + 1] = NewTask(k)
  BY EntryFacts, AppendFacts, LenProperties DEF Inv, TypeOK
<1> HIDE DEF q
<1>2. CASE /\ Len(q) = 1 /\ ~running
           /\ running' /\ eq' = Append(eq, Head(q)) /\ tq' \in HandedOver(q)
  <2>1. tq = <<>> /\ eq = <<>> /\ InFlight = {}
    BY <1>1, <1>2, EmptyByLen DEF Inv, TypeOK, FlightRuns
  <2>2. Head(q) = NewTask(k) /\ Len(tq') = 1
    BY <1>1, <1>2, HandedOverFacts
  <2>3. Len(eq') = 1 /\ eq'[1] = NewTask(k)
    BY <1>2, <2>1, <2>2
  <2>4. QED
    BY <1>2, <2>1, <2>2, <2>3
<1>3. CASE ~(Len(q) = 1 /\ ~running /\ eqAlive) /\ tq' = q /\ UNCHANGED <<running, eq>>
  <2>1. tq = <<>> /\ eqAlive => running
    BY <1>1, <1>3, Len(<<>>) = 0
  <2>2. QED
    BY <1>1, <1>3, <2>1
<1>4. QED
  BY <1>2, <1>3 DEF PostInsert, Starts, Inserted, q

LEMMA TakeMoves ==
  ASSUME Inv, NEW w \in Workers, Take(w)
  PROVE  /\ Len(eq) = 1 /\ eq # <<>> /\ eq' = <<>> /\ InFlight = {} /\ InFlight' = {w} /\ running
         /\ worker'[w].item = eq[1]
         /\ eq[1] \in Entry
         /\ eq[1].t => began' = Append(began, eq[1].task)
         /\ ~eq[1].t => began' = began
         /\ Hooked' => Hooked
         /\ UNCHANGED <<valid, running, tq, keep, trace, owned, eqAlive, call>>
<1>1. /\ eq # <<>> /\ eq' = Tail(eq) /\ Len(eq) = 1 /\ eq \in Seq(Entry)
      /\ InFlight = {} /\ running
  <2>1. eq # <<>> /\ eq' = Tail(eq) /\ eq \in Seq(Entry) /\ Len(eq) <= 1 /\ InFlight = {} /\ running
    BY DEF Take, Inv, TypeOK, Serial, FlightRuns
  <2>2. QED
    BY <2>1, EmptySeq
<1>2. Head(eq) = eq[1] /\ eq[1] \in Entry /\ Tail(eq) = <<>>
  BY <1>1, HeadTailProperties, EmptyByLen
<1>3. PICK ph \in {"task", "ended"} :
        worker' = [worker EXCEPT ![w] = [phase |-> ph, item |-> Head(eq)]]
  BY DEF Take
<1>4. /\ worker'[w].item = eq[1] /\ worker'[w] # Idle
      /\ \A v \in Workers \ {w} : worker'[v] = Idle
  BY <1>1, <1>2, <1>3 DEF InFlight, Inv, TypeOK, Idle
<1>5. InFlight' = {w}
  BY <1>4 DEF InFlight
<1>6. Hooked' => Hooked
  BY <1>3 DEF Hooked, Inv, TypeOK
<1>7. /\ eq[1].t => began' = Append(began, eq[1].task)
      /\ ~eq[1].t => began' = began
  BY <1>2, Zenon DEF Take
<1>8. QED
  BY <1>1, <1>2, <1>4, <1>5, <1>6, <1>7 DEF Take

LEMMA HolderMoves ==
  ASSUME Inv, NEW w \in Workers, EndTask(w) \/ SkipAfter(w) \/ EnterAfter(w)
  PROVE  /\ w \in InFlight
         /\ InFlight = {w}
         /\ InFlight' \subseteq InFlight
         /\ \A v \in InFlight' : worker'[v].item = worker[v].item
         /\ SkipAfter(w) \/ InFlight' = InFlight
         /\ UNCHANGED <<valid, running, tq, keep, trace, owned, eq, eqAlive, call, began>>
<1>1. w \in InFlight /\ worker[w] \in Busy /\ InFlight = {w}
  BY WorkerFacts DEF Inv, EndTask, SkipAfter, EnterAfter, Serial
<1>2. \A v \in Workers \ {w} : worker'[v] = worker[v]
  BY DEF EndTask, SkipAfter, EnterAfter, Inv, TypeOK
<1>3. \/ SkipAfter(w) /\ worker'[w] = Idle
      \/ worker'[w].item = worker[w].item /\ worker'[w] \in Busy
  BY <1>1 DEF EndTask, SkipAfter, EnterAfter, Inv, TypeOK, Busy
<1>4. \A b \in Busy : b # Idle
  BY DEF Busy, Idle
<1>5. QED
  BY <1>1, <1>2, <1>3, <1>4 DEF InFlight, EndTask, SkipAfter, EnterAfter

LEMMA AfterMoves ==
  ASSUME Inv, NEW w \in Workers, After(w)
  PROVE  /\ InFlight = {w} /\ InFlight' = {} /\ ~Hooked' /\ eq = <<>>
         /\ Len(tq) \in Nat \ {0} /\ running /\ w \in InFlight /\ Hooked
         /\ \/ /\ Len(tq) >= 2 /\ eqAlive /\ running'
               /\ Len(eq') = 1 /\ eq'[1] = tq[2]
               /\ \/ owned /\ Len(tq') = Len(tq) - 1
                     /\ \A j \in 2..(Len(tq) - 1) : tq'[j] = tq[j + 1]
                  \/ ~owned /\ Len(tq') = 0
            \/ /\ Len(tq) = 1 \/ ~eqAlive
               /\ ~running' /\ eq' = <<>>
               /\ \/ owned /\ Len(tq') = Len(tq) - 1
                     /\ \A j \in 1..(Len(tq) - 1) : tq'[j] = tq[j + 1]
                  \/ ~owned /\ Len(tq') = 0
         /\ UNCHANGED <<valid, keep, owned, eqAlive, call, began>>
<1> DEFINE q == Tail(tq)
<1>1. /\ InFlight = {w} /\ eq = <<>> /\ q \in Seq(Entry) /\ running
      /\ Len(tq) \in Nat \ {0} /\ Len(q) = Len(tq) - 1
      /\ \A j \in 1..Len(q) : q[j] = tq[j + 1]
  BY HookKnows DEF After
<1>2. InFlight' = {} /\ ~Hooked'
  <2>1. \A v \in Workers : worker'[v] = Idle
    BY <1>1 DEF InFlight, Inv, TypeOK, After
  <2>2. QED
    BY <2>1 DEF InFlight, Hooked, Idle
<1>3. Hooked
  BY DEF After, Hooked
<1> HIDE DEF q
<1>4. CASE /\ q # <<>> /\ eqAlive
           /\ eq' = Append(eq, Head(q))
           /\ tq' \in IF owned THEN HandedOver(q) ELSE {<<>>}
           /\ UNCHANGED running
  <2>1. Len(q) # 0
    BY <1>1, <1>4, EmptyByLen
  <2>2. Head(q) \in Entry /\ Head(q) = q[1]
    BY <1>1, <1>4, HeadTailProperties
  <2>3. Len(eq') = 1 /\ eq'[1] = tq[2]
    BY <1>1, <1>4, <2>1, <2>2
  <2>4. owned => Len(tq') = Len(q) /\ \A j \in 2..Len(q) : tq'[j] = q[j]
    BY <1>1, <1>4, HandedOverFacts
  <2>5. \/ owned /\ Len(tq') = Len(tq) - 1
           /\ \A j \in 2..(Len(tq) - 1) : tq'[j] = tq[j + 1]
        \/ ~owned /\ Len(tq') = 0
    BY <1>1, <1>4, <2>4, Len(<<>>) = 0
  <2>6. QED
    BY <1>1, <1>2, <1>3, <1>4, <2>1, <2>3, <2>5 DEF After
<1>5. CASE /\ q = <<>> \/ ~eqAlive
           /\ tq' = IF owned THEN q ELSE <<>>
           /\ running' = FALSE
           /\ UNCHANGED eq
  <2>1. Len(tq) = 1 \/ ~eqAlive
    BY <1>1, <1>5, Len(<<>>) = 0
  <2>2. \/ owned /\ Len(tq') = Len(tq) - 1
           /\ \A j \in 1..(Len(tq) - 1) : tq'[j] = tq[j + 1]
        \/ ~owned /\ Len(tq') = 0
    BY <1>1, <1>5, Len(<<>>) = 0
  <2>3. QED
    BY <1>1, <1>2, <1>3, <1>5, <2>1, <2>2 DEF After
<1>6. QED
  BY <1>4, <1>5 DEF After, q

(* The disruptions: what is left of tq is its front, all of it or nothing. *)
LEMMA DisruptionMoves ==
  ASSUME Inv, Cancel \/ BreakQueue \/ Destroy \/ EqCancelAll \/ EqDrop \/
                \E n \in KeepCounts : SetKeep(n)
  PROVE  /\ eq' = eq \/ Len(eq') = 0
         /\ \/ tq' = tq
            \/ running /\ Len(tq') = 1
            \/ Len(tq') = 0
         /\ InFlight' = InFlight /\ Hooked' = Hooked
         /\ UNCHANGED <<running, worker, call, began, trace>>
         /\ owned' => owned
         /\ valid' => valid
         /\ eqAlive' => eqAlive
<1>1. UNCHANGED <<running, worker, call, began, trace>>
  BY DEF Cancel, BreakQueue, Destroy, EqCancelAll, EqDrop, SetKeep
<1>2. InFlight' = InFlight /\ Hooked' = Hooked
  BY <1>1 DEF InFlight, Hooked
<1>3. Len(<<>>) = 0
  OBVIOUS
<1>4. CASE Cancel
  <2>1. running => Len(tq') = 1
    BY <1>4, CancelKeeps
  <2>2. ~running => tq' = <<>>
    BY <1>4 DEF Cancel
  <2>3. QED
    BY <1>1, <1>2, <1>3, <1>4, <2>1, <2>2 DEF Cancel
<1>5. CASE Destroy
  BY <1>1, <1>2, <1>3, <1>5 DEF Destroy
<1>6. CASE BreakQueue \/ EqCancelAll \/ EqDrop \/ \E n \in KeepCounts : SetKeep(n)
  BY <1>1, <1>2, <1>3, <1>6 DEF BreakQueue, EqCancelAll, EqDrop, SetKeep
<1>7. QED
  BY <1>4, <1>5, <1>6

(* Nothing gets there but by a post.                                       *)
LEMMA PoolMoves ==
  ASSUME Directions \subseteq {0}, Inv, [Next]_vars, NEW e \in Pool', e \notin Pool
  PROVE  \E k \in Tasks : PostInsert(k, 0) /\ e = NewTask(k)
<1>0. Len(tq) \in Nat /\ Len(eq) \in Nat
  BY LenProperties DEF Inv, TypeOK
<1> USE DEF Pool, Behind
<1>1. ASSUME NEW k \in Tasks, PostInsert(k, 0) PROVE e = NewTask(k)
  <2>1. InFlight' = InFlight /\ worker' = worker
    BY <1>1 DEF PostInsert, InFlight
  <2>2. QED
    BY <1>0, <1>1, <2>1, InsertMoves
<1>2. ASSUME NEW w \in Workers, WorkerStep(w) PROVE FALSE
  <2>1. CASE Take(w)
    BY <1>0, <2>1, TakeMoves, Len(<<>>) = 0
  <2>2. CASE EndTask(w) \/ SkipAfter(w) \/ EnterAfter(w)
    BY <1>0, <2>2, HolderMoves
  <2>3. CASE After(w)
    <3>1. Len(<<>>) = 0
      OBVIOUS
    <3>2. QED
      BY <1>0, <2>3, <3>1, AfterMoves
  <2>4. QED
    BY <1>2, <2>1, <2>2, <2>3 DEF WorkerStep
<1>3. CASE Cancel \/ BreakQueue \/ Destroy \/ EqCancelAll \/ EqDrop \/
             \E n \in KeepCounts : SetKeep(n)
  BY <1>0, <1>3, DisruptionMoves
<1>4. CASE UNCHANGED <<eq, tq, running, worker>>
  BY <1>4 DEF InFlight
<1>5. QED
  BY <1>1, <1>2, <1>3, <1>4 DEF Next, CallStep, PostBegin, SyncReturn, vars

(* So what is there has not been moved from, and the call that posted it   *)
(* has not returned if it is a sync_task.                                  *)
Untouched == \A e \in Pool : e \in Entry /\ ~e.moved /\ e.t /\ e.after

Answerable ==
  \A e \in Pool :
    /\ call[e.task] \notin {"none", "posting"}
    /\ e.task \in Syncs => call[e.task] = "waiting"

LEMMA PoolHeld ==
  ASSUME Inv, Untouched, NEW e \in Pool
  PROVE  Held(e.task)
<1>1. DOMAIN eq = 1..Len(eq) /\ DOMAIN tq = 1..Len(tq) /\ ~e.moved
  BY LenProperties DEF Inv, TypeOK, Untouched
<1>2. CASE \E j \in 1..Len(eq) : e = eq[j]
  BY <1>1, <1>2 DEF Held, Queued
<1>3. CASE \E j \in Behind : e = tq[j]
  BY <1>1, <1>3 DEF Held, Queued, Behind
<1>4. CASE \E w \in InFlight : e = worker[w].item
  BY <1>1, <1>4 DEF Held
<1>5. QED
  BY <1>2, <1>3, <1>4 DEF Pool

LEMMA UntouchedNext ==
  ASSUME Directions \subseteq {0}
  PROVE  Inv /\ Untouched /\ [Next]_vars => Untouched'
<1> SUFFICES ASSUME Inv, Untouched, [Next]_vars, NEW e \in Pool'
             PROVE  e \in Entry /\ ~e.moved /\ e.t /\ e.after
  BY DEF Untouched
<1>1. CASE e \in Pool
  BY <1>1 DEF Untouched
<1>2. CASE e \notin Pool
  <2>1. PICK k \in Tasks : e = NewTask(k)
    BY <1>2, PoolMoves
  <2>2. QED
    BY <2>1, EntryFacts DEF NewTask
<1>3. QED
  BY <1>1, <1>2

LEMMA AnswerableNext ==
  ASSUME Directions \subseteq {0}
  PROVE  Inv /\ Untouched /\ Answerable /\ [Next]_vars => Answerable'
<1> SUFFICES ASSUME Inv, Untouched, Answerable, [Next]_vars, NEW e \in Pool'
             PROVE  /\ call'[e.task] \notin {"none", "posting"}
                    /\ e.task \in Syncs => call'[e.task] = "waiting"
  BY DEF Answerable
<1>0. call \in [Tasks -> {"none", "posting", "waiting", "done"}]
  BY DEF Inv, TypeOK
<1>1. CASE e \notin Pool
  <2>1. PICK k \in Tasks : PostInsert(k, 0) /\ e = NewTask(k)
    BY <1>1, PoolMoves
  <2>2. QED
    BY <1>0, <2>1 DEF PostInsert, NewTask
<1>2. CASE e \in Pool
  <2>1. /\ e.task \in Tasks
        /\ call[e.task] \notin {"none", "posting"}
        /\ e.task \in Syncs => call[e.task] = "waiting"
        /\ Held(e.task)
    BY <1>2, PoolHeld, EntryFacts DEF Untouched, Answerable
  <2>2. ASSUME NEW k \in Tasks, PostBegin(k) \/ CallStep(k)
        PROVE  call'[e.task] = call[e.task]
    BY <1>0, <2>1, <2>2 DEF PostBegin, CallStep, PostInsert, SyncReturn
  <2>3. CASE ~ \E k \in Tasks : PostBegin(k) \/ CallStep(k)
    <3>1. ASSUME NEW w \in Workers, WorkerStep(w) PROVE call' = call
      BY <3>1 DEF WorkerStep, Take, EndTask, SkipAfter, EnterAfter, After
    <3>2. CASE Cancel \/ BreakQueue \/ Destroy \/ EqCancelAll \/ EqDrop \/ UNCHANGED vars
      BY <2>1, <3>2 DEF Cancel, BreakQueue, Destroy, EqCancelAll, EqDrop, vars
    <3>3. ASSUME NEW n \in KeepCounts, SetKeep(n) PROVE call' = call
      BY <3>3 DEF SetKeep
    <3>4. QED
      BY <2>1, <2>3, <3>1, <3>2, <3>3 DEF Next
  <2>4. QED
    BY <2>1, <2>2, <2>3
<1>3. QED
  BY <1>1, <1>2

LEMMA PoolInit == Init => Pool = {}
<1> SUFFICES ASSUME Init PROVE Pool = {}
  OBVIOUS
<1>1. InFlight = {} /\ Len(eq) = 0 /\ Len(tq) = 0
  BY Len(<<>>) = 0 DEF Init, InFlight
<1>2. QED
  BY <1>1 DEF Pool, Behind

THEOREM UntouchedKept ==
  ASSUME Directions \subseteq {0}
  PROVE  Spec => []Untouched
<1>1. Init => Untouched
  BY PoolInit DEF Untouched
<1>2. QED
  BY <1>1, UntouchedNext, Invariance, PTL DEF Spec

(* What waits is in the event queue or in tq.                              *)
LEMMA WaitingInPool ==
  ASSUME Inv, NEW k \in ToSet(Waiting)
  PROVE  \E e \in Pool : e.task = k
<1>1. eq \in Seq(Entry) /\ Rest \in Seq(Entry) /\ Waiting = Ids(eq) \o Ids(Rest)
  BY RestType DEF Inv, TypeOK
<1> DEFINE a == Ids(eq)
           b == Ids(Rest)
<1>2. /\ a \in Seq(Tasks) /\ Len(a) = Len(eq) /\ \A j \in 1..Len(eq) : a[j] = eq[j].task
      /\ b \in Seq(Tasks) /\ Len(b) = Len(Rest) /\ \A j \in 1..Len(Rest) : b[j] = Rest[j].task
      /\ Len(eq) \in Nat /\ Len(Rest) \in Nat
  BY <1>1, IdsFacts
<1>3. Waiting = a \o b
  BY <1>1
<1> HIDE DEF a, b
<1>4. \/ \E j \in 1..Len(eq) : k = eq[j].task
      \/ \E j \in 1..Len(Rest) : k = Rest[j].task
  <2>1. PICK j \in DOMAIN (a \o b) : k = (a \o b)[j]
    BY <1>3 DEF ToSet
  <2>2. /\ j \in 1..(Len(a) + Len(b))
        /\ k = IF j <= Len(a) THEN a[j] ELSE b[j - Len(a)]
    BY <1>2, <2>1, ConcatProperties
  <2>3. QED
    BY <1>2, <2>2
<1>5. ASSUME NEW j \in 1..Len(Rest) PROVE \E i \in Behind : Rest[j] = tq[i]
  <2>1. CASE running /\ tq # <<>>
    <3>1. Rest[j] = tq[j + 1] /\ j + 1 \in 1..Len(tq) /\ j + 1 # 1
      BY <1>2, <1>5, <2>1, RestFacts, LenProperties DEF Rest, Inv, TypeOK
    <3>2. QED
      BY <3>1 DEF Behind
  <2>2. CASE running /\ tq = <<>>
    BY <1>2, <1>5, <2>2, EmptyRest, Len(<<>>) = 0 DEF Rest
  <2>3. CASE ~running
    BY <1>5, <2>3 DEF Rest, Behind
  <2>4. QED
    BY <2>1, <2>2, <2>3
<1>6. QED
  BY <1>4, <1>5 DEF Pool

(* A sync_task that has returned has left nothing of its task behind.      *)
THEOREM SyncCorrect ==
  ASSUME Directions \subseteq {0}
  PROVE  Spec => []SyncSeesEnd
<1>1. Init => Answerable
  BY PoolInit DEF Answerable
<1>2. Inv /\ Answerable => SyncSeesEnd
  <2>1. SUFFICES ASSUME Inv, Answerable, NEW k \in Syncs, call[k] = "done",
                        k \in {worker[w].item.task : w \in InFlight} \cup ToSet(Waiting)
                 PROVE  FALSE
    BY DEF SyncSeesEnd
  <2>2. PICK e \in Pool : e.task = k
    <3>1. CASE k \in ToSet(Waiting)
      BY <2>1, <3>1, WaitingInPool
    <3>2. CASE k \in {worker[w].item.task : w \in InFlight}
      BY <3>2 DEF Pool
    <3>3. QED
      BY <2>1, <3>1, <3>2
  <2>3. QED
    BY <2>1, <2>2 DEF Answerable
<1>3. QED
  BY <1>1, <1>2, AnswerableNext, UntouchedKept, Invariance, PTL DEF Spec

-------------------------------------------------------------------------------
(* No stalls, and nothing lost.                                            *)

LEMMA StallInsert ==
  ASSUME Inv, Supplied, owned, valid, eqAlive, NEW k \in Tasks, PostInsert(k, 0)
  PROVE  Supplied'
<1>1. Len(tq) \in Nat /\ Len(<<>>) = 0
  BY LenProperties DEF Inv, TypeOK
<1>2. InFlight' = InFlight /\ worker' = worker
  BY DEF PostInsert, InFlight
<1>3. (running <=> tq # <<>>) /\ (running => eq # <<>> \/ \E w \in InFlight : worker[w].item.after)
  BY DEF Supplied
<1>4. running' /\ tq' # <<>> /\ (eq' # <<>> \/ \E w \in InFlight : worker[w].item.after)
  BY <1>1, <1>3, InsertMoves
<1>5. QED
  BY <1>2, <1>4 DEF Supplied

LEMMA StallWorker ==
  ASSUME Inv, Untouched, Supplied, owned, valid, eqAlive, NEW w \in Workers, WorkerStep(w)
  PROVE  Supplied'
<1>1. (running <=> tq # <<>>) /\ (running => eq # <<>> \/ \E v \in InFlight : worker[v].item.after)
  BY DEF Supplied
<1>2. \A v \in InFlight : worker[v].item.after
  BY DEF Untouched, Pool
<1>3. Len(<<>>) = 0 /\ tq \in Seq(Entry)
  BY DEF Inv, TypeOK
<1>4. CASE Take(w)
  <2>1. Len(eq) = 1 /\ worker'[w].item = eq[1] /\ InFlight' = {w} /\ UNCHANGED <<running, tq>>
    BY <1>4, TakeMoves
  <2>2. eq[1].after
    BY <2>1 DEF Untouched, Pool
  <2>3. QED
    BY <1>1, <2>1, <2>2 DEF Supplied
<1>5. CASE EndTask(w) \/ SkipAfter(w) \/ EnterAfter(w)
  <2>1. /\ w \in InFlight /\ UNCHANGED <<running, tq, eq>>
        /\ SkipAfter(w) \/ InFlight' = InFlight
        /\ \A v \in InFlight' : worker'[v].item = worker[v].item
    BY <1>5, HolderMoves
  <2>2. ~SkipAfter(w)
    BY <1>2, <2>1 DEF SkipAfter
  <2>3. QED
    BY <1>1, <2>1, <2>2 DEF Supplied
<1>6. CASE After(w)
  <2>1. CASE Len(tq) >= 2
    BY <1>3, <1>6, <2>1, AfterMoves DEF Supplied
  <2>2. CASE Len(tq) = 1
    <3>1. ~running' /\ Len(tq') = 0
      <4>1. \/ Len(tq) >= 2
            \/ ~running' /\ (Len(tq') = Len(tq) - 1 \/ Len(tq') = 0)
        BY <1>6, AfterMoves, Zenon
      <4>2. QED
        BY <2>2, <4>1
    <3>2. tq' \in Seq(Entry)
      BY <1>6, NextPreserves DEF Inv, TypeOK, Next, WorkerStep
    <3>3. QED
      BY <3>1, <3>2, EmptyByLen DEF Supplied
  <2>3. QED
    BY <1>6, <2>1, <2>2, AfterMoves
<1>7. QED
  BY <1>4, <1>5, <1>6 DEF WorkerStep

(* Only an emptied event queue makes the queue wait for a hook in vain.    *)
THEOREM StallCorrect ==
  ASSUME Directions \subseteq {0}
  PROVE  Spec => NeverStalls
<1>1. Inv /\ Untouched /\ [Next]_vars => [Supplied => Supplied' \/ EqCancelAll]_vars
  <2>1. SUFFICES ASSUME Inv, Untouched, [Next]_vars, Supplied PROVE Supplied' \/ EqCancelAll
    OBVIOUS
  <2>2. CASE ~(owned' /\ valid' /\ eqAlive')
    BY <2>2 DEF Supplied
  <2>3. CASE ~(owned /\ valid /\ eqAlive) /\ owned' /\ valid' /\ eqAlive'
    <3>1. ASSUME NEW k \in Tasks, PostBegin(k) \/ CallStep(k) PROVE FALSE
      BY <2>3, <3>1 DEF PostBegin, CallStep, PostInsert, SyncReturn
    <3>2. ASSUME NEW w \in Workers, WorkerStep(w) PROVE FALSE
      BY <2>3, <3>2 DEF WorkerStep, Take, EndTask, SkipAfter, EnterAfter, After
    <3>3. QED
      BY <2>1, <2>3, <3>1, <3>2, DisruptionMoves DEF Next, vars
  <2>4. CASE owned /\ valid /\ eqAlive /\ owned' /\ valid' /\ eqAlive'
    <3>1. ASSUME NEW k \in Tasks, NEW d \in Directions, PostInsert(k, d) PROVE Supplied'
      BY <2>1, <2>4, <3>1, StallInsert
    <3>2. ASSUME NEW w \in Workers, WorkerStep(w) PROVE Supplied'
      BY <2>1, <2>4, <3>2, StallWorker
    <3>3. CASE Cancel
      <4>1. UNCHANGED <<running, eq, worker>>
        BY <3>3 DEF Cancel
      <4>2. (running => tq' # <<>>) /\ (~running => tq' = <<>>)
        BY <2>1, <3>3, CancelKeeps, Len(<<>>) = 0 DEF Cancel
      <4>3. QED
        BY <2>1, <2>4, <4>1, <4>2 DEF Supplied, InFlight
    <3>4. CASE UNCHANGED <<running, tq, eq, worker>>
      BY <2>1, <2>4, <3>4 DEF Supplied, InFlight
    <3>5. CASE BreakQueue \/ Destroy \/ EqDrop
      BY <2>4, <3>5 DEF BreakQueue, Destroy, EqDrop
    <3>6. QED
      BY <2>1, <3>1, <3>2, <3>3, <3>4, <3>5 DEF Next, CallStep, PostBegin, SyncReturn, SetKeep, vars
  <2>5. QED
    BY <2>2, <2>3, <2>4
<1>2. QED
  BY <1>1, UntouchedKept, Invariance, PTL DEF NeverStalls, Spec

LEMMA QueuedInsert ==
  ASSUME Inv, 0 \in Directions, NEW j \in Tasks, Queued(j), NEW k \in Tasks, PostInsert(k, 0)
  PROVE  Queued(j)'
<1>1. /\ DOMAIN tq = 1..Len(tq) /\ DOMAIN eq = 1..Len(eq) /\ Len(tq) \in Nat
      /\ DOMAIN tq' = 1..Len(tq') /\ DOMAIN eq' = 1..Len(eq') /\ Len(<<>>) = 0
  <2>1. Inv'
    BY InsertPreserves
  <2>2. QED
    BY <2>1, LenProperties DEF Inv, TypeOK
<1>2. ~(tq = <<>> /\ eq = <<>>)
  BY <1>1 DEF Queued
<1>3. /\ eq' = eq /\ Len(tq') = Len(tq) + 1
      /\ \A i \in 1..Len(tq) : tq'[i] = tq[i]
  BY <1>2, InsertMoves, Zenon
<1>4. DOMAIN eq' = DOMAIN eq /\ \A i \in DOMAIN tq : i \in DOMAIN tq' /\ tq'[i] = tq[i]
  BY <1>1, <1>3
<1>5. ASSUME NEW i \in DOMAIN tq, tq[i].task = j, ~tq[i].moved PROVE Queued(j)'
  <2>1. i \in DOMAIN tq' /\ tq'[i].task = j /\ ~tq'[i].moved
    BY <1>4, <1>5
  <2>2. QED
    BY <2>1 DEF Queued
<1>6. CASE \E i \in DOMAIN eq : eq[i].task = j /\ ~eq[i].moved
  BY <1>3, <1>6 DEF Queued
<1>7. QED
  BY <1>5, <1>6 DEF Queued

LEMMA QueuedWorker ==
  ASSUME Inv, Shell, Untouched, owned', NEW k \in Tasks, Queued(k),
         NEW w \in Workers, WorkerStep(w), ~Queued(k)'
  PROVE  k \in ToSet(began')
<1>0. Inv'
  BY NextPreserves DEF Next
<1>1. /\ DOMAIN tq = 1..Len(tq) /\ DOMAIN eq = 1..Len(eq) /\ Len(tq) \in Nat
      /\ DOMAIN tq' = 1..Len(tq') /\ DOMAIN eq' = 1..Len(eq') /\ Len(<<>>) = 0
  BY <1>0, LenProperties DEF Inv, TypeOK
<1>2. CASE Take(w)
  <2>1. Len(eq) = 1 /\ tq' = tq /\ (eq[1].t => began' = Append(began, eq[1].task)) /\ eq[1] \in Entry
    BY <1>2, TakeMoves
  <2>2. eq[1].t /\ eq[1].task \in Tasks
    BY <2>1, EntryFacts DEF Untouched, Pool
  <2>3. k = eq[1].task
    BY <1>1, <2>1 DEF Queued
  <2>4. began \in Seq(Tasks)
    BY DEF Inv, TypeOK
  <2>5. Len(began) + 1 \in DOMAIN began' /\ began'[Len(began) + 1] = k
    BY <2>1, <2>2, <2>3, <2>4, AppendProperties, LenProperties
  <2>6. QED
    BY <2>5 DEF ToSet
<1>3. CASE EndTask(w) \/ SkipAfter(w) \/ EnterAfter(w)
  BY <1>3, HolderMoves DEF Queued
<1>4. CASE After(w)
  <2>1. running /\ Hooked /\ Len(tq) \in Nat \ {0} /\ eq = <<>> /\ owned
    BY <1>4, AfterMoves
  <2>2. tq[1].moved
    BY <2>1 DEF Shell
  <2>3. PICK j \in 2..Len(tq) : tq[j].task = k /\ ~tq[j].moved
    BY <1>1, <2>1, <2>2 DEF Queued
  <2>4. \/ Len(eq') = 1 /\ eq'[1] = tq[j]
        \/ j - 1 \in 1..Len(tq') /\ tq'[j - 1] = tq[j]
    <3>1. \/ /\ Len(eq') = 1 /\ eq'[1] = tq[2]
             /\ Len(tq') = Len(tq) - 1
             /\ \A i \in 2..(Len(tq) - 1) : tq'[i] = tq[i + 1]
          \/ /\ Len(tq') = Len(tq) - 1
             /\ \A i \in 1..(Len(tq) - 1) : tq'[i] = tq[i + 1]
      BY <1>4, <2>1, AfterMoves, Zenon
    <3>2. QED
      BY <2>1, <2>3, <3>1
  <2>5. Queued(k)'
    BY <1>1, <2>3, <2>4 DEF Queued
  <2>6. QED
    BY <2>5
<1>5. QED
  BY <1>2, <1>3, <1>4 DEF WorkerStep

(* Posts, hooks and breaks lose no task.                                   *)
THEOREM NothingLostCorrect ==
  ASSUME Directions \subseteq {0}
  PROVE  Spec => NothingLost
<1>1. Init => Shell
  BY DEF Init, Shell
<1>2. Inv /\ Shell /\ [Next]_vars => Shell'
  BY ShellNext
<1>3. Inv /\ Shell /\ Untouched /\ [Next]_vars =>
        [\A k \in Tasks : Queued(k) /\ ~Queued(k)' =>
           k \in ToSet(began') \/ Cancel \/ ~owned' \/ EqCancelAll \/ EqDrop]_vars
  <2>1. SUFFICES ASSUME Inv, Shell, Untouched, [Next]_vars, NEW k \in Tasks, Queued(k), ~Queued(k)',
                        ~Cancel, owned', ~EqCancelAll, ~EqDrop
                 PROVE  k \in ToSet(began')
    OBVIOUS
  <2>2. ASSUME NEW j \in Tasks, NEW d \in Directions, PostInsert(j, d) PROVE FALSE
    BY <2>1, <2>2, QueuedInsert
  <2>3. ASSUME NEW w \in Workers, WorkerStep(w) PROVE k \in ToSet(began')
    BY <2>1, <2>3, QueuedWorker
  <2>4. CASE UNCHANGED <<tq, eq>>
    BY <2>1, <2>4 DEF Queued
  <2>5. CASE Destroy
    BY <2>1, <2>5 DEF Destroy
  <2>6. QED
    BY <2>1, <2>2, <2>3, <2>4, <2>5
       DEF Next, CallStep, PostBegin, SyncReturn, SetKeep, BreakQueue, vars
<1>4. QED
  BY <1>1, <1>2, <1>3, UntouchedKept, Invariance, PTL DEF NothingLost, Spec

-------------------------------------------------------------------------------
(* The trace.                                                              *)

Slice(s, m, n) ==
  /\ m <= n /\ Len(s) = n - m
  /\ \A j \in 1..(n - m) : s[j] = began[m + j]

(* While a hook can still come, the trace ends where the finished tasks do.*)
Listed ==
  \E m, n \in 0..Len(began) :
    /\ Slice(trace, m, n)
    /\ (owned /\ valid) \/ Hooked => n = IF InFlight = {} THEN Len(began) ELSE Len(began) - 1

LastBegan ==
  \A w \in InFlight : Len(began) > 0 /\ began[Len(began)] = worker[w].item.task

LEMMA ListedQuiet ==
  ASSUME Listed, LastBegan, UNCHANGED <<worker, trace, began>>,
         owned' /\ valid' => owned /\ valid
  PROVE  Listed' /\ LastBegan'
<1>1. InFlight' = InFlight /\ Hooked' = Hooked
  BY DEF InFlight, Hooked
<1>2. PICK m \in 0..Len(began), n \in 0..Len(began) :
        /\ Slice(trace, m, n)
        /\ (owned /\ valid) \/ Hooked => n = IF InFlight = {} THEN Len(began) ELSE Len(began) - 1
  BY DEF Listed
<1>3. Slice(trace, m, n)'
  BY <1>2 DEF Slice
<1>4. Listed'
  BY <1>1, <1>2, <1>3 DEF Listed
<1>5. QED
  BY <1>1, <1>4 DEF LastBegan

LEMMA ListedTake ==
  ASSUME Inv, Untouched, Listed, LastBegan, NEW w \in Workers, Take(w)
  PROVE  Listed' /\ LastBegan'
<1>1. /\ Len(eq) = 1 /\ InFlight = {} /\ InFlight' = {w} /\ worker'[w].item = eq[1]
      /\ eq[1] \in Entry
      /\ eq[1].t => began' = Append(began, eq[1].task)
      /\ Hooked' => Hooked
      /\ UNCHANGED <<valid, owned, trace>>
  BY TakeMoves
<1>2. eq[1].t /\ eq[1].task \in Tasks
  BY <1>1, EntryFacts DEF Untouched, Pool
<1>3. /\ began \in Seq(Tasks) /\ Len(began) \in Nat
      /\ Len(began') = Len(began) + 1
      /\ \A j \in 1..Len(began) : began'[j] = began[j]
      /\ began'[Len(began) + 1] = eq[1].task
  <2>1. began \in Seq(Tasks)
    BY DEF Inv, TypeOK
  <2>2. began' = Append(began, eq[1].task)
    BY <1>1, <1>2
  <2>3. QED
    BY <1>2, <2>1, <2>2, AppendFacts, LenProperties
<1>4. PICK m \in 0..Len(began), n \in 0..Len(began) :
        /\ Slice(trace, m, n)
        /\ (owned /\ valid) \/ Hooked => n = Len(began)
  BY <1>1 DEF Listed
<1>5. Slice(trace, m, n)'
  BY <1>1, <1>3, <1>4 DEF Slice
<1>6. m \in 0..Len(began') /\ n \in 0..Len(began')
  BY <1>3
<1>7. (owned' /\ valid') \/ Hooked' => n = Len(began') - 1
  BY <1>1, <1>3, <1>4
<1>8. Listed'
  BY <1>1, <1>5, <1>6, <1>7 DEF Listed
<1>9. QED
  BY <1>1, <1>3, <1>8 DEF LastBegan

LEMMA ListedHolder ==
  ASSUME Inv, Untouched, Listed, LastBegan,
         NEW w \in Workers, EndTask(w) \/ SkipAfter(w) \/ EnterAfter(w)
  PROVE  Listed' /\ LastBegan'
<1>1. /\ w \in InFlight /\ InFlight' \subseteq InFlight
      /\ \A v \in InFlight' : worker'[v].item = worker[v].item
      /\ SkipAfter(w) \/ InFlight' = InFlight
      /\ UNCHANGED <<valid, owned, trace, began>>
  BY HolderMoves
<1>2. (owned' /\ valid') \/ Hooked' => (owned /\ valid) \/ Hooked
  <2>1. CASE EnterAfter(w)
    BY <2>1 DEF EnterAfter
  <2>2. CASE EndTask(w) \/ SkipAfter(w)
    <3>1. /\ \A v \in Workers \ {w} : worker'[v] = worker[v]
          /\ worker'[w].phase # "hook"
      BY <2>2 DEF EndTask, SkipAfter, Idle, Inv, TypeOK, Busy
    <3>2. Hooked' => Hooked
      BY <3>1 DEF Hooked
    <3>3. QED
      BY <1>1, <3>2
  <2>3. QED
    BY <2>1, <2>2
<1>3. SkipAfter(w) => ~((owned' /\ valid') \/ Hooked')
  <2>1. SUFFICES ASSUME SkipAfter(w) PROVE ~((owned' /\ valid') \/ Hooked')
    OBVIOUS
  <2>2. worker[w].item.after
    BY <1>1 DEF Untouched, Pool
  <2>3. InFlight = {w}
    BY HolderMoves
  <2>4. \A v \in Workers : worker'[v] = Idle
    BY <2>1, <2>3 DEF SkipAfter, InFlight, Inv, TypeOK
  <2>5. QED
    BY <1>1, <2>1, <2>2, <2>4 DEF SkipAfter, Hooked, Idle
<1>4. PICK m \in 0..Len(began), n \in 0..Len(began) :
        /\ Slice(trace, m, n)
        /\ (owned /\ valid) \/ Hooked => n = IF InFlight = {} THEN Len(began) ELSE Len(began) - 1
  BY DEF Listed
<1>5. Slice(trace, m, n)'
  BY <1>1, <1>4 DEF Slice
<1>6. Listed'
  BY <1>1, <1>2, <1>3, <1>4, <1>5 DEF Listed
<1>7. QED
  BY <1>1, <1>6 DEF LastBegan

LEMMA SliceTraced ==
  ASSUME trace \in Seq(Tasks), began \in Seq(Tasks),
         NEW m \in Nat, NEW n \in Nat, Slice(trace, m, n),
         NEW k \in Tasks, k = began[n + 1], keep \in Nat
  PROVE  Slice(Traced(k), m, n + 1) \/ Slice(Traced(k), m + 1, n + 1)
<1> DEFINE longer == Append(trace, k)
<1>1. /\ longer \in Seq(Tasks) /\ longer # <<>> /\ Len(longer) = n + 1 - m
      /\ \A j \in 1..(n - m) : longer[j] = trace[j]
      /\ longer[n + 1 - m] = k
      /\ m <= n
  BY AppendFacts DEF Slice
<1> HIDE DEF longer
<1>2. Slice(longer, m, n + 1)
  <2>1. ASSUME NEW j \in 1..(n + 1 - m) PROVE longer[j] = began[m + j]
    <3>1. CASE j = n + 1 - m
      BY <1>1, <3>1
    <3>2. CASE j \in 1..(n - m)
      BY <1>1, <3>2 DEF Slice
    <3>3. QED
      BY <1>1, <2>1, <3>1, <3>2
  <2>2. QED
    BY <1>1, <2>1 DEF Slice
<1>3. /\ Len(Tail(longer)) = n - m
      /\ \A j \in 1..(n - m) : Tail(longer)[j] = longer[j + 1]
  BY <1>1, HeadTailProperties
<1>4. Slice(Tail(longer), m + 1, n + 1)
  <2>1. ASSUME NEW j \in 1..(n - m) PROVE Tail(longer)[j] = began[m + 1 + j]
    <3>1. Tail(longer)[j] = longer[j + 1] /\ j + 1 \in 1..(n + 1 - m) /\ m + (j + 1) = m + 1 + j
      BY <1>1, <1>3, <2>1
    <3>2. QED
      BY <1>2, <3>1 DEF Slice
  <2>2. m + 1 <= n + 1 /\ (n + 1) - (m + 1) = n - m
    BY <1>1
  <2>3. QED
    BY <1>3, <2>1, <2>2 DEF Slice
<1>5. QED
  BY <1>2, <1>4 DEF Traced, longer

LEMMA ListedAfter ==
  ASSUME Inv, Listed, LastBegan, NEW w \in Workers, After(w)
  PROVE  Listed' /\ LastBegan'
<1>1. /\ InFlight = {w} /\ InFlight' = {} /\ ~Hooked' /\ Hooked /\ w \in InFlight
      /\ UNCHANGED <<valid, owned, began>>
  BY AfterMoves, Zenon
<1>2. trace' = Traced(worker[w].item.task)
  BY DEF After
<1>3. /\ trace \in Seq(Tasks) /\ began \in Seq(Tasks) /\ keep \in Nat /\ Len(began) \in Nat
      /\ worker[w].item.task \in Tasks
  BY <1>1, WorkerFacts, EntryFacts, LenProperties DEF Inv, TypeOK
<1>4. PICK m \in 0..Len(began), n \in 0..Len(began) :
        Slice(trace, m, n) /\ n = Len(began) - 1
  BY <1>1 DEF Listed
<1>5. began[n + 1] = worker[w].item.task /\ m <= n
  BY <1>1, <1>3, <1>4 DEF LastBegan, Slice
<1>6. PICK i \in {m, m + 1} : Slice(trace', i, n + 1)
  <2>1. m \in Nat /\ n \in Nat
    BY <1>3, <1>4, <1>5
  <2> DEFINE k == worker[w].item.task
  <2>2. k \in Tasks /\ k = began[n + 1] /\ trace' = Traced(k)
    BY <1>2, <1>3, <1>5
  <2> HIDE DEF k
  <2>3. Slice(trace', m, n + 1) \/ Slice(trace', m + 1, n + 1)
    BY <1>3, <1>4, <2>1, <2>2, SliceTraced
  <2>4. QED
    BY <2>3
<1>7. i \in 0..Len(began') /\ n + 1 \in 0..Len(began') /\ n + 1 = Len(began')
  BY <1>1, <1>3, <1>4, <1>5
<1>8. Slice(trace, i, n + 1)'
  BY <1>1, <1>6 DEF Slice
<1>9. Listed'
  BY <1>1, <1>7, <1>8 DEF Listed
<1>10. QED
  BY <1>1, <1>9 DEF LastBegan

LEMMA ListedNext ==
  Inv /\ Untouched /\ Listed /\ LastBegan /\ [Next]_vars => Listed' /\ LastBegan'
<1> SUFFICES ASSUME Inv, Untouched, Listed, LastBegan, [Next]_vars
             PROVE  Listed' /\ LastBegan'
  OBVIOUS
<1>1. ASSUME NEW w \in Workers, WorkerStep(w) PROVE Listed' /\ LastBegan'
  BY <1>1, ListedTake, ListedHolder, ListedAfter DEF WorkerStep
<1>2. ASSUME NEW k \in Tasks, PostBegin(k) \/ CallStep(k) PROVE Listed' /\ LastBegan'
  BY <1>2, ListedQuiet DEF PostBegin, CallStep, PostInsert, SyncReturn
<1>3. CASE Cancel \/ BreakQueue \/ Destroy \/ EqCancelAll \/ EqDrop \/ UNCHANGED vars \/
             \E n \in KeepCounts : SetKeep(n)
  BY <1>3, ListedQuiet DEF Cancel, BreakQueue, Destroy, EqCancelAll, EqDrop, SetKeep, vars
<1>4. QED
  BY <1>1, <1>2, <1>3 DEF Next

(* The trace is a piece of the history of the queue.                       *)
THEOREM TraceCorrect ==
  ASSUME Directions \subseteq {0}
  PROVE  Spec => []TraceInOrder
<1>1. Init => Listed /\ LastBegan
  <2> SUFFICES ASSUME Init PROVE Listed /\ LastBegan
    OBVIOUS
  <2>1. InFlight = {} /\ Len(trace) = 0 /\ Len(began) = 0
    BY Len(<<>>) = 0 DEF Init, InFlight
  <2>2. Slice(trace, 0, 0)
    BY <2>1 DEF Slice
  <2>3. QED
    BY <2>1, <2>2 DEF Listed, LastBegan
<1>2. Inv /\ Listed => TraceInOrder
  <2>1. SUFFICES ASSUME Inv, NEW m \in 0..Len(began), NEW n \in 0..Len(began), Slice(trace, m, n)
                 PROVE  trace = SubSeq(began, m + 1, n)
    BY DEF TraceInOrder, Listed
  <2>2. trace \in Seq(Tasks) /\ began \in Seq(Tasks) /\ Len(began) \in Nat
    <3>1. trace \in Seq(Tasks) /\ began \in Seq(Tasks)
      BY <2>1 DEF Inv, TypeOK
    <3>2. QED
      BY <3>1, LenProperties
  <2>3. /\ SubSeq(began, m + 1, n) \in Seq(Tasks)
        /\ Len(SubSeq(began, m + 1, n)) = n - m
        /\ \A j \in 1..(n - m) : SubSeq(began, m + 1, n)[j] = began[m + j]
    <3>1. m + 1 \in Int /\ n \in Int /\ m <= n /\ \A i \in (m + 1)..n : began[i] \in Tasks
      BY <2>1, <2>2, ElementOfSeq DEF Slice
    <3>2. /\ SubSeq(began, m + 1, n) \in Seq(Tasks)
          /\ Len(SubSeq(began, m + 1, n)) = IF m + 1 <= n THEN n - (m + 1) + 1 ELSE 0
          /\ \A i \in 1..(n - (m + 1) + 1) : SubSeq(began, m + 1, n)[i] = began[m + 1 + i - 1]
      BY <3>1, SubSeqProperties
    <3>3. n - (m + 1) + 1 = n - m /\ \A i \in Int : m + 1 + i - 1 = m + i
      BY <2>1
    <3>4. QED
      BY <2>1, <3>1, <3>2, <3>3
  <2>4. QED
    BY <2>1, <2>2, <2>3, SeqEqual DEF Slice
<1>3. QED
  BY <1>1, <1>2, ListedNext, UntouchedKept, Invariance, PTL DEF Spec

-------------------------------------------------------------------------------
(* No task runs twice.                                                     *)

Distinct(s) == \A i, j \in 1..Len(s) : s[i] = s[j] => i = j

Apart(s, S) == \A i \in 1..Len(s) : s[i] \notin S

(* A task has not been accepted, or it waits, once, or it has begun, once. *)
OnePlace ==
  /\ Distinct(Waiting) /\ Apart(Waiting, Fresh)
  /\ Distinct(began) /\ Apart(began, Fresh)
  /\ \A i \in 1..Len(began), j \in 1..Len(Waiting) : began[i] # Waiting[j]

(* A line out of which only the end is new.                                *)
LEMMA LineKept ==
  ASSUME NEW s, NEW r, NEW F, NEW K, NEW m \in Nat, Len(s) \in Nat, Len(r) \in Nat,
         Distinct(s), Apart(s, F),
         \A i \in 1..Len(r) :
           \/ i + m \in 1..Len(s) /\ r[i] = s[i + m]
           \/ i = Len(r) /\ r[i] \in F \cap K
  PROVE  /\ Distinct(r) /\ Apart(r, F \ K)
         /\ \A i \in 1..Len(r) : r[i] \in F \/ \E j \in 1..Len(s) : r[i] = s[j]
<1>1. ASSUME NEW i \in 1..Len(r)
      PROVE  /\ r[i] \notin F => i + m \in 1..Len(s) /\ r[i] = s[i + m]
             /\ r[i] \in F => i = Len(r) /\ r[i] \in K
  BY <1>1 DEF Apart
<1>2. ASSUME NEW i \in 1..Len(r), NEW j \in 1..Len(r), r[i] = r[j] PROVE i = j
  <2>1. CASE r[i] \in F
    BY <1>1, <1>2, <2>1
  <2>2. CASE r[i] \notin F
    <3>1. i + m \in 1..Len(s) /\ j + m \in 1..Len(s) /\ s[i + m] = s[j + m]
      BY <1>1, <1>2, <2>2
    <3>2. i + m = j + m
      BY <3>1 DEF Distinct
    <3>3. QED
      BY <3>2
  <2>3. QED
    BY <2>1, <2>2
<1>3. QED
  BY <1>1, <1>2 DEF Distinct, Apart

(* A step after which no more waits than before, but for a new task.       *)
LEMMA LineStep ==
  ASSUME Inv, OnePlace, UNCHANGED began, NEW F, Fresh' = Fresh \ F,
         NEW m \in Nat, Len(Waiting) \in Nat, Len(Waiting') \in Nat,
         \A i \in 1..Len(Waiting') :
           \/ i + m \in 1..Len(Waiting) /\ Waiting'[i] = Waiting[i + m]
           \/ i = Len(Waiting') /\ Waiting'[i] \in Fresh \cap F
  PROVE  OnePlace'
<1> DEFINE s == Waiting
           r == Waiting'
           N == Fresh
           O == Fresh'
<1>1. /\ Len(s) \in Nat /\ Len(r) \in Nat
      /\ Distinct(s) /\ Apart(s, N)
      /\ Distinct(began) /\ Apart(began, N)
      /\ \A i \in 1..Len(began), j \in 1..Len(s) : began[i] # s[j]
      /\ \A i \in 1..Len(r) :
           \/ i + m \in 1..Len(s) /\ r[i] = s[i + m]
           \/ i = Len(r) /\ r[i] \in N \cap F
      /\ O = N \ F
      /\ began' = began
  BY DEF OnePlace
<1> HIDE DEF s, r, N, O
<1>2. /\ Distinct(r) /\ Apart(r, N \ F)
      /\ \A i \in 1..Len(r) : r[i] \in N \/ \E j \in 1..Len(s) : r[i] = s[j]
  BY <1>1, LineKept
<1>3. Apart(began, O)
  BY <1>1 DEF Apart
<1>4. \A i \in 1..Len(began), j \in 1..Len(r) : began[i] # r[j]
  BY <1>1, <1>2 DEF Apart
<1>5. Distinct(r) /\ Apart(r, O) /\ Distinct(began)
  BY <1>1, <1>2
<1>6. QED
  BY <1>1, <1>3, <1>4, <1>5 DEF OnePlace, r, O, Distinct, Apart

LEMMA LineShrinks ==
  ASSUME Inv, OnePlace, UNCHANGED began, Fresh' = Fresh,
         NEW m \in Nat, Len(Waiting) \in Nat, Len(Waiting') \in Nat,
         \A i \in 1..Len(Waiting') : i + m \in 1..Len(Waiting) /\ Waiting'[i] = Waiting[i + m]
  PROVE  OnePlace'
<1>1. Fresh' = Fresh \ {}
  OBVIOUS
<1>2. \A i \in 1..Len(Waiting') :
        \/ i + m \in 1..Len(Waiting) /\ Waiting'[i] = Waiting[i + m]
        \/ i = Len(Waiting') /\ Waiting'[i] \in Fresh \cap {}
  OBVIOUS
<1>3. QED
  BY <1>1, <1>2, LineStep, Zenon

LEMMA WaitingType == Inv => Waiting \in Seq(Tasks) /\ Len(Waiting) \in Nat
<1> SUFFICES ASSUME Inv PROVE Waiting \in Seq(Tasks) /\ Len(Waiting) \in Nat
  OBVIOUS
<1> DEFINE x == Ids(eq)
           y == Ids(Rest)
<1>1. x \in Seq(Tasks) /\ y \in Seq(Tasks) /\ Waiting = x \o y
  BY WaitingFacts
<1> HIDE DEF x, y
<1>2. x \o y \in Seq(Tasks)
  BY <1>1, ConcatProperties
<1>3. Len(x \o y) \in Nat
  BY <1>2, LenProperties
<1>4. QED
  BY <1>1, <1>2, <1>3

LEMMA TailShrinks ==
  ASSUME Inv, OnePlace, UNCHANGED <<began, Fresh>>, Waiting # <<>>, Waiting' = Tail(Waiting)
  PROVE  OnePlace'
<1> DEFINE r == Waiting'
           s == Waiting
<1>1. /\ Len(s) \in Nat /\ Len(s) > 0 /\ Len(r) = Len(s) - 1
      /\ \A i \in 1..(Len(s) - 1) : r[i] = s[i + 1]
  BY WaitingType, HeadTailProperties, EmptySeq
<1> HIDE DEF r, s
<1>2. Len(r) \in Nat /\ \A i \in 1..Len(r) : i + 1 \in 1..Len(s) /\ r[i] = s[i + 1]
  BY <1>1
<1>3. QED
  BY <1>1, <1>2, LineShrinks DEF r, s

LEMMA PlaceNext ==
  ASSUME Inv, OnePlace, UNCHANGED began, [Abstract!Next]_(Abstract!vars)
  PROVE  OnePlace'
<1>1. Waiting \in Seq(Tasks) /\ Len(Waiting) \in Nat
  BY WaitingType
<1>2. ASSUME Waiting' = Waiting, NEW F, Fresh' = Fresh \ F PROVE OnePlace'
  <2>1. Apart(Waiting, Fresh \ F) /\ Apart(began, Fresh \ F)
    BY DEF OnePlace, Apart
  <2>2. QED
    BY <1>2, <2>1, Zenon DEF OnePlace, Distinct, Apart
<1>3. ASSUME NEW k \in Tasks, Abstract!Post(k) PROVE OnePlace'
  <2>1. k \in Fresh /\ Fresh' = Fresh \ {k} /\ Waiting' \in {Waiting, Append(Waiting, k)}
    BY <1>3 DEF Abstract!Post, Fresh
  <2>2. CASE Waiting' = Append(Waiting, k)
    <3>1. /\ Len(Waiting') = Len(Waiting) + 1
          /\ \A i \in 1..Len(Waiting) : Waiting'[i] = Waiting[i]
          /\ Waiting'[Len(Waiting) + 1] = k
      BY <1>1, <2>2, AppendFacts
    <3>2. \A i \in 1..Len(Waiting') :
           \/ i + 0 \in 1..Len(Waiting) /\ Waiting'[i] = Waiting[i + 0]
           \/ i = Len(Waiting') /\ Waiting'[i] \in Fresh \cap {k}
      BY <1>1, <2>1, <3>1
    <3>3. 0 \in Nat /\ Len(Waiting') \in Nat
      BY <1>1, <3>1
    <3>4. QED
      BY <1>1, <2>1, <3>2, <3>3, LineStep, Zenon
  <2>3. QED
    BY <1>2, <2>1, <2>2
<1>4. CASE Abstract!Begin
  <2>1. Fresh' = Fresh /\ Waiting # <<>> /\ Waiting' = Tail(Waiting)
    BY <1>4 DEF Abstract!Begin, Fresh
  <2>2. QED
    BY <1>1, <2>1, TailShrinks
<1>5. CASE Abstract!Discard
  <2>1. PICK m, n \in 0..Len(Waiting) : Waiting' = SubSeq(Waiting, m + 1, n)
    BY <1>5 DEF Abstract!Discard
  <2>2. Fresh' = Fresh
    BY <1>5 DEF Abstract!Discard, Fresh
  <2>3. \A i \in (m + 1)..n : Waiting[i] \in Tasks
    BY <1>1, ElementOfSeq
  <2>4. /\ Len(Waiting') = IF m + 1 <= n THEN n - m ELSE 0
        /\ \A i \in 1..(n - m) : Waiting'[i] = Waiting[i + m]
    <3>1. /\ Len(SubSeq(Waiting, m + 1, n)) = IF m + 1 <= n THEN n - (m + 1) + 1 ELSE 0
          /\ \A i \in 1..(n - (m + 1) + 1) : SubSeq(Waiting, m + 1, n)[i] = Waiting[m + 1 + i - 1]
      BY <1>1, <2>3, SubSeqProperties
    <3>2. n - (m + 1) + 1 = n - m /\ \A i \in Int : m + 1 + i - 1 = i + m
      BY <1>1
    <3>3. QED
      BY <1>1, <2>1, <3>1, <3>2
  <2> DEFINE r == Waiting'
             s == Waiting
  <2>5. /\ Len(s) \in Nat /\ m \in 0..Len(s) /\ n \in 0..Len(s)
        /\ Len(r) = IF m + 1 <= n THEN n - m ELSE 0
        /\ \A i \in 1..(n - m) : r[i] = s[i + m]
    BY <1>1, <2>4
  <2> HIDE DEF r, s
  <2>6. Len(r) \in Nat /\ m \in Nat /\ \A i \in 1..Len(r) : i + m \in 1..Len(s) /\ r[i] = s[i + m]
    BY <2>5
  <2>7. QED
    BY <2>2, <2>5, <2>6, LineShrinks DEF r, s
<1>6. CASE Abstract!End \/ UNCHANGED Abstract!vars
  <2>1. Fresh' = Fresh \ {} /\ Waiting' = Waiting
    BY <1>6 DEF Abstract!End, Abstract!vars, Fresh
  <2>2. QED
    BY <1>2, <2>1
<1>7. QED
  BY <1>3, <1>4, <1>5, <1>6 DEF Abstract!Next

LEMMA PlaceTake ==
  ASSUME Inv, OnePlace, NEW w \in Workers, Take(w)
  PROVE  OnePlace'
<1>1. /\ Head(eq) \in Entry /\ Waiting # <<>> /\ Head(Waiting) = Head(eq).task
      /\ Waiting' = Tail(Waiting)
  BY TakeFront
<1>2. Waiting \in Seq(Tasks) /\ Len(Waiting) \in Nat /\ began \in Seq(Tasks) /\ Len(began) \in Nat
  BY WaitingType, LenProperties DEF Inv, TypeOK
<1>3. Fresh' = Fresh
  BY DEF Take, Fresh
<1>4. CASE began' = began
  BY <1>1, <1>2, <1>3, <1>4, TailShrinks
<1>5. CASE began' = Append(began, Head(eq).task)
  <2> DEFINE s == Waiting
             r == Waiting'
             b == began
             c == began'
             N == Fresh
  <2>1. /\ Len(r) = Len(s) - 1
        /\ Len(s) > 0 /\ Len(s) \in Nat
        /\ \A i \in 1..(Len(s) - 1) : r[i] = s[i + 1]
        /\ s[1] = Head(eq).task /\ Head(eq).task \in Tasks
    BY <1>1, <1>2, HeadTailProperties, EmptySeq, EntryFacts
  <2>2. /\ Len(c) = Len(b) + 1 /\ Len(b) \in Nat
        /\ \A i \in 1..Len(b) : c[i] = b[i]
        /\ c[Len(b) + 1] = s[1]
    BY <1>2, <1>5, <2>1, AppendFacts
  <2>3. /\ Distinct(s) /\ Apart(s, N) /\ Distinct(b) /\ Apart(b, N)
        /\ \A i \in 1..Len(b), j \in 1..Len(s) : b[i] # s[j]
    BY DEF OnePlace
  <2> HIDE DEF s, r, b, c, N
  <2>4. Distinct(c) /\ Apart(c, N)
    BY <2>1, <2>2, <2>3 DEF Distinct, Apart
  <2>5. \A i \in 1..Len(r) : i + 1 \in 1..Len(s) /\ i + 1 # 1 /\ r[i] = s[i + 1]
    BY <2>1
  <2>6. Distinct(r)
    <3>1. SUFFICES ASSUME NEW i \in 1..Len(r), NEW j \in 1..Len(r), r[i] = r[j] PROVE i = j
      BY DEF Distinct
    <3>2. i + 1 = j + 1
      BY <2>3, <2>5, <3>1 DEF Distinct
    <3>3. QED
      BY <3>2
  <2>7. Apart(r, N)
    BY <2>3, <2>5 DEF Apart
  <2>8. ASSUME NEW i \in 1..Len(c), NEW j \in 1..Len(r) PROVE c[i] # r[j]
    <3>1. CASE i = Len(b) + 1
      <4>1. s[j + 1] # s[1]
        BY <2>1, <2>3, <2>5 DEF Distinct
      <4>2. QED
        BY <2>2, <2>5, <3>1, <4>1
    <3>2. CASE i \in 1..Len(b)
      BY <2>2, <2>3, <2>5, <3>2
    <3>3. QED
      BY <2>2, <3>1, <3>2
  <2>9. QED
    BY <1>3, <2>4, <2>6, <2>7, <2>8 DEF OnePlace, Distinct, Apart, r, c, N
<1>6. QED
  BY <1>4, <1>5 DEF Take

(* No task begins twice, although shells of tasks stay in tq, and may even *)
(* keep their functions: only what was never moved from gets to a worker.  *)
THEOREM NoneTwice ==
  ASSUME Directions \subseteq {0}
  PROVE  Spec => []IsInjective(began)
<1>1. Init => OnePlace
  <2> SUFFICES ASSUME Init PROVE OnePlace
    OBVIOUS
  <2>1. Inv
    BY InvInit
  <2>2. Rest = <<>> /\ Ids(<<>>) = <<>> /\ eq = <<>> /\ began = <<>>
    BY <2>1, WaitingFacts DEF Init, Rest
  <2>3. Waiting = <<>>
    BY <2>1, <2>2, WaitingFacts
  <2>4. Len(Waiting) = 0 /\ Len(began) = 0
    BY <2>2, <2>3, Len(<<>>) = 0
  <2>5. QED
    BY <2>4 DEF OnePlace, Distinct, Apart
<1>2. Inv /\ OnePlace /\ [Next]_vars => OnePlace'
  <2> SUFFICES ASSUME Inv, OnePlace, [Next]_vars PROVE OnePlace'
    OBVIOUS
  <2>1. [Abstract!Next]_(Abstract!vars)
    BY SerialSteps
  <2>2. UNCHANGED began \/ \E w \in Workers : Take(w)
    BY DEF Next, PostBegin, CallStep, PostInsert, SyncReturn, WorkerStep, EndTask, SkipAfter,
      EnterAfter, After, Cancel, BreakQueue, Destroy, SetKeep, EqCancelAll, EqDrop, vars
  <2>3. QED
    BY <2>1, <2>2, PlaceNext, PlaceTake
<1>3. Inv /\ OnePlace => IsInjective(began)
  <2> SUFFICES ASSUME Inv, OnePlace PROVE IsInjective(began)
    OBVIOUS
  <2>1. DOMAIN began = 1..Len(began)
    BY LenProperties DEF Inv, TypeOK
  <2>2. QED
    BY <2>1 DEF OnePlace, Distinct, IsInjective
<1>4. QED
  BY <1>1, <1>2, <1>3, Invariance, PTL DEF Spec

===============================================================================
