--------------------------- MODULE WorkerGroupProofs ---------------------------
(* Theorems about WorkerGroup, for any workers, managers, tasks and queues. *)
EXTENDS WorkerGroup, FiniteSetTheorems, SequenceTheorems, TLAPS

-------------------------------------------------------------------------------
(* Sequences without repetitions.                                          *)

LEMMA AppendDistinct ==
  ASSUME NEW S, NEW s \in Seq(S), NEW e \in S, IsInjective(s), e \notin ToSet(s)
  PROVE  /\ Append(s, e) \in Seq(S)
         /\ IsInjective(Append(s, e))
         /\ \A x : x \in ToSet(Append(s, e)) <=> x \in ToSet(s) \/ x = e
<1> DEFINE r == Append(s, e)
<1>1. /\ r \in Seq(S)
      /\ Len(s) \in Nat
      /\ DOMAIN s = 1..Len(s)
      /\ DOMAIN r = 1..(Len(s) + 1)
      /\ r[Len(s) + 1] = e
      /\ \A i \in 1..Len(s) : r[i] = s[i]
  BY AppendProperties, LenProperties
<1> HIDE DEF r
<1>2. \A i \in 1..Len(s) : s[i] # e
  BY <1>1 DEF ToSet
<1>3. IsInjective(r)
  BY <1>1, <1>2 DEF IsInjective
<1>4. ASSUME NEW x PROVE x \in ToSet(r) <=> x \in ToSet(s) \/ x = e
  BY <1>1 DEF ToSet
<1>5. QED
  BY <1>1, <1>3, <1>4 DEF r

LEMMA RemoveAtDistinct ==
  ASSUME NEW S, NEW s \in Seq(S), NEW n \in DOMAIN s, IsInjective(s)
  PROVE  /\ RemoveAt(s, n) \in Seq(S)
         /\ IsInjective(RemoveAt(s, n))
         /\ \A x : x \in ToSet(RemoveAt(s, n)) <=> x \in ToSet(s) /\ x # s[n]
<1> DEFINE a == SubSeq(s, 1, n - 1)
           b == SubSeq(s, n + 1, Len(s))
<1>1. /\ Len(s) \in Nat
      /\ DOMAIN s = 1..Len(s)
      /\ n \in 1..Len(s)
      /\ \A i \in 1..Len(s) : s[i] \in S
  BY LenProperties, ElementOfSeq
<1>2. /\ a \in Seq(S)
      /\ Len(a) = n - 1
      /\ \A i \in 1..(n - 1) : a[i] = s[i]
  BY <1>1, SubSeqProperties
<1>3. /\ b \in Seq(S)
      /\ Len(b) = Len(s) - n
      /\ \A i \in 1..(Len(s) - n) : b[i] = s[n + i]
  BY <1>1, SubSeqProperties
<1> DEFINE r == a \o b
<1> HIDE DEF a, b
<1>4. /\ r \in Seq(S)
      /\ Len(r) = Len(s) - 1
      /\ \A i \in 1..(Len(s) - 1) : r[i] = IF i < n THEN a[i] ELSE b[i - n + 1]
  <2>1. /\ r \in Seq(S)
        /\ Len(r) = Len(a) + Len(b)
        /\ \A i \in 1..(Len(a) + Len(b)) : r[i] = IF i <= Len(a) THEN a[i] ELSE b[i - Len(a)]
    BY <1>2, <1>3, ConcatProperties
  <2> HIDE DEF r
  <2>2. Len(r) = Len(s) - 1
    BY <1>1, <1>2, <1>3, <2>1
  <2>3. \A i \in 1..(Len(s) - 1) :
          i \in 1..(Len(a) + Len(b)) /\ (i <= Len(a) <=> i < n) /\ i - Len(a) = i - n + 1
    BY <1>1, <1>2, <1>3
  <2>4. QED
    BY <2>1, <2>2, <2>3
<1>5. DOMAIN r = 1..(Len(s) - 1)
  BY <1>4, LenProperties
<1> HIDE DEF r
<1>6. ASSUME NEW i \in 1..(Len(s) - 1)
      PROVE  r[i] = IF i < n THEN s[i] ELSE s[i + 1]
  <2>1. CASE i < n
    <3>1. i \in 1..(n - 1)
      BY <1>1, <2>1
    <3>2. a[i] = s[i]
      BY <1>2, <3>1
    <3>3. r[i] = a[i]
      BY <1>4, <2>1
    <3>4. QED
      BY <2>1, <3>2, <3>3
  <2>2. CASE i >= n
    <3>1. i - n + 1 \in 1..(Len(s) - n) /\ n + (i - n + 1) = i + 1
      BY <1>1, <2>2
    <3>2. b[i - n + 1] = s[n + (i - n + 1)]
      BY <1>3, <3>1
    <3>3. r[i] = b[i - n + 1]
      <4>1. ~(i < n)
        BY <1>1, <2>2
      <4>2. QED
        BY <1>4, <4>1
    <3>4. ~(i < n)
      BY <1>1, <2>2
    <3>5. QED
      BY <3>1, <3>2, <3>3, <3>4
  <2>3. QED
    BY <1>1, <2>1, <2>2
<1>7. IsInjective(r)
  BY <1>1, <1>5, <1>6 DEF IsInjective
<1>8. ASSUME NEW x PROVE x \in ToSet(r) <=> x \in ToSet(s) /\ x # s[n]
  <2>1. x \in ToSet(r) => x \in ToSet(s) /\ x # s[n]
    BY <1>1, <1>5, <1>6 DEF ToSet, IsInjective
  <2>2. ASSUME NEW i \in 1..Len(s), s[i] # s[n] PROVE s[i] \in ToSet(r)
    <3>1. CASE i < n
      BY <1>1, <1>5, <1>6, <3>1 DEF ToSet
    <3>2. CASE i > n
      <4>1. i - 1 \in 1..(Len(s) - 1) /\ ~(i - 1 < n) /\ (i - 1) + 1 = i
        BY <1>1, <3>2
      <4>2. r[i - 1] = s[i]
        BY <1>6, <4>1
      <4>3. QED
        BY <1>5, <4>1, <4>2 DEF ToSet
    <3>3. QED
      BY <1>1, <2>2, <3>1, <3>2
  <2>3. QED
    BY <1>1, <2>1, <2>2 DEF ToSet
<1>9. r = RemoveAt(s, n)
  BY DEF r, a, b, RemoveAt
<1>10. QED
  BY <1>4, <1>7, <1>8, <1>9

-------------------------------------------------------------------------------
(* The invariant.                                                          *)

(* worker_lock_ is held across steps by whoever waits for a worker to end. *)
Locked ==
  /\ \A a \in Actors : act[a] = "erase" <=> lock = a
  /\ lock # Nobody => victim[lock] \in Workers

(* The listed workers are those alive, each listed once; the one that is   *)
(* being destroyed is the one the holder of the lock waits for.            *)
Lives ==
  /\ IsInjective(members)
  /\ \A w \in Workers : w \in ToSet(members) <=> life[w] = "alive"
  /\ \A w \in Workers : life[w] \in {"stopping", "last"} => lock # Nobody /\ victim[lock] = w

Syncing == {"size", "member", "inline", "post", "await"}

(* A worker has a task unless it is idle, and one that is gone is idle.    *)
Busy ==
  \A w \in Workers :
    /\ act[w] = "idle" <=> task[w] = NoTask
    /\ life[w] = "none" => act[w] = "idle"
    /\ act[w] \in Syncing => Inner[task[w]] \in Tasks

(* A worker that found itself to be the only one is, unless the group grew. *)
Alone ==
  \A w \in Workers \ grown : act[w] \in {"member", "inline"} =>
    \A v \in Workers \ {w} : life[v] = "none"

Inv == TypeOK /\ Locked /\ Lives /\ Busy /\ Alone

Acts == {"idle", "size", "member", "inline", "post", "await", "body",
         "shrink", "erase", "above", "below", "grow", "over"}

LEMMA InvInit == Init => Inv
<1> SUFFICES ASSUME Init PROVE Inv
  OBVIOUS
<1>1. members \in Seq(Workers) /\ IsInjective(members)
  BY ActorsAssumption DEF Init
<1>2. TypeOK
  BY <1>1, ActorsAssumption, TasksAssumption DEF Init, TypeOK
<1>3. Locked
  BY ActorsAssumption DEF Init, Locked
<1>4. Lives
  BY <1>1 DEF Init, Lives
<1>5. Busy /\ Alone
  BY DEF Init, Busy, Alone, Actors, Syncing
<1>6. QED
  BY <1>2, <1>3, <1>4, <1>5 DEF Inv

-------------------------------------------------------------------------------
(* The steps, by what they do to the group.                                *)

LEMMA IncreaseInv ==
  ASSUME Inv, NEW m \in Managers, NEW w \in Workers, NEW p \in Priorities,
         NEW to \in Acts \ {"erase"}, act[m] # "erase",
         act' = [act EXCEPT ![m] = to], Increase(w, p)
  PROVE  Inv'
<1>1. /\ members' \in Seq(Workers)
      /\ IsInjective(members')
      /\ \A x : x \in ToSet(members') <=> x \in ToSet(members) \/ x = w
  BY AppendDistinct DEF Increase, Inv, TypeOK, Lives
<1>2. TypeOK'
  BY <1>1 DEF Increase, Inv, TypeOK, Acts
<1>3. Locked'
  BY ActorsAssumption DEF Increase, Inv, TypeOK, Locked, Actors, Free
<1>4. Lives'
  BY <1>1 DEF Increase, Inv, TypeOK, Lives, Free
<1>5. Busy'
  BY ActorsAssumption DEF Increase, Inv, TypeOK, Busy, Actors
<1>6. \A v \in Workers : act'[v] = act[v]
  BY ActorsAssumption DEF Inv, TypeOK, Actors
<1>7. Alone'
  BY <1>6 DEF Increase, Alone
<1>8. QED
  BY <1>2, <1>3, <1>4, <1>5, <1>7 DEF Inv

LEMMA DecreaseInv ==
  ASSUME Inv, NEW a \in Actors, NEW p, Decrease(a, p)
  PROVE  Inv'
<1>0. PICK n \in DOMAIN members :
        /\ members' = RemoveAt(members, n)
        /\ life' = [life EXCEPT ![members[n]] = "stopping"]
        /\ victim' = [victim EXCEPT ![a] = members[n]]
  BY Zenon DEF Decrease
<1>1. /\ members' \in Seq(Workers)
      /\ IsInjective(members')
      /\ \A x : x \in ToSet(members') <=> x \in ToSet(members) /\ x # members[n]
  BY <1>0, RemoveAtDistinct DEF Inv, TypeOK, Lives
<1> DEFINE v == members[n]
<1>2. v \in Workers /\ v \in ToSet(members) /\ life[v] = "alive"
  BY <1>0, ElementOfSeq, LenProperties DEF Inv, TypeOK, Lives, ToSet
<1>3. /\ act[a] = "shrink"
      /\ act' = [act EXCEPT ![a] = "erase"]
      /\ lock = Nobody
      /\ lock' = a
      /\ UNCHANGED <<prio, task, backlog, done, grown>>
  BY DEF Decrease, Goes, Free
<1> HIDE DEF v
<1>4. TypeOK'
  BY <1>0, <1>1, <1>2, <1>3 DEF Inv, TypeOK, v
<1>5. Locked'
  BY <1>0, <1>2, <1>3, ActorsAssumption DEF Inv, TypeOK, Locked, v
<1>6. Lives'
  BY <1>0, <1>1, <1>2, <1>3, ActorsAssumption DEF Inv, TypeOK, Lives, v
<1>7. Busy'
  BY <1>0, <1>2, <1>3 DEF Inv, TypeOK, Busy, Actors, Syncing, v
<1>8. Alone'
  BY <1>0, <1>2, <1>3 DEF Inv, TypeOK, Alone, Actors, v
<1>9. QED
  BY <1>4, <1>5, <1>6, <1>7, <1>8 DEF Inv

LEMMA ErasedInv ==
  ASSUME Inv, NEW a \in Actors, NEW to \in {"above", "over", "body"}, Erased(a, to)
  PROVE  Inv'
<1>1. /\ act[a] = "erase"
      /\ act' = [act EXCEPT ![a] = to]
      /\ life[victim[a]] = "none"
      /\ lock' = Nobody
      /\ victim' = [victim EXCEPT ![a] = Nobody]
      /\ UNCHANGED <<members, prio, life, task, backlog, done, grown>>
  BY DEF Erased, Goes
<1>2. lock = a
  BY <1>1 DEF Inv, Locked
<1>3. TypeOK'
  BY <1>1 DEF Inv, TypeOK
<1>4. Locked'
  BY <1>1, <1>2, ActorsAssumption DEF Inv, TypeOK, Locked
<1>5. Lives'
  BY <1>1, <1>2 DEF Inv, TypeOK, Lives
<1>6. Busy' /\ Alone'
  BY <1>1 DEF Inv, TypeOK, Busy, Alone, Actors, Syncing
<1>7. QED
  BY <1>3, <1>4, <1>5, <1>6 DEF Inv

(* A step of an actor that neither takes nor releases the lock.            *)
LEMMA PlainLocked ==
  ASSUME Inv, NEW a \in Actors, NEW from \in Acts \ {"erase"}, NEW to \in Acts \ {"erase"},
         Goes(a, from, to), UNCHANGED <<lock, victim>>
  PROVE  Locked'
BY DEF Goes, Inv, TypeOK, Locked

LEMMA ManagerInv ==
  ASSUME Inv, NEW m \in Managers, NEW from \in Acts \ {"erase"}, NEW to \in Acts \ {"erase"},
         Goes(m, from, to),
         UNCHANGED <<lock, members, prio, life, task, victim, backlog, done, grown>>
  PROVE  Inv'
<1>1. TypeOK'
  BY DEF Goes, Inv, TypeOK, Acts
<1>2. Locked'
  BY PlainLocked DEF Actors
<1>3. \A w \in Workers : act'[w] = act[w]
  BY ActorsAssumption DEF Goes, Inv, TypeOK, Actors
<1>4. Lives' /\ Busy' /\ Alone'
  BY <1>3 DEF Inv, Lives, Busy, Alone
<1>5. QED
  BY <1>1, <1>2, <1>4 DEF Inv

(* A step within a task, up to its end.                                    *)
LEMMA WorkerInv ==
  ASSUME Inv, NEW w \in Workers, NEW from \in Acts \ {"erase", "idle"},
         NEW to \in Acts \ {"erase", "idle"},
         Goes(w, from, to), to \in Syncing => from \in Syncing,
         to \in {"member", "inline"} /\ w \notin grown' =>
           \A v \in Workers \ {w} : life[v] = "none",
         grown' \in {grown, grown \ {w}},
         backlog' \in [Queues -> Seq(Tasks)],
         done' \subseteq Tasks,
         UNCHANGED <<lock, members, prio, life, task, victim>>
  PROVE  Inv'
<1>1. TypeOK'
  BY DEF Goes, Inv, TypeOK, Acts
<1>2. Locked'
  BY PlainLocked DEF Actors
<1>3. Lives'
  BY DEF Inv, Lives
<1>4. Busy'
  BY DEF Goes, Inv, TypeOK, Busy, Actors
<1>5. Alone'
  BY DEF Goes, Inv, TypeOK, Alone, Actors
<1>6. QED
  BY <1>1, <1>2, <1>3, <1>4, <1>5 DEF Inv

LEMMA TakeInv ==
  ASSUME Inv, NEW w \in Workers, NEW q \in Queues, Take(w, q)
  PROVE  Inv'
<1> DEFINE k == Head(backlog[q])
           to == IF Inner[k] # NoTask THEN "size"
                 ELSE IF k \in Shrinking THEN "shrink" ELSE "body"
<1>1. k \in Tasks /\ Tail(backlog[q]) \in Seq(Tasks)
  <2>1. backlog[q] \in Seq(Tasks) /\ backlog[q] # <<>>
    BY DEF Take, Inv, TypeOK
  <2>2. QED
    BY <2>1, HeadTailProperties
<1>2. /\ life[w] \in {"alive", "stopping"}
      /\ life' = [life EXCEPT ![w] = IF @ = "stopping" THEN "last" ELSE @]
      /\ act[w] = "idle"
      /\ act' = [act EXCEPT ![w] = to]
      /\ task' = [task EXCEPT ![w] = k]
      /\ backlog' = [backlog EXCEPT ![q] = Tail(@)]
      /\ UNCHANGED <<lock, members, prio, victim, done, grown>>
  BY DEF Take, Goes
<1>3. to \in {"size", "shrink", "body"} /\ (to = "size" => Inner[k] \in Tasks)
  BY <1>1, TasksAssumption
<1> HIDE DEF k, to
<1>4. TypeOK'
  BY <1>1, <1>2, <1>3 DEF Inv, TypeOK
<1>5. Locked'
  BY <1>2, <1>3 DEF Inv, TypeOK, Locked
<1>6. Lives'
  BY <1>2 DEF Inv, TypeOK, Lives
<1>7. Busy'
  BY <1>1, <1>2, <1>3, TasksAssumption DEF Inv, TypeOK, Busy, Actors, Syncing
<1>8. Alone'
  BY <1>2, <1>3 DEF Inv, TypeOK, Alone, Actors
<1>9. QED
  BY <1>4, <1>5, <1>6, <1>7, <1>8 DEF Inv

LEMMA EndInv ==
  ASSUME Inv, NEW w \in Workers, End(w)
  PROVE  Inv'
<1>1. /\ act[w] = "body"
      /\ act' = [act EXCEPT ![w] = "idle"]
      /\ done' = done \cup {task[w]}
      /\ task' = [task EXCEPT ![w] = NoTask]
      /\ UNCHANGED <<lock, members, prio, life, victim, backlog, grown>>
  BY DEF End, Goes
<1>2. task[w] \in Tasks
  BY <1>1 DEF Inv, TypeOK, Busy
<1>3. TypeOK'
  BY <1>1, <1>2 DEF Inv, TypeOK
<1>4. Locked' /\ Lives'
  BY <1>1 DEF Inv, TypeOK, Locked, Lives
<1>5. Busy' /\ Alone'
  BY <1>1 DEF Inv, TypeOK, Busy, Alone, Actors, Syncing
<1>6. QED
  BY <1>3, <1>4, <1>5 DEF Inv

LEMMA LeaveInv ==
  ASSUME Inv, NEW w \in Workers, Leave(w)
  PROVE  Inv'
<1>1. /\ life[w] \in {"stopping", "last"}
      /\ act[w] = "idle"
      /\ life' = [life EXCEPT ![w] = "none"]
      /\ UNCHANGED <<lock, members, prio, act, task, victim, backlog, done, grown>>
  BY DEF Leave
<1>2. TypeOK'
  BY <1>1 DEF Inv, TypeOK
<1>3. Locked' /\ Lives'
  BY <1>1 DEF Inv, TypeOK, Locked, Lives
<1>4. Busy' /\ Alone'
  BY <1>1 DEF Inv, TypeOK, Busy, Alone
<1>5. QED
  BY <1>2, <1>3, <1>4 DEF Inv

-------------------------------------------------------------------------------
LEMMA ManagerNext ==
  ASSUME Inv, NEW m \in Managers, Call(m) \/ ManagerStep(m)
  PROVE  Inv'
<1> USE DEF Acts
<1>1. CASE Call(m)
  BY <1>1, ManagerInv DEF Call
<1>2. CASE Above(m)
  BY <1>2, ManagerInv DEF Above
<1>3. CASE Below(m)
  BY <1>3, ManagerInv DEF Below
<1>4. CASE GrowMore(m)
  <2>1. PICK w \in Workers : Increase(w, Base)
    BY <1>4, Zenon DEF GrowMore
  <2>2. act[m] = "grow" /\ act' = [act EXCEPT ![m] = "below"]
    BY <1>4 DEF GrowMore, Goes
  <2>3. QED
    BY <2>1, <2>2, IncreaseInv, ActorsAssumption
<1>5. CASE Shrink(m)
  <2> DEFINE next == IF m \in Adjusters THEN "above" ELSE "over"
  <2>1. next \in {"above", "over"} /\ m \in Actors
    BY DEF Actors
  <2>2. \/ DecreaseNone(m, Base, next)
        \/ Decrease(m, Base)
        \/ Erased(m, next)
    BY <1>5 DEF Shrink
  <2> HIDE DEF next
  <2>3. CASE DecreaseNone(m, Base, next)
    BY <2>1, <2>3, ManagerInv DEF DecreaseNone
  <2>4. CASE Decrease(m, Base)
    BY <2>1, <2>4, DecreaseInv
  <2>5. CASE Erased(m, next)
    BY <2>1, <2>5, ErasedInv
  <2>6. QED
    BY <2>2, <2>3, <2>4, <2>5
<1>6. QED
  BY <1>1, <1>2, <1>3, <1>4, <1>5 DEF ManagerStep

LEMMA WorkerNext ==
  ASSUME Inv, NEW w \in Workers, WorkerStep(w)
  PROVE  Inv'
<1> USE DEF Acts, Syncing
<1>0. w \in Actors /\ backlog \in [Queues -> Seq(Tasks)] /\ done \subseteq Tasks
  BY DEF Actors, Inv, TypeOK
<1>1. ASSUME NEW q \in Queues, Take(w, q) PROVE Inv'
  BY <1>1, TakeInv
<1>2. CASE SyncSize(w)
  <2>1. PICK to \in {"member", "post"} :
          Goes(w, "size", to) /\ (to = "member" => Len(members) = 1)
    BY <1>2 DEF SyncSize
  <2>2. ASSUME to = "member", NEW v \in Workers \ {w} PROVE life[v] = "none"
    <3>1. life[w] # "none" /\ lock = Nobody
      BY <1>2, <2>1 DEF SyncSize, Goes, Free, Inv, Busy
    <3>2. \A u \in Workers : life[u] # "none" => u \in ToSet(members)
      BY <3>1 DEF Inv, TypeOK, Lives
    <3>3. DOMAIN members = 1..1
      BY <2>1, <2>2, LenProperties DEF Inv, TypeOK
    <3>4. QED
      BY <3>1, <3>2, <3>3 DEF ToSet
  <2>3. grown' = grown \ {w} /\ UNCHANGED <<lock, members, prio, life, task, victim, backlog, done>>
    BY <1>2 DEF SyncSize
  <2>4. QED
    BY <1>0, <2>1, <2>2, <2>3, WorkerInv
<1>3. CASE SyncMember(w)
  <2>1. PICK to \in {"inline", "post"} : Goes(w, "member", to)
    BY <1>3 DEF SyncMember
  <2>2. w \notin grown => \A v \in Workers \ {w} : life[v] = "none"
    BY <2>1 DEF Goes, Inv, Alone
  <2>3. UNCHANGED <<lock, members, prio, life, task, victim, backlog, done, grown>>
    BY <1>3 DEF SyncMember
  <2>4. QED
    BY <1>0, <2>1, <2>2, <2>3, WorkerInv
<1>4. CASE SyncInline(w)
  <2>1. Inner[task[w]] \in Tasks
    BY <1>4 DEF SyncInline, Goes, Inv, Busy
  <2>2. QED
    BY <1>0, <1>4, <2>1, WorkerInv DEF SyncInline
<1>5. CASE SyncPost(w)
  <2> DEFINE k == Inner[task[w]]
  <2>1. k \in Tasks /\ QueueOf[k] \in Queues
    BY <1>5, TasksAssumption DEF SyncPost, Goes, Inv, Busy
  <2>2. backlog' = [backlog EXCEPT ![QueueOf[k]] = Append(@, k)]
    BY <1>5 DEF SyncPost
  <2> HIDE DEF k
  <2>3. backlog' \in [Queues -> Seq(Tasks)]
    BY <1>0, <2>1, <2>2
  <2>4. QED
    BY <1>0, <1>5, <2>3, WorkerInv DEF SyncPost
<1>6. CASE SyncReturn(w)
  BY <1>0, <1>6, WorkerInv DEF SyncReturn
<1>7. CASE TaskShrink(w)
  <2>1. CASE DecreaseNone(w, Base, "body")
    BY <1>0, <2>1, WorkerInv DEF DecreaseNone
  <2>2. CASE Decrease(w, Base)
    BY <1>0, <2>2, DecreaseInv
  <2>3. CASE Erased(w, "body")
    BY <1>0, <2>3, ErasedInv
  <2>4. QED
    BY <1>7, <2>1, <2>2, <2>3 DEF TaskShrink
<1>8. CASE End(w)
  BY <1>8, EndInv
<1>9. CASE Leave(w)
  BY <1>9, LeaveInv
<1>10. QED
  BY <1>1, <1>2, <1>3, <1>4, <1>5, <1>6, <1>7, <1>8, <1>9 DEF WorkerStep

LEMMA NextPreserves == Inv /\ [Next]_vars => Inv'
<1> SUFFICES ASSUME Inv, [Next]_vars PROVE Inv'
  OBVIOUS
<1>1. ASSUME NEW g \in Growers, Grow(g) PROVE Inv'
  <2>1. PICK w \in Workers : Increase(w, Grown[g])
    BY <1>1, Zenon DEF Grow
  <2>2. act[g] = "idle" /\ act' = [act EXCEPT ![g] = "over"]
    BY <1>1 DEF Grow, Goes
  <2>3. g \in Managers /\ Grown[g] \in Priorities
    BY ActorsAssumption
  <2>4. QED
    BY <2>1, <2>2, <2>3, IncreaseInv DEF Acts
<1>2. ASSUME NEW m \in Managers, Call(m) \/ ManagerStep(m) PROVE Inv'
  BY <1>2, ManagerNext
<1>3. ASSUME NEW k \in Outer, Post(k) PROVE Inv'
  <2>1. k \in Tasks /\ QueueOf[k] \in Queues
    BY TasksAssumption DEF Outer
  <2>2. TypeOK'
    BY <1>3, <2>1 DEF Post, Inv, TypeOK
  <2>3. Locked' /\ Lives' /\ Busy' /\ Alone'
    BY <1>3 DEF Post, Inv, Locked, Lives, Busy, Alone
  <2>4. QED
    BY <2>2, <2>3 DEF Inv
<1>4. ASSUME NEW w \in Workers, WorkerStep(w) PROVE Inv'
  BY <1>4, WorkerNext
<1>5. CASE UNCHANGED vars
  BY <1>5 DEF vars, Inv, TypeOK, Locked, Lives, Busy, Alone
<1>6. QED
  BY <1>1, <1>2, <1>3, <1>4, <1>5 DEF Next

LEMMA Invariance == Spec => []Inv
BY InvInit, NextPreserves, PTL DEF Spec

-------------------------------------------------------------------------------
(* Queues and tasks.                                                       *)

(* A task waits in its own queue, and a queue has one task in flight.      *)
Queued == \A q \in Queues : \A k \in ToSet(backlog[q]) : QueueOf[k] = q

OneEach ==
  \A v, w \in Workers :
    task[v] # NoTask /\ task[w] # NoTask /\ QueueOf[task[v]] = QueueOf[task[w]] => v = w

QInv == Queued /\ OneEach

LEMMA PutQueued ==
  ASSUME Inv, Queued, NEW k \in Tasks, QueueOf[k] \in Queues,
         backlog' = [backlog EXCEPT ![QueueOf[k]] = Append(@, k)]
  PROVE  Queued'
<1>1. SUFFICES ASSUME NEW q \in Queues, NEW x \in ToSet(backlog'[q]) PROVE QueueOf[x] = q
  BY DEF Queued
<1>2. backlog[q] \in Seq(Tasks)
  BY DEF Inv, TypeOK
<1>3. CASE q = QueueOf[k]
  <2>1. backlog'[q] = Append(backlog[q], k)
    BY <1>3 DEF Inv, TypeOK
  <2>2. PICK i \in DOMAIN backlog'[q] : x = backlog'[q][i]
    BY <1>1 DEF ToSet
  <2>3. i \in 1..(Len(backlog[q]) + 1) /\ Len(backlog[q]) \in Nat
    BY <1>2, <2>1, <2>2, AppendProperties, LenProperties
  <2>4. CASE i = Len(backlog[q]) + 1
    BY <1>2, <1>3, <2>1, <2>2, <2>4, AppendProperties
  <2>5. CASE i \in 1..Len(backlog[q])
    <3>1. x = backlog[q][i] /\ i \in DOMAIN backlog[q]
      BY <1>2, <2>1, <2>2, <2>5, AppendProperties, LenProperties
    <3>2. QED
      BY <3>1 DEF Queued, ToSet
  <2>6. QED
    BY <2>3, <2>4, <2>5
<1>4. CASE q # QueueOf[k]
  BY <1>1, <1>4 DEF Inv, TypeOK, Queued
<1>5. QED
  BY <1>3, <1>4

LEMMA TakeQueued ==
  ASSUME Inv, QInv, NEW w \in Workers, NEW q \in Queues, Take(w, q)
  PROVE  /\ QInv'
         /\ Head(backlog[q]) \in Tasks
         /\ QueueOf[Head(backlog[q])] = q
<1> DEFINE k == Head(backlog[q])
<1>1. backlog[q] \in Seq(Tasks) /\ backlog[q] # <<>>
  BY DEF Take, Inv, TypeOK
<1>2. /\ k \in Tasks
      /\ k \in ToSet(backlog[q])
      /\ \A x : x \in ToSet(Tail(backlog[q])) => x \in ToSet(backlog[q])
  <2>1. /\ Len(backlog[q]) \in Nat \ {0}
        /\ DOMAIN backlog[q] = 1..Len(backlog[q])
        /\ DOMAIN Tail(backlog[q]) = 1..(Len(backlog[q]) - 1)
        /\ \A i \in 1..(Len(backlog[q]) - 1) : Tail(backlog[q])[i] = backlog[q][i + 1]
        /\ k = backlog[q][1]
        /\ k \in Tasks
    BY <1>1, HeadTailProperties, EmptySeq, LenProperties
  <2> HIDE DEF k
  <2>2. 1 \in DOMAIN backlog[q]
    BY <2>1
  <2>3. \A i \in 1..(Len(backlog[q]) - 1) : i + 1 \in DOMAIN backlog[q]
    BY <2>1
  <2>4. QED
    BY <2>1, <2>2, <2>3 DEF ToSet
<1>3. QueueOf[k] = q
  BY <1>2 DEF QInv, Queued
<1>4. /\ task' = [task EXCEPT ![w] = k]
      /\ backlog' = [backlog EXCEPT ![q] = Tail(@)]
      /\ \A v \in Workers : ~(task[v] # NoTask /\ QueueOf[task[v]] = q)
  BY DEF Take, Active
<1> HIDE DEF k
<1>5. Queued'
  BY <1>2, <1>4 DEF Inv, TypeOK, QInv, Queued
<1>6. OneEach'
  BY <1>3, <1>4 DEF Inv, TypeOK, QInv, OneEach
<1>7. QED
  BY <1>2, <1>3, <1>5, <1>6 DEF QInv, k

LEMMA QueuedNext == Inv /\ QInv /\ [Next]_vars => QInv'
<1> SUFFICES ASSUME Inv, QInv, [Next]_vars PROVE QInv'
  OBVIOUS
<1>1. CASE UNCHANGED <<task, backlog>>
  BY <1>1 DEF QInv, Queued, OneEach
<1>2. ASSUME NEW k \in Outer, Post(k) PROVE QInv'
  <2>1. k \in Tasks /\ QueueOf[k] \in Queues
    BY TasksAssumption DEF Outer
  <2>2. Queued'
    BY <1>2, <2>1, PutQueued DEF Post, QInv
  <2>3. QED
    BY <1>2, <2>2 DEF Post, QInv, OneEach
<1>3. ASSUME NEW w \in Workers, NEW q \in Queues, Take(w, q) PROVE QInv'
  BY <1>3, TakeQueued
<1>4. ASSUME NEW w \in Workers, SyncPost(w) PROVE QInv'
  <2>1. Inner[task[w]] \in Tasks /\ QueueOf[Inner[task[w]]] \in Queues
    BY <1>4, TasksAssumption DEF SyncPost, Goes, Inv, Busy, Syncing
  <2>2. Queued'
    BY <1>4, <2>1, PutQueued DEF SyncPost, QInv
  <2>3. QED
    BY <1>4, <2>2 DEF SyncPost, QInv, OneEach
<1>5. ASSUME NEW w \in Workers, End(w) PROVE QInv'
  BY <1>5 DEF End, Inv, TypeOK, QInv, Queued, OneEach
<1>6. ASSUME NEW a \in Actors, NEW p, NEW to,
             DecreaseNone(a, p, to) \/ Decrease(a, p) \/ Erased(a, to)
      PROVE  UNCHANGED <<task, backlog>>
  BY <1>6 DEF DecreaseNone, Decrease, Erased
<1>7. ASSUME NEW w \in Workers,
             SyncSize(w) \/ SyncMember(w) \/ SyncInline(w) \/ SyncReturn(w) \/ TaskShrink(w) \/ Leave(w)
      PROVE  UNCHANGED <<task, backlog>>
  BY <1>6, <1>7 DEF SyncSize, SyncMember, SyncInline, SyncReturn, TaskShrink, Leave, Actors
<1>8. ASSUME NEW m \in Managers, Grow(m) \/ Call(m) \/ ManagerStep(m)
      PROVE  UNCHANGED <<task, backlog>>
  BY <1>6, <1>8 DEF Grow, Call, ManagerStep, Above, Below, GrowMore, Shrink, Increase, Actors
<1>9. CASE UNCHANGED vars
  BY <1>1, <1>9 DEF vars
<1>10. QED
  BY <1>1, <1>2, <1>3, <1>4, <1>5, <1>7, <1>8, <1>9, ActorsAssumption DEF Next, WorkerStep

LEMMA QueuedInit == Init => QInv
<1>1. Init => OneEach
  BY DEF Init, OneEach
<1>2. ASSUME Init, NEW q \in Queues PROVE ToSet(backlog[q]) = {}
  <2>1. backlog[q] = <<>>
    BY <1>2 DEF Init
  <2>2. DOMAIN backlog[q] = {}
    BY <2>1
  <2>3. QED
    BY <2>2 DEF ToSet
<1>3. QED
  BY <1>1, <1>2 DEF QInv, Queued

(* Who may do what.                                                        *)
Roles ==
  /\ \A m \in Managers : act[m] \notin Syncing \cup {"body"}
  /\ \A g \in Growers : act[g] \in {"idle", "over"}
  /\ \A w \in Workers : /\ act[w] \notin {"above", "below", "grow", "over"}
                        /\ act[w] \in {"shrink", "erase"} => task[w] \in Shrinking

LEMMA RolesGo ==
  ASSUME Inv, Roles, NEW a \in Actors, NEW from, NEW to, Goes(a, from, to),
         a \in Managers => to \notin Syncing \cup {"body"},
         a \in Growers => to \in {"idle", "over"},
         a \in Workers => /\ to \notin {"above", "below", "grow", "over"}
                          /\ to \in {"shrink", "erase"} => task'[a] \in Shrinking,
         \A w \in Workers \ {a} : task'[w] = task[w]
  PROVE  Roles'
BY ActorsAssumption DEF Goes, Inv, TypeOK, Roles, Actors

LEMMA RolesNext == Inv /\ Roles /\ [Next]_vars => Roles'
<1> SUFFICES ASSUME Inv, Roles, [Next]_vars PROVE Roles'
  OBVIOUS
<1> USE DEF Actors, Syncing
<1>1. ASSUME NEW g \in Growers, Grow(g) PROVE Roles'
  BY <1>1, RolesGo, ActorsAssumption DEF Grow, Increase
<1>2. ASSUME NEW m \in Managers, Call(m) PROVE Roles'
  BY <1>2, RolesGo, ActorsAssumption DEF Call
<1>3. ASSUME NEW m \in Adjusters, Above(m) \/ Below(m) \/ GrowMore(m) PROVE Roles'
  BY <1>3, RolesGo, ActorsAssumption DEF Above, Below, GrowMore, Increase
<1>4. ASSUME NEW m \in Managers, Shrink(m) PROVE Roles'
  <2> DEFINE next == IF m \in Adjusters THEN "above" ELSE "over"
  <2>1. next \in {"above", "over"}
    OBVIOUS
  <2>2. DecreaseNone(m, Base, next) \/ Decrease(m, Base) \/ Erased(m, next)
    BY <1>4 DEF Shrink
  <2> HIDE DEF next
  <2>3. act[m] \in {"shrink", "erase"} /\ m \notin Growers
    BY <2>2 DEF DecreaseNone, Decrease, Erased, Goes, Roles
  <2>4. CASE DecreaseNone(m, Base, next)
    BY <2>1, <2>3, <2>4, RolesGo, ActorsAssumption DEF DecreaseNone
  <2>5. CASE Decrease(m, Base)
    BY <2>3, <2>5, RolesGo, ActorsAssumption DEF Decrease
  <2>6. CASE Erased(m, next)
    BY <2>1, <2>3, <2>6, RolesGo, ActorsAssumption DEF Erased
  <2>7. QED
    BY <2>2, <2>4, <2>5, <2>6
<1>5. ASSUME NEW w \in Workers, NEW q \in Queues, Take(w, q) PROVE Roles'
  <2> DEFINE k == Head(backlog[q])
             to == IF Inner[k] # NoTask THEN "size" ELSE IF k \in Shrinking THEN "shrink" ELSE "body"
  <2>1. Goes(w, "idle", to) /\ task' = [task EXCEPT ![w] = k]
    BY <1>5 DEF Take
  <2>2. to \in {"size", "shrink", "body"} /\ (to = "shrink" => k \in Shrinking)
    OBVIOUS
  <2> HIDE DEF k, to
  <2>3. w \notin Managers /\ w \notin Growers
    BY ActorsAssumption
  <2>4. task'[w] = k /\ \A v \in Workers \ {w} : task'[v] = task[v]
    BY <2>1 DEF Inv, TypeOK
  <2>5. QED
    BY <2>1, <2>2, <2>3, <2>4, RolesGo
<1>6. ASSUME NEW w \in Workers, SyncSize(w) \/ SyncMember(w) \/ SyncInline(w) \/ SyncPost(w) \/ SyncReturn(w)
      PROVE  Roles'
  BY <1>6, RolesGo, ActorsAssumption DEF SyncSize, SyncMember, SyncInline, SyncPost, SyncReturn
<1>7. ASSUME NEW w \in Workers, TaskShrink(w) PROVE Roles'
  <2>1. act[w] \in {"shrink", "erase"} /\ task' = task /\ w \notin Managers /\ w \notin Growers
    BY <1>7, ActorsAssumption DEF TaskShrink, DecreaseNone, Decrease, Erased, Goes
  <2>2. task[w] \in Shrinking
    BY <2>1 DEF Roles
  <2>3. QED
    BY <1>7, <2>1, <2>2, RolesGo DEF TaskShrink, DecreaseNone, Decrease, Erased
<1>8. ASSUME NEW w \in Workers, End(w) PROVE Roles'
  <2>1. \A v \in Workers \ {w} : task'[v] = task[v]
    BY <1>8 DEF End, Inv, TypeOK
  <2>2. QED
    BY <1>8, <2>1, RolesGo, ActorsAssumption DEF End
<1>9. CASE UNCHANGED <<act, task>>
  BY <1>9 DEF Roles
<1>10. QED
  BY <1>1, <1>2, <1>3, <1>4, <1>5, <1>6, <1>7, <1>8, <1>9
     DEF Next, ManagerStep, WorkerStep, Post, Leave, vars

LEMMA FullInit == Init => Inv /\ QInv /\ Roles
<1>1. Init => Roles
  BY ActorsAssumption DEF Init, Roles, Actors, Syncing
<1>2. QED
  BY <1>1, InvInit, QueuedInit

LEMMA FullInvariance == Spec => [](Inv /\ QInv /\ Roles)
BY FullInit, NextPreserves, QueuedNext, RolesNext, PTL DEF Spec

-------------------------------------------------------------------------------
(* Rings of actors that wait for each other.                               *)

Ring(D) == D \subseteq Actors /\ \A b \in D : Waits(b) /\ WaitsFor(b) \subseteq D

LEMMA RingOf == \A a \in Actors : Deadlocked(a) <=> \E D \in SUBSET Actors : a \in D /\ Ring(D)
BY DEF Deadlocked, Ring

QueueAwaited(b) == QueueOf[Inner[task[b]]]

Servers == {w \in Workers : life[w] \in {"alive", "stopping"}}

(* What it takes to be in a ring, without the definition by cases.         *)
HeldBy(D, b) ==
  /\ NeedsLock(b) => lock \in D
  /\ act[b] = "erase" => victim[b] \in D
  /\ act[b] = "await" => IF Active(QueueAwaited(b)) # {} THEN Active(QueueAwaited(b)) \subseteq D
                                                        ELSE Servers \subseteq D

LEMMA RingMember ==
  ASSUME NEW D, NEW b
  PROVE  Waits(b) => (WaitsFor(b) \subseteq D <=> HeldBy(D, b))
<1>1. CASE NeedsLock(b)
  BY <1>1 DEF WaitsFor, NeedsLock, HeldBy
<1>2. CASE ~NeedsLock(b) /\ act[b] = "erase"
  BY <1>2 DEF WaitsFor, HeldBy
<1>3. CASE ~NeedsLock(b) /\ act[b] = "await"
  <2>1. WaitsFor(b) = IF Active(QueueAwaited(b)) # {} THEN Active(QueueAwaited(b)) ELSE Servers
    BY <1>3 DEF WaitsFor, QueueAwaited, Servers
  <2>2. QED
    BY <1>3, <2>1 DEF HeldBy
<1>4. QED
  BY <1>1, <1>2, <1>3 DEF Waits

LEMMA RingMemberNext ==
  ASSUME NEW CONSTANT D, NEW CONSTANT b
  PROVE  (Waits(b) => (WaitsFor(b) \subseteq D <=> HeldBy(D, b)))'
<1>1. Waits(b) => (WaitsFor(b) \subseteq D <=> HeldBy(D, b))
  BY RingMember
<1>2. QED
  BY <1>1, PTL

(* Nobody in a ring moves: whoever takes a step is outside.                *)
Outside(D, x) ==
  /\ x \in Actors \ D
  /\ \A b \in Actors \ {x} : act'[b] = act[b] /\ victim'[b] = victim[b]
  /\ \A w \in Workers \ {x} : task'[w] = task[w]
  /\ lock \in D => lock' = lock
  /\ Servers' \subseteq Servers
  /\ \A b \in D : act[b] = "await" => /\ Inner[task[b]] \notin done'
                                     /\ Active(QueueAwaited(b))' = Active(QueueAwaited(b))


LEMMA OutsideRing ==
  ASSUME NEW CONSTANT D, Ring(D), Inv, Roles, NEW x, Outside(D, x)
  PROVE  Ring(D)'
<1>1. SUFFICES ASSUME NEW CONSTANT b \in D PROVE Waits(b)' /\ (WaitsFor(b) \subseteq D)'
  BY DEF Ring, Outside
<1>2. b \in Actors /\ Waits(b) /\ WaitsFor(b) \subseteq D /\ act'[b] = act[b] /\ victim'[b] = victim[b]
  BY DEF Ring, Outside
<1>3. act[b] = "await" => b \in Workers /\ task'[b] = task[b]
  BY <1>2 DEF Actors, Roles, Syncing, Outside
<1>4. HeldBy(D, b)
  BY <1>2, RingMember
<1>5. NeedsLock(b) => lock \in D /\ lock' = lock
  BY <1>2, <1>4 DEF HeldBy, Outside
<1>6. NeedsLock(b)' => NeedsLock(b)
  BY <1>2 DEF NeedsLock, Waits, Free
<1>7. act[b] = "await" => QueueAwaited(b)' = QueueAwaited(b)
  BY <1>3 DEF QueueAwaited
<1>8. Waits(b)'
  BY <1>2, <1>3, <1>5 DEF Waits, NeedsLock, Free, Outside
<1>9. HeldBy(D, b)'
  <2>1. act[b] = "await" =>
          (IF Active(QueueAwaited(b)) # {} THEN Active(QueueAwaited(b)) \subseteq D
                                           ELSE Servers \subseteq D)'
    <3> DEFINE S == Active(QueueAwaited(b))
               T == Servers
    <3>1. SUFFICES ASSUME act[b] = "await" PROVE IF S' # {} THEN S' \subseteq D ELSE T' \subseteq D
      OBVIOUS
    <3>2. S' = S /\ T' \subseteq T
      BY <3>1 DEF Outside
    <3>3. IF S # {} THEN S \subseteq D ELSE T \subseteq D
      BY <1>4, <3>1 DEF HeldBy
    <3> HIDE DEF S, T
    <3>4. QED
      BY <3>2, <3>3
  <2>2. QED
    BY <1>2, <1>4, <1>5, <1>6, <2>1 DEF HeldBy
<1>10. QED
  BY <1>8, <1>9, RingMemberNext

(* Who can take a step is in no ring.                                      *)
LEMMA FreeOfRings ==
  ASSUME NEW D, Ring(D), Inv, NEW x \in Actors,
         \/ act[x] \in {"idle", "inline", "post", "body", "over"}
         \/ Free /\ act[x] \in {"size", "member", "shrink", "above", "below", "grow"}
         \/ act[x] = "erase" /\ life[victim[x]] = "none"
         \/ act[x] = "await" /\ Inner[task[x]] \in done
  PROVE  x \notin D
<1>1. SUFFICES ASSUME x \in D PROVE FALSE
  OBVIOUS
<1>2. Waits(x) /\ WaitsFor(x) \subseteq D
  BY <1>1 DEF Ring
<1>3. act[x] = "erase" /\ life[victim[x]] = "none"
  BY <1>2 DEF Waits, NeedsLock
<1>4. victim[x] \in D
  BY <1>2, <1>3, RingMember DEF HeldBy
<1>5. victim[x] \in Workers
  BY <1>3, ActorsAssumption DEF Inv, Locked, Actors
<1>6. act[victim[x]] = "idle"
  BY <1>3, <1>5 DEF Inv, Busy
<1>7. QED
  BY <1>4, <1>6 DEF Ring, Waits, NeedsLock

(* A step that begins and ends no task.                                    *)
LEMMA OutsidePlain ==
  ASSUME NEW D, Ring(D), Inv, Roles, NEW x \in Actors \ D, NEW from, NEW to, Goes(x, from, to),
         \A b \in Actors \ {x} : victim'[b] = victim[b],
         UNCHANGED <<task, done>>,
         lock \in D => lock' = lock,
         Servers' \subseteq Servers
  PROVE  Outside(D, x)
<1>1. \A b \in Actors \ {x} : act'[b] = act[b]
  BY DEF Goes, Inv, TypeOK
<1>2. \A q : Active(q)' = Active(q)
  BY DEF Active
<1>3. ASSUME NEW b \in D, act[b] = "await"
      PROVE  Inner[task[b]] \notin done' /\ Active(QueueAwaited(b))' = Active(QueueAwaited(b))
  <2>1. Inner[task[b]] \notin done
    BY <1>3 DEF Ring, Waits, NeedsLock
  <2>2. QueueAwaited(b)' = QueueAwaited(b)
    BY DEF QueueAwaited
  <2>3. QED
    BY <1>2, <2>1, <2>2 DEF Active
<1>4. QED
  BY <1>1, <1>3 DEF Outside

LEMMA OutsideTake ==
  ASSUME NEW D, Ring(D), Inv, QInv, Roles, NEW w \in Workers, NEW q \in Queues, Take(w, q)
  PROVE  Outside(D, w)
<1> DEFINE k == Head(backlog[q])
           to == IF Inner[k] # NoTask THEN "size" ELSE IF k \in Shrinking THEN "shrink" ELSE "body"
<1>1. /\ life[w] \in {"alive", "stopping"}
      /\ life' = [life EXCEPT ![w] = IF @ = "stopping" THEN "last" ELSE @]
      /\ act[w] = "idle"
      /\ act' = [act EXCEPT ![w] = to]
      /\ task' = [task EXCEPT ![w] = k]
      /\ Active(q) = {}
      /\ UNCHANGED <<lock, members, prio, victim, done, grown>>
  BY DEF Take, Goes
<1>2. k \in Tasks /\ QueueOf[k] = q
  BY TakeQueued
<1> HIDE DEF k, to
<1>3. w \in Actors \ D
  BY <1>1, FreeOfRings DEF Actors
<1>4. Servers' \subseteq Servers
  BY <1>1 DEF Servers, Inv, TypeOK
<1>5. /\ \A b \in Actors \ {w} : act'[b] = act[b]
      /\ \A v \in Workers \ {w} : task'[v] = task[v]
      /\ task'[w] = k
      /\ task[w] = NoTask
  BY <1>1 DEF Inv, TypeOK, Busy
<1>6. ASSUME NEW b \in D, act[b] = "await"
      PROVE  Inner[task[b]] \notin done' /\ Active(QueueAwaited(b))' = Active(QueueAwaited(b))
  <2>1. /\ Inner[task[b]] \notin done
        /\ WaitsFor(b) \subseteq D
        /\ Waits(b)
        /\ b \in Workers
        /\ b # w
    BY <1>3, <1>6 DEF Ring, Waits, NeedsLock, Actors, Roles, Syncing
  <2>2. task'[b] = task[b]
    BY <1>5, <2>1
  <2>3. QueueAwaited(b) # q
    <3>1. SUFFICES ASSUME QueueAwaited(b) = q PROVE FALSE
      OBVIOUS
    <3>2. Servers \subseteq D
      BY <1>1, <1>6, <2>1, <3>1, RingMember DEF HeldBy
    <3>3. QED
      BY <1>1, <1>3, <3>2 DEF Servers
  <2>4. QueueAwaited(b)' = QueueAwaited(b)
    BY <2>2 DEF QueueAwaited
  <2>5. \A v \in Workers : (task'[v] # NoTask /\ QueueOf[task'[v]] = QueueAwaited(b)) <=>
                            (task[v] # NoTask /\ QueueOf[task[v]] = QueueAwaited(b))
    BY <1>2, <1>5, <2>3, TasksAssumption
  <2>6. QED
    BY <1>1, <2>1, <2>4, <2>5 DEF Active
<1>7. QED
  BY <1>1, <1>3, <1>4, <1>5, <1>6 DEF Outside

(* Nobody else runs the task that a member of a ring waits for.            *)
LEMMA OutsideEnd ==
  ASSUME NEW D, Ring(D), Inv, QInv, Roles, NEW w \in Workers, End(w)
  PROVE  Outside(D, w)
<1>1. /\ act[w] = "body"
      /\ act' = [act EXCEPT ![w] = "idle"]
      /\ done' = done \cup {task[w]}
      /\ task' = [task EXCEPT ![w] = NoTask]
      /\ UNCHANGED <<lock, members, prio, life, victim, backlog, grown>>
  BY DEF End, Goes
<1>2. w \in Actors \ D
  BY <1>1, FreeOfRings DEF Actors
<1>3. Servers' \subseteq Servers
  BY <1>1 DEF Servers
<1>4. /\ \A b \in Actors \ {w} : act'[b] = act[b]
      /\ \A v \in Workers \ {w} : task'[v] = task[v]
      /\ task'[w] = NoTask
      /\ task[w] # NoTask
  BY <1>1 DEF Inv, TypeOK, Busy
<1>5. ASSUME NEW b \in D, act[b] = "await"
      PROVE  Inner[task[b]] \notin done' /\ Active(QueueAwaited(b))' = Active(QueueAwaited(b))
  <2>1. /\ Inner[task[b]] \notin done
        /\ WaitsFor(b) \subseteq D
        /\ Waits(b)
        /\ b \in Workers
        /\ b # w
    BY <1>2, <1>5 DEF Ring, Waits, NeedsLock, Actors, Roles, Syncing
  <2>2. HeldBy(D, b)
    BY <2>1, RingMember
  <2>3. w \notin Active(QueueAwaited(b))
    BY <1>2, <1>5, <2>2 DEF HeldBy
  <2>4. QueueOf[task[w]] # QueueAwaited(b)
    BY <1>4, <2>3 DEF Active
  <2>5. task[w] # Inner[task[b]]
    BY <2>4 DEF QueueAwaited
  <2>6. QueueAwaited(b)' = QueueAwaited(b)
    BY <1>4, <2>1 DEF QueueAwaited
  <2>7. \A v \in Workers : (task'[v] # NoTask /\ QueueOf[task'[v]] = QueueAwaited(b)) <=>
                            (task[v] # NoTask /\ QueueOf[task[v]] = QueueAwaited(b))
    BY <1>4, <2>4
  <2>8. Inner[task[b]]' = Inner[task[b]]
    BY <1>4, <2>1
  <2>9. QED
    BY <1>1, <2>1, <2>5, <2>6, <2>7, <2>8 DEF Active
<1>6. QED
  BY <1>1, <1>2, <1>3, <1>4, <1>5 DEF Outside

LEMMA OutsideInline ==
  ASSUME NEW D, Ring(D), Inv, QInv, Roles, NEW w \in Workers, SyncInline(w)
  PROVE  Outside(D, w)
<1>1. /\ act[w] = "inline"
      /\ act' = [act EXCEPT ![w] = "body"]
      /\ done' = done \cup {Inner[task[w]]}
      /\ UNCHANGED <<lock, members, prio, life, task, victim, backlog, grown>>
  BY DEF SyncInline, Goes
<1>2. w \in Actors \ D
  BY <1>1, FreeOfRings DEF Actors
<1>3. \A b \in Actors \ {w} : act'[b] = act[b]
  BY <1>1 DEF Inv, TypeOK
<1>4. ASSUME NEW b \in D, act[b] = "await"
      PROVE  Inner[task[b]] \notin done'
  <2>1. Inner[task[b]] \notin done /\ b \in Workers /\ b # w
    BY <1>2, <1>4 DEF Ring, Waits, NeedsLock, Actors, Roles, Syncing
  <2>2. /\ task[b] \in Tasks
        /\ task[w] \in Tasks
        /\ Inner[task[b]] \in Tasks
        /\ Inner[task[w]] \in Tasks
    BY <1>1, <1>4, <2>1 DEF Inv, TypeOK, Busy, Syncing
  <2>3. task[b] # task[w]
    BY <2>1, <2>2, TasksAssumption DEF QInv, OneEach
  <2>4. Inner[task[b]] # Inner[task[w]]
    BY <2>2, <2>3, TasksAssumption
  <2>5. QED
    BY <1>1, <2>1, <2>4
<1>5. \A b : QueueAwaited(b)' = QueueAwaited(b)
  BY <1>1 DEF QueueAwaited
<1>6. \A q : Active(q)' = Active(q)
  BY <1>1 DEF Active
<1>7. ASSUME NEW b \in D PROVE Active(QueueAwaited(b))' = Active(QueueAwaited(b))
  BY <1>5, <1>6 DEF Active
<1>8. QED
  BY <1>1, <1>2, <1>3, <1>4, <1>7 DEF Outside, Servers

LEMMA OutsideShrink ==
  ASSUME NEW D, Ring(D), Inv, Roles, NEW a \in Actors, NEW p, NEW to,
         DecreaseNone(a, p, to) \/ Decrease(a, p) \/ Erased(a, to)
  PROVE  Outside(D, a)
<1>1. UNCHANGED <<task, done>>
  BY DEF DecreaseNone, Decrease, Erased
<1>2. CASE DecreaseNone(a, p, to)
  <2>1. a \notin D
    BY <1>2, FreeOfRings DEF DecreaseNone, Goes
  <2>2. QED
    BY <1>1, <1>2, <2>1, OutsidePlain DEF DecreaseNone, Servers
<1>3. CASE Decrease(a, p)
  <2>1. a \notin D /\ lock \notin D
    BY <1>3, FreeOfRings, ActorsAssumption DEF Decrease, Goes, Free, Ring
  <2>2. /\ \A b \in Actors \ {a} : victim'[b] = victim[b]
        /\ Servers' \subseteq Servers
    <3>1. PICK n \in DOMAIN members :
            /\ life' = [life EXCEPT ![members[n]] = "stopping"]
            /\ victim' = [victim EXCEPT ![a] = members[n]]
      BY <1>3, Zenon DEF Decrease
    <3>2. members[n] \in Workers /\ life[members[n]] = "alive"
      BY <3>1, ElementOfSeq, LenProperties DEF Inv, TypeOK, Lives, ToSet
    <3>3. QED
      BY <3>1, <3>2 DEF Servers, Inv, TypeOK
  <2>3. QED
    BY <1>1, <1>3, <2>1, <2>2, OutsidePlain DEF Decrease
<1>4. CASE Erased(a, to)
  <2>1. a \notin D /\ lock = a
    BY <1>4, FreeOfRings DEF Erased, Goes, Inv, Locked
  <2>2. /\ \A b \in Actors \ {a} : victim'[b] = victim[b]
        /\ Servers' = Servers
    BY <1>4 DEF Erased, Servers, Inv, TypeOK
  <2>3. QED
    BY <1>1, <1>4, <2>1, <2>2, OutsidePlain DEF Erased
<1>5. QED
  BY <1>2, <1>3, <1>4

(* No worker is added.                                                     *)
NoneAdded == \A w \in Workers : life[w] = "none" => life'[w] = "none"

LEMMA OutsideNext ==
  ASSUME NEW D, Ring(D), Inv, QInv, Roles, Next, NoneAdded
  PROVE  (\E x \in Actors : Outside(D, x)) \/ UNCHANGED <<lock, life, act, task, victim, done>>
<1> USE DEF Actors
<1>1. ASSUME NEW w \in Workers, NEW p, Increase(w, p) PROVE FALSE
  BY <1>1 DEF Increase, NoneAdded, Inv, TypeOK
<1>2. ASSUME NEW g \in Growers, Grow(g) PROVE FALSE
  BY <1>1, <1>2 DEF Grow
<1>3. ASSUME NEW m \in Managers, Call(m) PROVE Outside(D, m)
  <2>1. m \notin D
    BY <1>3, FreeOfRings DEF Call, Goes
  <2>2. QED
    BY <1>3, <2>1, OutsidePlain DEF Call, Servers
<1>4. ASSUME NEW m \in Adjusters, Above(m) \/ Below(m) \/ GrowMore(m) PROVE Outside(D, m)
  <2>1. ~GrowMore(m)
    BY <1>1 DEF GrowMore
  <2>2. m \in Actors \ D
    BY <1>4, <2>1, FreeOfRings, ActorsAssumption DEF Above, Below, Goes
  <2>3. QED
    BY <1>4, <2>1, <2>2, OutsidePlain DEF Above, Below, Servers
<1>5. ASSUME NEW m \in Managers, Shrink(m) PROVE Outside(D, m)
  BY <1>5, OutsideShrink DEF Shrink
<1>6. ASSUME NEW w \in Workers, NEW q \in Queues, Take(w, q) PROVE Outside(D, w)
  BY <1>6, OutsideTake
<1>7. ASSUME NEW w \in Workers, SyncSize(w) \/ SyncMember(w) \/ SyncPost(w) \/ SyncReturn(w)
      PROVE  Outside(D, w)
  <2>1. w \notin D
    BY <1>7, FreeOfRings DEF SyncSize, SyncMember, SyncPost, SyncReturn, Goes
  <2>2. QED
    BY <1>7, <2>1, OutsidePlain DEF SyncSize, SyncMember, SyncPost, SyncReturn, Servers
<1>8. ASSUME NEW w \in Workers, SyncInline(w) PROVE Outside(D, w)
  BY <1>8, OutsideInline
<1>9. ASSUME NEW w \in Workers, TaskShrink(w) PROVE Outside(D, w)
  BY <1>9, OutsideShrink DEF TaskShrink
<1>10. ASSUME NEW w \in Workers, End(w) PROVE Outside(D, w)
  BY <1>10, OutsideEnd
<1>11. ASSUME NEW w \in Workers, Leave(w) PROVE Outside(D, w)
  <2>1. /\ act[w] = "idle"
        /\ life' = [life EXCEPT ![w] = "none"]
        /\ UNCHANGED <<lock, act, task, victim, done>>
    BY <1>11 DEF Leave
  <2>2. w \notin D
    BY <2>1, FreeOfRings
  <2>3. Servers' \subseteq Servers
    BY <2>1 DEF Servers, Inv, TypeOK
  <2>4. Goes(w, "idle", "idle")
    BY <2>1 DEF Goes, Inv, TypeOK
  <2>5. QED
    BY <2>1, <2>2, <2>3, <2>4, OutsidePlain
<1>12. CASE \E k \in Outer : Post(k)
  BY <1>12 DEF Post
<1>13. QED
  BY <1>2, <1>3, <1>4, <1>5, <1>6, <1>7, <1>8, <1>9, <1>10, <1>11, <1>12, ActorsAssumption
     DEF Next, ManagerStep, WorkerStep

LEMMA RingNext ==
  ASSUME NEW CONSTANT D, Ring(D), Inv, QInv, Roles, [Next]_vars, NoneAdded
  PROVE  Ring(D)'
<1>1. CASE \E x \in Actors : Outside(D, x)
  BY <1>1, OutsideRing
<1>2. CASE UNCHANGED <<lock, life, act, task, victim, done>>
  BY <1>2 DEF Ring, Waits, WaitsFor, NeedsLock, Active, Free
<1>3. QED
  BY <1>1, <1>2, OutsideNext DEF vars

-------------------------------------------------------------------------------
(* The theorems.                                                           *)

(* The state of the group, its workers and their tasks is well typed.      *)
THEOREM TypeCorrect == Spec => []TypeOK
<1>1. Inv => TypeOK
  BY DEF Inv
<1>2. QED
  BY <1>1, Invariance, PTL

(* Whenever worker_lock_ is free, workers_ lists exactly the live workers. *)
THEOREM ServeCorrect == Spec => []MembersServe
<1>1. Inv => MembersServe
  BY DEF Inv, TypeOK, Lives, MembersServe, Free
<1>2. QED
  BY <1>1, Invariance, PTL

(* decrease_worker destroys no worker that runs a task.                    *)
THEOREM QuietCorrect == Spec => []GoneIsQuiet
<1>1. Inv => GoneIsQuiet
  BY DEF Inv, Busy, GoneIsQuiet
<1>2. QED
  BY <1>1, Invariance, PTL

(* The inline branch of sync_task is taken by the only worker there is, or *)
(* by one whose group has grown since it asked for the size.               *)
THEOREM AloneCorrect == Spec => []AloneUnlessGrown
<1>1. Inv => AloneUnlessGrown
  BY DEF Inv, Alone, Busy, AloneUnlessGrown
<1>2. QED
  BY <1>1, Invariance, PTL

(* Who is in a ring stays in it for ever, unless a worker is added: what   *)
(* the liveness properties of the group excuse with Deadlocked is for good.*)
THEOREM DeadlockStays ==
  Spec => [][NoneAdded => \A a \in Actors : Deadlocked(a) => Deadlocked(a)']_vars
<1>1. ASSUME Inv, QInv, Roles, [Next]_vars, NoneAdded, NEW a \in Actors, Deadlocked(a)
      PROVE  Deadlocked(a)'
  <2>1. PICK D \in SUBSET Actors : a \in D /\ Ring(D)
    BY <1>1, RingOf
  <2>2. Ring(D)'
    BY <1>1, <2>1, RingNext
  <2>3. QED
    BY <2>1, <2>2 DEF Ring, Deadlocked
<1>2. Inv /\ QInv /\ Roles /\ [Next]_vars =>
        [NoneAdded => \A a \in Actors : Deadlocked(a) => Deadlocked(a)']_vars
  BY <1>1
<1>3. QED
  BY <1>2, FullInvariance, PTL DEF Spec

-------------------------------------------------------------------------------
(* Programs that are free of such rings.                                   *)

NoRing == \A a \in Actors : ~Deadlocked(a)

LEMMA PlainTasks ==
  ASSUME \A k \in Tasks : Inner[k] = NoTask, Shrinking = {}, Inv, Roles
  PROVE  NoRing
<1> SUFFICES ASSUME NEW D, Ring(D), NEW a \in D PROVE FALSE
  BY RingOf DEF NoRing
<1>2. ASSUME NEW w \in Workers PROVE w \notin D
  <2>1. act[w] \notin Syncing
    BY TasksAssumption DEF Inv, TypeOK, Busy, Syncing
  <2>2. act[w] \in {"idle", "body"}
    BY <2>1 DEF Roles, Syncing, Inv, TypeOK, Actors
  <2>3. QED
    BY <2>2, FreeOfRings DEF Actors
<1>3. ASSUME NEW b \in D PROVE act[b] # "erase"
  <2>1. SUFFICES ASSUME act[b] = "erase" PROVE FALSE
    OBVIOUS
  <2>2. victim[b] \in D
    BY <2>1, RingMember DEF Ring, HeldBy
  <2>3. victim[b] \in Workers
    BY <2>1, ActorsAssumption DEF Inv, Locked, Ring, Actors
  <2>4. QED
    BY <1>2, <2>2, <2>3
<1>4. a \in Managers
  BY <1>2 DEF Ring, Actors
<1>5. NeedsLock(a)
  BY <1>3, <1>4 DEF Ring, Waits, Roles, Syncing
<1>6. lock \in D
  BY <1>5, RingMember DEF Ring, HeldBy
<1>7. QED
  BY <1>3, <1>6 DEF Inv, Locked, Ring

(* Where no task calls sync_task or decrease_worker, managers may grow,    *)
(* shrink and adjust the group as they like: nobody ever waits in a ring.  *)
THEOREM PlainTasksNeverDeadlock ==
  ASSUME \A k \in Tasks : Inner[k] = NoTask, Shrinking = {}
  PROVE  Spec => []NoRing
<1>1. Inv /\ Roles => NoRing
  BY PlainTasks
<1>2. QED
  BY <1>1, FullInvariance, PTL

(* The queues of the tasks that call sync_task.                            *)
Nesting == {QueueOf[k] : k \in {i \in Tasks : Inner[i] # NoTask}}

Enough == Len(members) > Cardinality(Nesting)

LEMMA NeverHeld ==
  ASSUME Managers = Growers, Shrinking = {}, Inv, Roles
  PROVE  \A a \in Actors : act[a] # "erase" /\ Free
BY ActorsAssumption DEF Inv, TypeOK, Locked, Roles, Actors, Free

LEMMA Layered ==
  ASSUME Managers = Growers, Shrinking = {},
         \A k \in Tasks : Inner[k] # NoTask => QueueOf[Inner[k]] \notin Nesting,
         IsFiniteSet(Nesting), Inv, QInv, Roles, Enough
  PROVE  NoRing
<1> SUFFICES ASSUME NEW D, Ring(D), NEW a \in D PROVE FALSE
  BY RingOf DEF NoRing
<1>2. ASSUME NEW b \in D
      PROVE  /\ b \in Workers
             /\ act[b] = "await"
             /\ task[b] \in Tasks
             /\ Inner[task[b]] \in Tasks
             /\ QueueOf[task[b]] \in Nesting
  <2>1. b \in Actors /\ act[b] = "await"
    BY NeverHeld DEF Ring, Waits, NeedsLock
  <2>2. b \in Workers
    BY <2>1 DEF Roles, Actors, Syncing
  <2>3. QED
    BY <2>1, <2>2, TasksAssumption DEF Inv, TypeOK, Busy, Syncing, Nesting
<1>3. HeldBy(D, a)
  BY RingMember DEF Ring
<1>4. Active(QueueAwaited(a)) = {}
  <2>1. SUFFICES ASSUME NEW w \in Active(QueueAwaited(a)) PROVE FALSE
    OBVIOUS
  <2>2. w \in D /\ QueueOf[task[w]] = QueueOf[Inner[task[a]]]
    BY <1>2, <1>3, <2>1 DEF HeldBy, Active, QueueAwaited
  <2>3. QED
    BY <1>2, <2>2, TasksAssumption
<1>5. Servers \subseteq D
  BY <1>2, <1>3, <1>4 DEF HeldBy
<1> DEFINE n == Len(members)
           I == 1..n
           f == [i \in I |-> QueueOf[task[members[i]]]]
<1>6. /\ n \in Nat
      /\ DOMAIN members = I
      /\ \A i \in I : members[i] \in Workers /\ members[i] \in ToSet(members)
  BY LenProperties, ElementOfSeq DEF Inv, TypeOK, ToSet
<1>7. \A i \in I : members[i] \in D
  BY <1>5, <1>6 DEF Inv, Lives, Servers
<1>8. f \in [I -> Nesting]
  BY <1>2, <1>7
<1>9. IsFiniteSet(I) /\ Cardinality(I) = n
  BY <1>6, FS_Interval
<1>10. Cardinality(Nesting) < Cardinality(I)
  BY <1>6, <1>9, FS_CardinalityType DEF Enough
<1>11. PICK i, j \in I : i # j /\ f[i] = f[j]
  <2> HIDE DEF I, f
  <2>1. QED
    BY <1>8, <1>9, <1>10, FS_PigeonHole
<1>12. members[i] = members[j]
  <2>1. QueueOf[task[members[i]]] = QueueOf[task[members[j]]]
    BY <1>11
  <2>2. task[members[i]] # NoTask /\ task[members[j]] # NoTask
    BY <1>2, <1>7, TasksAssumption
  <2>3. QED
    BY <1>6, <2>1, <2>2 DEF QInv, OneEach
<1>13. QED
  BY <1>6, <1>11, <1>12 DEF Inv, Lives, IsInjective

LEMMA EnoughNext ==
  ASSUME Managers = Growers, Shrinking = {}, Inv, Roles, Enough, [Next]_vars,
         Cardinality(Nesting) \in Nat
  PROVE  Enough'
<1> USE DEF Enough
<1>1. ASSUME NEW w \in Workers, NEW p, Increase(w, p) PROVE Enough'
  <2>1. members' = Append(members, w) /\ members \in Seq(Workers)
    BY <1>1 DEF Increase, Inv, TypeOK
  <2>2. Len(members') = Len(members) + 1 /\ Len(members) \in Nat
    BY <2>1, AppendProperties, LenProperties
  <2>3. QED
    BY <2>2 DEF Nesting
<1>2. CASE members' = members
  BY <1>2 DEF Nesting
<1>3. ASSUME NEW a \in Actors, NEW p, NEW to, DecreaseNone(a, p, to) \/ Decrease(a, p) \/ Erased(a, to)
      PROVE  members' = members
  <2>1. ~Decrease(a, p)
    BY DEF Decrease, Goes, Roles, Actors
  <2>2. QED
    BY <1>3, <2>1 DEF DecreaseNone, Erased
<1>4. ASSUME NEW m \in Managers, Grow(m) \/ Call(m) \/ ManagerStep(m) PROVE Enough'
  BY <1>1, <1>2, <1>3, <1>4 DEF Grow, Call, ManagerStep, Above, Below, GrowMore, Shrink, Actors
<1>5. ASSUME NEW w \in Workers, WorkerStep(w) PROVE members' = members
  BY <1>3, <1>5 DEF WorkerStep, Take, SyncSize, SyncMember, SyncInline, SyncPost, SyncReturn,
                    TaskShrink, End, Leave, Actors
<1>6. QED
  BY <1>2, <1>4, <1>5, ActorsAssumption DEF Next, Post, vars

(* In a group that nobody shrinks sync_task never ends in a ring, if it    *)
(* runs tasks of queues whose tasks do not call it themselves and there    *)
(* are more workers than queues whose tasks do.                            *)
THEOREM LayeredSyncNeverDeadlocks ==
  ASSUME Managers = Growers, Shrinking = {},
         \A k \in Tasks : Inner[k] # NoTask => QueueOf[Inner[k]] \notin Nesting,
         IsFiniteSet(Nesting),
         \A s \in Initial : Len(s) > Cardinality(Nesting)
  PROVE  Spec => []NoRing
<1>1. Cardinality(Nesting) \in Nat
  BY FS_CardinalityType
<1>2. Init => Enough
  BY DEF Init, Enough
<1>3. Inv /\ QInv /\ Roles /\ Enough /\ [Next]_vars => Enough'
  BY <1>1, EnoughNext
<1>4. Inv /\ QInv /\ Roles /\ Enough => NoRing
  BY Layered
<1>5. QED
  BY <1>2, <1>3, <1>4, FullInvariance, PTL DEF Spec

-------------------------------------------------------------------------------
(* adjust_default_worker_count.                                            *)

Target(m) ==
  /\ act[m] = "below" => Len(members) <= Want[m]
  /\ act[m] = "grow" => Len(members) < Want[m]
  /\ act[m] = "over" => Len(members) = Want[m]

LEMMA TargetNext ==
  ASSUME NEW m \in Adjusters, Managers = {m}, Shrinking = {}, Inv, Roles, Target(m), [Next]_vars
  PROVE  Target(m)'
<1>1. /\ m \in Actors
      /\ members \in Seq(Workers)
      /\ Len(members) \in Nat
      /\ Want[m] \in Nat
      /\ Growers = {}
      /\ m \notin Workers
  <2>1. m \notin Growers /\ Growers \subseteq {m} /\ m \notin Workers /\ Want[m] \in Nat
    BY ActorsAssumption
  <2>2. QED
    BY <2>1, LenProperties DEF Actors, Inv, TypeOK
<1>2. CASE Call(m)
  BY <1>1, <1>2 DEF Call, Goes, Inv, TypeOK, Target
<1>3. CASE Above(m)
  BY <1>1, <1>3 DEF Above, Goes, Inv, TypeOK, Target
<1>4. CASE Below(m)
  BY <1>1, <1>4 DEF Below, Goes, Inv, TypeOK, Target
<1>5. CASE GrowMore(m)
  <2>1. PICK w \in Workers : Increase(w, Base)
    BY <1>5, Zenon DEF GrowMore
  <2>2. members' = Append(members, w) /\ act[m] = "grow" /\ act' = [act EXCEPT ![m] = "below"]
    BY <1>5, <2>1 DEF GrowMore, Goes, Increase
  <2>3. Len(members') = Len(members) + 1
    BY <1>1, <2>2, AppendProperties
  <2>4. act'[m] = "below"
    BY <1>1, <2>2 DEF Inv, TypeOK
  <2>5. QED
    BY <1>1, <2>2, <2>3, <2>4 DEF Target
<1>6. CASE Shrink(m)
  <2>1. \A p : DecreaseNone(m, p, "above") => act'[m] = "above"
    BY <1>1 DEF DecreaseNone, Goes, Inv, TypeOK
  <2>2. \A p : Decrease(m, p) => act'[m] = "erase"
    BY <1>1 DEF Decrease, Goes, Inv, TypeOK
  <2>3. Erased(m, "above") => act'[m] = "above"
    BY <1>1 DEF Erased, Goes, Inv, TypeOK
  <2>4. act'[m] \in {"above", "erase"}
    BY <1>6, <2>1, <2>2, <2>3 DEF Shrink
  <2>5. QED
    BY <2>4 DEF Target
<1>7. ASSUME NEW w \in Workers, NEW p, NEW to, DecreaseNone(w, p, to) \/ Decrease(w, p) \/ Erased(w, to)
      PROVE  FALSE
  BY <1>7 DEF DecreaseNone, Decrease, Erased, Goes, Roles
<1>8. ASSUME NEW w \in Workers, WorkerStep(w) PROVE members' = members /\ act'[m] = act[m]
  <2>1. ~TaskShrink(w)
    BY <1>7 DEF TaskShrink
  <2>2. \A from, to : Goes(w, from, to) => act'[m] = act[m]
    BY <1>1 DEF Goes, Inv, TypeOK
  <2>3. CASE \E q \in Queues : Take(w, q)
    BY <2>2, <2>3 DEF Take
  <2>4. CASE SyncSize(w) \/ SyncMember(w) \/ SyncInline(w) \/ SyncPost(w) \/ SyncReturn(w) \/ End(w)
    BY <2>2, <2>4 DEF SyncSize, SyncMember, SyncInline, SyncPost, SyncReturn, End
  <2>5. CASE Leave(w)
    BY <2>5 DEF Leave
  <2>6. QED
    BY <1>8, <2>1, <2>3, <2>4, <2>5 DEF WorkerStep
<1>9. CASE members' = members /\ act'[m] = act[m]
  BY <1>9 DEF Target
<1>10. CASE (\E k \in Outer : Post(k)) \/ UNCHANGED vars
  BY <1>9, <1>10 DEF Post, vars
<1>11. QED
  BY <1>1, <1>2, <1>3, <1>4, <1>5, <1>6, <1>8, <1>9, <1>10 DEF Next, ManagerStep

(* When adjust_default_worker_count returns, the group has the number of   *)
(* workers it was asked for, if nobody else grows or shrinks it meanwhile. *)
THEOREM AdjustCorrect ==
  ASSUME NEW m \in Adjusters, Managers = {m}, Shrinking = {}
  PROVE  Spec => [](act[m] = "over" => Len(members) = Want[m])
<1>1. Init => Target(m)
  BY ActorsAssumption DEF Init, Target, Actors
<1>2. Inv /\ Roles /\ Target(m) /\ [Next]_vars => Target(m)'
  BY TargetNext
<1>3. Target(m) => (act[m] = "over" => Len(members) = Want[m])
  BY DEF Target
<1>4. QED
  BY <1>1, <1>2, <1>3, FullInvariance, PTL DEF Spec

-------------------------------------------------------------------------------
(* The group uses workers as they are.                                     *)

Stage(w) == IF life[w] = "none" THEN "rest" ELSE "serving"

HasTask(w) == task[w] # NoTask

LEMMA ServiceNext ==
  ASSUME Inv, QInv, [Next]_vars, NEW w \in Workers
  PROVE  [Service(w)!Next]_(Service(w)!vars)
<1> DEFINE Same == Stage(w)' = Stage(w) /\ HasTask(w)' = HasTask(w)
<1> SUFFICES Service(w)!Next \/ Same
  BY DEF Service!vars, Stage, HasTask
<1>1. UNCHANGED <<life, task>> => Same
  BY DEF Stage, HasTask
<1>2. ASSUME NEW v \in Workers, NEW p, Increase(v, p) PROVE Service(w)!Start \/ Same
  BY <1>2 DEF Increase, Inv, TypeOK, Service!Start, Stage, HasTask
<1>3. ASSUME NEW a \in Actors, NEW p, Decrease(a, p) PROVE Same
  <2>1. PICK n \in DOMAIN members : life' = [life EXCEPT ![members[n]] = "stopping"]
    BY <1>3 DEF Decrease
  <2>2. members[n] \in Workers /\ members[n] \in ToSet(members)
    BY ElementOfSeq, LenProperties DEF Inv, TypeOK, ToSet
  <2>3. life[members[n]] = "alive"
    BY <2>2 DEF Inv, Lives
  <2>4. task' = task
    BY <1>3 DEF Decrease
  <2>5. QED
    BY <2>1, <2>2, <2>3, <2>4 DEF Inv, TypeOK, Stage, HasTask
<1>4. ASSUME NEW a \in Actors, NEW p, NEW to, DecreaseNone(a, p, to) \/ Erased(a, to)
      PROVE  UNCHANGED <<life, task>>
  BY <1>4 DEF DecreaseNone, Erased
<1>5. ASSUME NEW m \in Managers, Grow(m) \/ Call(m) \/ ManagerStep(m)
      PROVE  Service(w)!Start \/ Same
  <2>1. m \in Actors
    BY DEF Actors
  <2>2. CASE Call(m) \/ (m \in Adjusters /\ (Above(m) \/ Below(m)))
    BY <1>1, <2>2 DEF Call, Above, Below
  <2>3. CASE Grow(m) \/ GrowMore(m)
    BY <1>2, <2>3 DEF Grow, GrowMore
  <2>4. CASE Shrink(m)
    BY <1>1, <1>3, <1>4, <2>1, <2>4 DEF Shrink
  <2>5. QED
    BY <1>5, <2>2, <2>3, <2>4 DEF ManagerStep
<1>6. ASSUME NEW v \in Workers, NEW q \in Queues, Take(v, q) PROVE Service(w)!Begin \/ Same
  <2> DEFINE k == Head(backlog[q])
  <2>1. k \in Tasks
    BY <1>6, TakeQueued
  <2>2. /\ task' = [task EXCEPT ![v] = k]
        /\ life' = [life EXCEPT ![v] = IF @ = "stopping" THEN "last" ELSE @]
        /\ life[v] \in {"alive", "stopping"}
        /\ act[v] = "idle"
    BY <1>6 DEF Take, Goes
  <2> HIDE DEF k
  <2>3. task[v] = NoTask
    BY <2>2 DEF Inv, Busy
  <2>4. QED
    BY <2>1, <2>2, <2>3, TasksAssumption DEF Inv, TypeOK, Service!Begin, Stage, HasTask
<1>7. ASSUME NEW v \in Workers, End(v) PROVE Service(w)!End \/ Same
  <2>1. task[v] # NoTask
    BY <1>7 DEF End, Goes, Inv, Busy
  <2>2. QED
    BY <1>7, <2>1 DEF End, Inv, TypeOK, Service!End, Stage, HasTask
<1>8. ASSUME NEW v \in Workers, Leave(v) PROVE Service(w)!Rest \/ Same
  <2>1. task[v] = NoTask
    BY <1>8 DEF Leave, Inv, Busy
  <2>2. QED
    BY <1>8, <2>1 DEF Leave, Inv, TypeOK, Service!Rest, Stage, HasTask
<1>9. ASSUME NEW v \in Workers, TaskShrink(v) PROVE Same
  BY <1>1, <1>3, <1>4, <1>9 DEF TaskShrink, Actors
<1>10. ASSUME NEW v \in Workers,
              SyncSize(v) \/ SyncMember(v) \/ SyncInline(v) \/ SyncPost(v) \/ SyncReturn(v)
       PROVE  Same
  BY <1>1, <1>10 DEF SyncSize, SyncMember, SyncInline, SyncPost, SyncReturn
<1>11. ASSUME NEW k \in Outer, Post(k) PROVE Same
  BY <1>1, <1>11 DEF Post
<1>12. CASE UNCHANGED vars
  BY <1>1, <1>12 DEF vars
<1> HIDE DEF Same
<1>13. QED
  BY <1>5, <1>6, <1>7, <1>8, <1>9, <1>10, <1>11, <1>12, ActorsAssumption
     DEF Next, WorkerStep, Service!Next

(* What WorkerGroup takes for granted of its workers is what Worker        *)
(* implements: each is started at rest, runs one task at a time while it   *)
(* serves, and is gone only when it has none.                              *)
THEOREM WorkersImplemented == Spec => WorkersServe
<1>1. Init => \A w \in Workers : Service(w)!Init
  BY DEF Init, Service!Init
<1>2. Inv /\ QInv /\ [Next]_vars => [\A w \in Workers : [Service(w)!Next]_(Service(w)!vars)]_vars
  BY ServiceNext
<1>3. QED
  BY <1>1, <1>2, FullInvariance, PTL DEF Spec, WorkersServe

-------------------------------------------------------------------------------
(* The queues of the group are serial queues.                              *)

LEMMA TailDistinct ==
  ASSUME NEW S, NEW s \in Seq(S), s # <<>>, IsInjective(s)
  PROVE  /\ Head(s) \in S
         /\ Head(s) \in ToSet(s)
         /\ IsInjective(Tail(s))
         /\ \A x : x \in ToSet(Tail(s)) <=> x \in ToSet(s) /\ x # Head(s)
<1> DEFINE t == Tail(s)
<1>1. /\ Len(s) \in Nat \ {0}
      /\ DOMAIN s = 1..Len(s)
      /\ DOMAIN t = 1..(Len(s) - 1)
      /\ \A i \in 1..(Len(s) - 1) : t[i] = s[i + 1]
      /\ Head(s) = s[1]
      /\ Head(s) \in S
  BY HeadTailProperties, EmptySeq, LenProperties
<1> HIDE DEF t
<1>2. \A i \in 1..(Len(s) - 1) : i + 1 \in 1..Len(s) /\ i + 1 # 1
  BY <1>1
<1>3. \A i \in 1..Len(s) : i # 1 => i - 1 \in 1..(Len(s) - 1) /\ (i - 1) + 1 = i
  BY <1>1
<1>4. IsInjective(t)
  <2>1. SUFFICES ASSUME NEW i \in DOMAIN t, NEW j \in DOMAIN t, t[i] = t[j] PROVE i = j
    BY DEF IsInjective
  <2>2. s[i + 1] = s[j + 1] /\ i + 1 \in DOMAIN s /\ j + 1 \in DOMAIN s
    BY <1>1, <1>2, <2>1
  <2>3. i + 1 = j + 1
    BY <2>2 DEF IsInjective
  <2>4. QED
    BY <1>1, <2>3
<1>5. ASSUME NEW x PROVE x \in ToSet(t) <=> x \in ToSet(s) /\ x # s[1]
  <2>1. x \in ToSet(t) => x \in ToSet(s) /\ x # s[1]
    BY <1>1, <1>2 DEF ToSet, IsInjective
  <2>2. ASSUME NEW i \in DOMAIN s, s[i] # s[1] PROVE s[i] \in ToSet(t)
    <3>1. i - 1 \in 1..(Len(s) - 1) /\ t[i - 1] = s[i]
      BY <1>1, <1>3, <2>2
    <3>2. QED
      BY <1>1, <3>1 DEF ToSet
  <2>3. QED
    BY <2>1, <2>2 DEF ToSet
<1>6. 1 \in DOMAIN s
  BY <1>1
<1>7. QED
  BY <1>1, <1>4, <1>5, <1>6 DEF t, ToSet

(* A task is in one place: it waits once, or runs, or is over.             *)
Once ==
  /\ \A q \in Queues : IsInjective(backlog[q])
  /\ \A k \in Tasks : k \in ToSet(backlog[QueueOf[k]]) =>
       k \notin done /\ \A w \in Workers : task[w] # k
  /\ \A w \in Workers : task[w] \notin done

Before == {"size", "member", "inline", "post"}

(* The task of a call of sync_task is new until the call posts or runs it. *)
Unposted(k) == k \notin done /\ \A w \in Workers : task[w] = k => act[w] \in Before

InnerFresh == \A k \in Tasks : Inner[k] \in Tasks /\ Unposted(k) => Fresh(Inner[k])

(* A new task is appended to its queue.                                    *)
Put(k) ==
  /\ backlog' = [backlog EXCEPT ![QueueOf[k]] = Append(@, k)]
  /\ UNCHANGED <<task, done>>

LEMMA PutOnce ==
  ASSUME Inv, Once, NEW k \in Tasks, Fresh(k), Put(k)
  PROVE  /\ Once'
         /\ \A x \in Tasks : Fresh(x)' <=> Fresh(x) /\ x # k
<1>1. \A x \in Tasks : QueueOf[x] \in Queues
  BY TasksAssumption
<1>2. \A q \in Queues : backlog'[q] = IF q = QueueOf[k] THEN Append(backlog[q], k) ELSE backlog[q]
  BY <1>1 DEF Inv, TypeOK, Put
<1>3. /\ backlog[QueueOf[k]] \in Seq(Tasks)
      /\ IsInjective(backlog[QueueOf[k]])
      /\ k \notin ToSet(backlog[QueueOf[k]])
  BY <1>1 DEF Inv, TypeOK, Once, Fresh
<1> DEFINE r == Append(backlog[QueueOf[k]], k)
<1>4. IsInjective(r) /\ \A x : x \in ToSet(r) <=> x \in ToSet(backlog[QueueOf[k]]) \/ x = k
  BY <1>3, AppendDistinct
<1>5. \A q \in Queues : backlog'[q] = IF q = QueueOf[k] THEN r ELSE backlog[q]
  BY <1>2
<1> HIDE DEF r
<1>6. \A x \in Tasks : x \in ToSet(backlog'[QueueOf[x]]) <=> x \in ToSet(backlog[QueueOf[x]]) \/ x = k
  BY <1>1, <1>4, <1>5
<1>7. \A q \in Queues : IsInjective(backlog'[q])
  BY <1>4, <1>5 DEF Once
<1>8. UNCHANGED <<task, done>>
  BY DEF Put
<1>9. QED
  BY <1>6, <1>7, <1>8 DEF Once, Fresh

LEMMA TakeOnce ==
  ASSUME Inv, QInv, Once, NEW w \in Workers, NEW q \in Queues, Take(w, q)
  PROVE  /\ Once'
         /\ \A x \in Tasks : Fresh(x)' <=> Fresh(x)
         /\ Head(backlog[q]) \in Tasks
         /\ QueueOf[Head(backlog[q])] = q
         /\ Head(backlog[q]) \notin done
         /\ \A v \in Workers : task[v] # Head(backlog[q])
<1> DEFINE k == Head(backlog[q])
           r == Tail(backlog[q])
<1>1. k \in Tasks /\ QueueOf[k] = q
  BY TakeQueued
<1>2. /\ backlog[q] \in Seq(Tasks)
      /\ backlog[q] # <<>>
      /\ IsInjective(backlog[q])
  BY DEF Take, Inv, TypeOK, Once
<1>3. /\ k \in ToSet(backlog[q])
      /\ IsInjective(r)
      /\ \A x : x \in ToSet(r) <=> x \in ToSet(backlog[q]) /\ x # k
  BY <1>2, TailDistinct
<1>4. /\ task' = [task EXCEPT ![w] = k]
      /\ \A p \in Queues : backlog'[p] = IF p = q THEN r ELSE backlog[p]
      /\ done' = done
      /\ task[w] = NoTask
  BY DEF Take, Goes, Inv, TypeOK, Busy
<1> HIDE DEF k, r
<1>5. \A x \in Tasks : x \in ToSet(backlog'[QueueOf[x]]) <=> x \in ToSet(backlog[QueueOf[x]]) /\ x # k
  BY <1>1, <1>3, <1>4, TasksAssumption
<1>6. k \notin done /\ \A v \in Workers : task[v] # k
  BY <1>1, <1>3 DEF Once
<1>7. \A v \in Workers : task'[v] = IF v = w THEN k ELSE task[v]
  BY <1>4 DEF Inv, TypeOK
<1>8. Once'
  BY <1>3, <1>4, <1>5, <1>6, <1>7 DEF Once
<1>9. ASSUME NEW x \in Tasks PROVE Fresh(x)' <=> Fresh(x)
  BY <1>1, <1>3, <1>4, <1>5, <1>6, <1>7, TasksAssumption DEF Fresh
<1>10. QED
  BY <1>1, <1>6, <1>8, <1>9 DEF k

LEMMA EndOnce ==
  ASSUME Inv, QInv, Once, NEW w \in Workers, End(w)
  PROVE  /\ Once'
         /\ \A x \in Tasks : Fresh(x)' <=> Fresh(x)
<1>1. /\ task[w] \in Tasks
      /\ done' = done \cup {task[w]}
      /\ backlog' = backlog
      /\ \A v \in Workers : task'[v] = IF v = w THEN NoTask ELSE task[v]
  BY DEF End, Goes, Inv, TypeOK, Busy
<1>2. NoTask \notin Tasks /\ done \subseteq Tasks
  BY TasksAssumption DEF Inv, TypeOK
<1>3. ASSUME NEW x \in Tasks PROVE Fresh(x)' <=> Fresh(x)
  BY <1>1, <1>2 DEF Fresh
<1>4. \A v \in Workers \ {w} : task[v] # task[w]
  BY <1>1, <1>2 DEF QInv, OneEach
<1>5. \A v \in Workers : task'[v] \notin done'
  BY <1>1, <1>2, <1>4 DEF Once
<1>6. \A k \in Tasks : k \in ToSet(backlog'[QueueOf[k]]) =>
        k \notin done' /\ \A v \in Workers : task'[v] # k
  BY <1>1, <1>2 DEF Once
<1>7. QED
  BY <1>1, <1>3, <1>5, <1>6 DEF Once

LEMMA InlineOnce ==
  ASSUME Inv, Once, NEW k \in Tasks, Fresh(k),
         done' = done \cup {k}, UNCHANGED <<task, backlog>>
  PROVE  /\ Once'
         /\ \A x \in Tasks : Fresh(x)' <=> Fresh(x) /\ x # k
BY DEF Once, Fresh

(* The call of sync_task that posts or runs its task.                      *)
LEMMA InnerUsed ==
  ASSUME Inv, QInv, Once, InnerFresh, NEW w \in Workers, NEW to, Goes(w, "inline", to) \/ Goes(w, "post", to),
         to \notin Before, UNCHANGED task, done \subseteq done'
  PROVE  /\ Inner[task[w]] \in Tasks
         /\ Fresh(Inner[task[w]])
         /\ \A o \in Tasks : Inner[o] \in Tasks /\ Unposted(o)' =>
              Unposted(o) /\ Inner[o] # Inner[task[w]]
<1>1. act[w] \in Before
  BY DEF Goes, Before
<1>2. \A v \in Workers : act'[v] = IF v = w THEN to ELSE act[v]
  BY DEF Goes, Inv, TypeOK, Actors
<1>3. task[w] \in Tasks /\ task[w] # NoTask /\ Inner[task[w]] \in Tasks
  BY <1>1, TasksAssumption DEF Inv, TypeOK, Busy, Before, Syncing
<1>4. Unposted(task[w])
  <2>1. \A v \in Workers : task[v] = task[w] => v = w
    BY <1>3 DEF QInv, OneEach
  <2>2. QED
    BY <1>1, <2>1 DEF Once, Unposted
<1>5. ASSUME NEW o \in Tasks, Inner[o] \in Tasks, Unposted(o)'
      PROVE  Unposted(o) /\ Inner[o] # Inner[task[w]]
  <2>1. \A v \in Workers : task[v] = o => act'[v] \in Before
    BY <1>5 DEF Unposted
  <2>2. o # task[w]
    BY <1>2, <2>1
  <2>3. Inner[o] # Inner[task[w]]
    BY <1>3, <1>5, <2>2, TasksAssumption
  <2>4. Unposted(o)
    BY <1>2, <1>5, <2>1, <2>2 DEF Unposted
  <2>5. QED
    BY <2>3, <2>4
<1>6. QED
  BY <1>3, <1>4, <1>5 DEF InnerFresh

(* Every other step leaves the tasks where they are, and takes no call of  *)
(* sync_task back.                                                         *)
LEMMA PlacesNext ==
  ASSUME Inv, Roles, [Next]_vars,
         \A k \in Outer : ~Post(k),
         \A w \in Workers : /\ \A q \in Queues : ~Take(w, q)
                            /\ ~End(w) /\ ~SyncInline(w) /\ ~SyncPost(w)
  PROVE  /\ UNCHANGED <<task, done, backlog>>
         /\ \A w \in Workers : act'[w] \in Before => act[w] \in Before
<1> DEFINE Goal == /\ UNCHANGED <<task, done, backlog>>
                   /\ \A w \in Workers : act'[w] \in Before => act[w] \in Before
<1>1. ASSUME NEW a \in Actors, NEW from, NEW to, Goes(a, from, to),
             UNCHANGED <<task, done, backlog>>,
             a \in Workers /\ to \in Before => from \in Before
      PROVE  Goal
  BY <1>1 DEF Goes, Inv, TypeOK, Actors
<1> HIDE DEF Goal
<1>2. ASSUME NEW a \in Actors, NEW p, NEW to, to \notin Before,
             DecreaseNone(a, p, to) \/ Decrease(a, p) \/ Erased(a, to)
      PROVE  Goal
  BY <1>1, <1>2 DEF DecreaseNone, Decrease, Erased, Before
<1>3. ASSUME NEW m \in Managers, Grow(m) \/ Call(m) \/ ManagerStep(m) PROVE Goal
  <2>1. m \in Actors /\ m \notin Workers
    BY ActorsAssumption DEF Actors
  <2>2. CASE Grow(m)
    BY <1>1, <2>1, <2>2 DEF Grow, Increase
  <2>3. CASE Call(m)
    BY <1>1, <2>1, <2>3 DEF Call
  <2>4. CASE Above(m) \/ Below(m) \/ GrowMore(m)
    BY <1>1, <2>1, <2>4 DEF Above, Below, GrowMore, Increase
  <2>5. CASE Shrink(m)
    BY <1>2, <2>1, <2>5 DEF Shrink, Before
  <2>6. QED
    BY <1>3, <2>2, <2>3, <2>4, <2>5 DEF ManagerStep
<1>4. ASSUME NEW w \in Workers, TaskShrink(w) PROVE Goal
  BY <1>2, <1>4 DEF TaskShrink, Before, Actors
<1>5. ASSUME NEW w \in Workers, SyncSize(w) \/ SyncMember(w) \/ SyncReturn(w) PROVE Goal
  <2>1. w \in Actors
    BY DEF Actors
  <2>2. CASE SyncSize(w)
    BY <1>1, <2>1, <2>2 DEF SyncSize, Before
  <2>3. CASE SyncMember(w)
    BY <1>1, <2>1, <2>3 DEF SyncMember, Before
  <2>4. CASE SyncReturn(w)
    BY <1>1, <2>1, <2>4 DEF SyncReturn, Before
  <2>5. QED
    BY <1>5, <2>2, <2>3, <2>4
<1>6. ASSUME NEW w \in Workers, Leave(w) PROVE Goal
  BY <1>6 DEF Leave, Goal
<1>7. ASSUME UNCHANGED vars PROVE Goal
  BY <1>7 DEF vars, Goal
<1>8. Goal
  <2>1. CASE \E m \in Managers : Grow(m) \/ Call(m) \/ ManagerStep(m)
    BY <1>3, <2>1
  <2>2. CASE \E w \in Workers : WorkerStep(w)
    <3>1. PICK w \in Workers : WorkerStep(w)
      BY <2>2
    <3>2. TaskShrink(w) \/ SyncSize(w) \/ SyncMember(w) \/ SyncReturn(w) \/ Leave(w)
      BY <3>1 DEF WorkerStep
    <3>3. QED
      BY <1>4, <1>5, <1>6, <3>2
  <2>3. CASE UNCHANGED vars
    BY <1>7, <2>3
  <2>4. Growers \subseteq Managers
    BY ActorsAssumption
  <2>5. Next => \/ \E m \in Managers : Grow(m) \/ Call(m) \/ ManagerStep(m)
                \/ \E k \in Outer : Post(k)
                \/ \E w \in Workers : WorkerStep(w)
    BY <2>4 DEF Next
  <2>6. QED
    BY <2>1, <2>2, <2>3, <2>5
<1>9. QED
  BY <1>8 DEF Goal

OnceInv == Once /\ InnerFresh

LEMMA OnceNext == Inv /\ QInv /\ Roles /\ OnceInv /\ [Next]_vars => OnceInv'
<1> SUFFICES ASSUME Inv, QInv, Roles, Once, InnerFresh, [Next]_vars PROVE Once' /\ InnerFresh'
  BY DEF OnceInv
<1>0. TypeOK
  BY DEF Inv
<1>1. ASSUME NEW k \in Outer, Post(k) PROVE Once' /\ InnerFresh'
  <2>1. k \in Tasks /\ \A o \in Tasks : Inner[o] # k
    BY DEF Outer
  <2>2. Fresh(k) /\ Put(k) /\ UNCHANGED <<task, done, act>>
    BY <1>1, <2>1, TasksAssumption DEF Post, Fresh, Put
  <2>3. Once' /\ \A x \in Tasks : Fresh(x)' <=> Fresh(x) /\ x # k
    BY <2>1, <2>2, PutOnce
  <2>4. \A o : Unposted(o)' => Unposted(o)
    BY <2>2 DEF Unposted
  <2>5. InnerFresh'
    BY <2>1, <2>3, <2>4 DEF InnerFresh
  <2>6. QED
    BY <2>3, <2>5
<1>2. ASSUME NEW w \in Workers, NEW q \in Queues, Take(w, q) PROVE Once' /\ InnerFresh'
  <2> DEFINE k == Head(backlog[q])
  <2>1. /\ Once'
        /\ \A x \in Tasks : Fresh(x)' <=> Fresh(x)
        /\ k \notin done /\ \A v \in Workers : task[v] # k
    BY <1>2, TakeOnce
  <2>2. /\ \A v \in Workers : task'[v] = IF v = w THEN k ELSE task[v]
        /\ done' = done
        /\ \A v \in Workers \ {w} : act'[v] = act[v]
        /\ task[w] = NoTask
    BY <1>2 DEF Take, Goes, Inv, TypeOK, Busy, Actors
  <2> HIDE DEF k
  <2>3. ASSUME NEW o \in Tasks, Unposted(o)' PROVE Unposted(o)
    BY <2>1, <2>2, <2>3, TasksAssumption DEF Unposted
  <2>4. InnerFresh'
    BY <2>1, <2>3 DEF InnerFresh
  <2>5. QED
    BY <2>1, <2>4
<1>3. ASSUME NEW w \in Workers, End(w) PROVE Once' /\ InnerFresh'
  <2>1. Once' /\ \A x \in Tasks : Fresh(x)' <=> Fresh(x)
    BY <1>3, EndOnce
  <2>2. /\ \A v \in Workers : task'[v] = IF v = w THEN NoTask ELSE task[v]
        /\ done' = done \cup {task[w]}
        /\ \A v \in Workers \ {w} : act'[v] = act[v]
    BY <1>3 DEF End, Goes, Inv, TypeOK, Actors
  <2>3. ASSUME NEW o \in Tasks, Unposted(o)' PROVE Unposted(o)
    BY <2>2, <2>3 DEF Unposted
  <2>4. InnerFresh'
    BY <2>1, <2>3 DEF InnerFresh
  <2>5. QED
    BY <2>1, <2>4
<1>4. ASSUME NEW w \in Workers, SyncPost(w) PROVE Once' /\ InnerFresh'
  <2> DEFINE k == Inner[task[w]]
  <2>1. Goes(w, "post", "await") /\ "await" \notin Before /\ Put(k)
    BY <1>4 DEF SyncPost, Put, Before
  <2>2. /\ k \in Tasks
        /\ Fresh(k)
        /\ \A o \in Tasks : Inner[o] \in Tasks /\ Unposted(o)' => Unposted(o) /\ Inner[o] # k
    BY <2>1, InnerUsed DEF Put
  <2> HIDE DEF k
  <2>3. Once' /\ \A x \in Tasks : Fresh(x)' <=> Fresh(x) /\ x # k
    BY <2>1, <2>2, PutOnce
  <2>4. InnerFresh'
    BY <2>2, <2>3 DEF InnerFresh
  <2>5. QED
    BY <2>3, <2>4
<1>5. ASSUME NEW w \in Workers, SyncInline(w) PROVE Once' /\ InnerFresh'
  <2> DEFINE k == Inner[task[w]]
  <2>1. /\ Goes(w, "inline", "body") /\ "body" \notin Before
        /\ done' = done \cup {k} /\ UNCHANGED <<task, backlog>>
    BY <1>5 DEF SyncInline, Before
  <2>2. /\ k \in Tasks
        /\ Fresh(k)
        /\ \A o \in Tasks : Inner[o] \in Tasks /\ Unposted(o)' => Unposted(o) /\ Inner[o] # k
    BY <2>1, InnerUsed
  <2> HIDE DEF k
  <2>3. Once' /\ \A x \in Tasks : Fresh(x)' <=> Fresh(x) /\ x # k
    BY <2>1, <2>2, InlineOnce
  <2>4. InnerFresh'
    BY <2>2, <2>3 DEF InnerFresh
  <2>5. QED
    BY <2>3, <2>4
<1>6. CASE /\ UNCHANGED <<task, done, backlog>>
           /\ \A w \in Workers : act'[w] \in Before => act[w] \in Before
  <2>1. Once' /\ \A x : Fresh(x)' <=> Fresh(x)
    BY <1>6 DEF Once, Fresh
  <2>2. \A o : Unposted(o)' => Unposted(o)
    BY <1>6 DEF Unposted
  <2>3. QED
    BY <2>1, <2>2 DEF InnerFresh
<1>7. QED
  BY <1>1, <1>2, <1>3, <1>4, <1>5, <1>6, PlacesNext

(* The task a queue runs.                                                  *)
Now(q) == IF Active(q) = {} THEN NoTask ELSE task[CHOOSE w \in Active(q) : TRUE]

News(q) == {k \in Tasks : QueueOf[k] = q /\ Fresh(k)}

LEMMA NowIs ==
  ASSUME OneEach, NEW q, NEW w \in Active(q)
  PROVE  Now(q) = task[w] /\ Now(q) # NoTask /\ Active(q) = {w}
BY DEF OneEach, Active, Now

LEMMA NowIsNext ==
  ASSUME OneEach', NEW q, NEW w \in Workers, task'[w] # NoTask, QueueOf[task'[w]] = q
  PROVE  Now(q)' = task'[w]
<1>1. w \in Active(q)' /\ \A v \in Active(q)' : v = w
  BY DEF OneEach, Active
<1>2. QED
  BY <1>1 DEF Now

(* A task is new to its own queue only.                                    *)
LEMMA NewsNext ==
  ASSUME NEW k \in Tasks, \A x \in Tasks : Fresh(x)' <=> Fresh(x) /\ x # k, Fresh(k), NEW q
  PROVE  News(q)' = IF q = QueueOf[k] THEN News(q) \ {k} ELSE News(q)
BY DEF News

LEMMA SerialNext ==
  ASSUME Inv, QInv, QInv', Roles, OnceInv, [Next]_vars, NEW q \in Queues
  PROVE  [Serial(q)!Next]_(Serial(q)!vars)
<1> DEFINE Same == UNCHANGED <<News(q), backlog[q], Now(q)>>
<1> SUFFICES Serial(q)!Next \/ Same
  BY DEF Serial!vars, News, Now
<1>0. Once /\ InnerFresh /\ OneEach /\ OneEach'
  BY DEF OnceInv, QInv
<1>1. ASSUME NEW k \in Tasks, Fresh(k), Put(k) PROVE Serial(q)!Next \/ Same
  <2>1. /\ QueueOf[k] \in Queues
        /\ \A x \in Tasks : Fresh(x)' <=> Fresh(x) /\ x # k
    BY <1>0, <1>1, PutOnce, TasksAssumption
  <2>2. News(q)' = IF q = QueueOf[k] THEN News(q) \ {k} ELSE News(q)
    BY <1>1, <2>1, NewsNext
  <2>3. Now(q)' = Now(q)
    BY <1>1 DEF Put, Now, Active
  <2>4. backlog'[q] = IF q = QueueOf[k] THEN Append(backlog[q], k) ELSE backlog[q]
    BY <1>1, <2>1 DEF Put, Inv, TypeOK
  <2>5. CASE q = QueueOf[k]
    <3>1. k \in News(q)
      BY <1>1, <2>5 DEF News
    <3>2. Serial(q)!Post(k)
      BY <2>2, <2>3, <2>4, <2>5, <3>1 DEF Serial!Post, News, Now
    <3>3. QED
      BY <2>5, <3>2 DEF Serial!Next
  <2>6. CASE q # QueueOf[k]
    BY <2>2, <2>3, <2>4, <2>6
  <2>7. QED
    BY <2>5, <2>6
<1>2. ASSUME NEW w \in Workers, SyncPost(w) PROVE Serial(q)!Next \/ Same
  <2>1. Goes(w, "post", "await") /\ "await" \notin Before /\ Put(Inner[task[w]])
    BY <1>2 DEF SyncPost, Put, Before
  <2>2. Inner[task[w]] \in Tasks /\ Fresh(Inner[task[w]])
    BY <1>0, <2>1, InnerUsed DEF Put
  <2>3. QED
    BY <1>1, <2>1, <2>2
<1>3. ASSUME NEW k \in Outer, Post(k) PROVE Serial(q)!Next \/ Same
  <2>1. k \in Tasks /\ Fresh(k) /\ Put(k)
    BY <1>3, TasksAssumption DEF Outer, Post, Fresh, Put
  <2>2. QED
    BY <1>1, <2>1
<1>4. ASSUME NEW k \in Tasks, Fresh(k), done' = done \cup {k}, UNCHANGED <<task, backlog>>
      PROVE  Serial(q)!Next \/ Same
  <2>1. \A x \in Tasks : Fresh(x)' <=> Fresh(x) /\ x # k
    BY <1>0, <1>4, InlineOnce
  <2>2. News(q)' = IF q = QueueOf[k] THEN News(q) \ {k} ELSE News(q)
    BY <1>4, <2>1, NewsNext
  <2>3. Now(q)' = Now(q) /\ backlog'[q] = backlog[q]
    BY <1>4 DEF Now, Active
  <2>4. CASE q = QueueOf[k]
    <3>1. k \in News(q)
      BY <1>4, <2>4 DEF News
    <3>2. Serial(q)!Post(k)
      BY <2>2, <2>3, <2>4, <3>1 DEF Serial!Post, News, Now
    <3>3. QED
      BY <2>4, <3>2 DEF Serial!Next
  <2>5. CASE q # QueueOf[k]
    BY <2>2, <2>3, <2>5
  <2>6. QED
    BY <2>4, <2>5
<1>5. ASSUME NEW w \in Workers, SyncInline(w) PROVE Serial(q)!Next \/ Same
  <2>1. /\ Goes(w, "inline", "body") /\ "body" \notin Before
        /\ done' = done \cup {Inner[task[w]]} /\ UNCHANGED <<task, backlog>>
    BY <1>5 DEF SyncInline, Before
  <2>2. Inner[task[w]] \in Tasks /\ Fresh(Inner[task[w]])
    BY <1>0, <2>1, InnerUsed
  <2>3. QED
    BY <1>4, <2>1, <2>2
<1>6. ASSUME NEW w \in Workers, NEW p \in Queues, Take(w, p) PROVE Serial(q)!Begin \/ Same
  <2> DEFINE k == Head(backlog[p])
             r == Tail(backlog[p])
  <2>1. /\ \A x \in Tasks : Fresh(x)' <=> Fresh(x)
        /\ k \in Tasks
        /\ QueueOf[k] = p
    BY <1>0, <1>6, TakeOnce
  <2>2. News(q)' = News(q)
    BY <2>1 DEF News
  <2>3. /\ \A v \in Workers : task'[v] = IF v = w THEN k ELSE task[v]
        /\ task[w] = NoTask
        /\ backlog'[q] = IF q = p THEN r ELSE backlog[q]
        /\ Active(p) = {}
        /\ backlog[p] # <<>>
    BY <1>6 DEF Take, Goes, Inv, TypeOK, Busy
  <2>4. CASE q = p
    <3>1. Now(q) = NoTask
      BY <2>3, <2>4 DEF Now
    <3>2. Now(q)' = k
      BY <1>0, <2>1, <2>3, <2>4, NowIsNext, TasksAssumption
    <3>3. QED
      BY <2>2, <2>3, <2>4, <3>1, <3>2 DEF Serial!Begin, News, Now
  <2>5. CASE q # p
    <3> HIDE DEF k, r
    <3>1. Active(q)' = Active(q)
      BY <2>1, <2>3, <2>5 DEF Active
    <3>2. \A v \in Active(q) : task'[v] = task[v]
      BY <2>3 DEF Active
    <3>3. Now(q)' = Now(q)
      BY <3>1, <3>2 DEF Now
    <3>4. QED
      BY <2>2, <2>3, <2>5, <3>3
  <2>6. QED
    BY <2>4, <2>5
<1>7. ASSUME NEW w \in Workers, End(w) PROVE Serial(q)!End \/ Same
  <2>1. News(q)' = News(q)
    BY <1>0, <1>7, EndOnce DEF News
  <2>2. /\ \A v \in Workers : task'[v] = IF v = w THEN NoTask ELSE task[v]
        /\ task[w] # NoTask
        /\ backlog' = backlog
    BY <1>7 DEF End, Goes, Inv, TypeOK, Busy
  <2>3. CASE w \in Active(q)
    <3>1. Now(q) # NoTask /\ Active(q) = {w}
      BY <1>0, <2>3, NowIs
    <3>2. Active(q)' = {}
      BY <2>2, <3>1 DEF Active
    <3>3. Now(q)' = NoTask
      BY <3>2 DEF Now
    <3>4. QED
      BY <2>1, <2>2, <3>1, <3>3 DEF Serial!End, News, Now
  <2>4. CASE w \notin Active(q)
    <3>1. Active(q)' = Active(q)
      BY <2>2, <2>4 DEF Active
    <3>2. \A v \in Active(q) : task'[v] = task[v]
      BY <2>2, <2>4 DEF Active
    <3>3. Now(q)' = Now(q)
      BY <3>1, <3>2 DEF Now
    <3>4. QED
      BY <2>1, <2>2, <3>3
  <2>5. QED
    BY <2>3, <2>4
<1>8. ASSUME UNCHANGED <<task, done, backlog>> PROVE Same
  BY <1>8 DEF News, Now, Active, Fresh
<1> HIDE DEF Same
<1>9. QED
  BY <1>2, <1>3, <1>5, <1>6, <1>7, <1>8, PlacesNext DEF Serial!Next

(* The discipline of the queues that WorkerGroup takes for granted is that *)
(* which TaskQueue implements: every task is accepted at most once, tasks  *)
(* run in order, one at a time in each queue, none twice.                  *)
THEOREM QueuesImplemented == Spec => QueuesSerial
<1>1. Init => OnceInv
  <2> SUFFICES ASSUME Init PROVE Once /\ InnerFresh
    BY DEF OnceInv
  <2>1. \A q \in Queues : backlog[q] = <<>> /\ DOMAIN backlog[q] = {}
    BY DEF Init
  <2>2. \A q \in Queues : ToSet(backlog[q]) = {} /\ IsInjective(backlog[q])
    BY <2>1 DEF ToSet, IsInjective
  <2>3. \A w \in Workers : task[w] = NoTask
    BY DEF Init
  <2>4. done = {}
    BY DEF Init
  <2>5. QED
    BY <2>2, <2>3, <2>4, TasksAssumption DEF Once, InnerFresh, Fresh
<1>2. Init => \A q \in Queues : Serial(q)!Init
  <2> SUFFICES ASSUME Init, NEW q \in Queues PROVE Serial(q)!Init
    OBVIOUS
  <2>1. \A p \in Queues : backlog[p] = <<>> /\ DOMAIN backlog[p] = {}
    BY DEF Init
  <2>2. \A p \in Queues : ToSet(backlog[p]) = {}
    BY <2>1 DEF ToSet
  <2>3. \A k \in Tasks : Fresh(k)
    BY <2>2, TasksAssumption DEF Init, Fresh
  <2>4. Active(q) = {}
    BY DEF Init, Active
  <2>5. QED
    BY <2>1, <2>3, <2>4 DEF Serial!Init
<1>3. Inv /\ QInv /\ Roles /\ OnceInv /\ [Next]_vars => OnceInv'
  BY OnceNext
<1>4. Inv /\ QInv /\ QInv' /\ Roles /\ OnceInv /\ [Next]_vars =>
        [\A q \in Queues : [Serial(q)!Next]_(Serial(q)!vars)]_vars
  BY SerialNext
<1>5. QED
  BY <1>1, <1>2, <1>3, <1>4, FullInvariance, PTL DEF Spec, QueuesSerial

(* Both together: the group is composed of what Worker and TaskQueue show. *)
THEOREM PartsCorrect == Spec => PartsAsPromised
BY WorkersImplemented, QueuesImplemented DEF PartsAsPromised

===============================================================================
