----------------------------- MODULE RWLockProofs -----------------------------
(* Theorems about RWLock, for any finite set of threads.                   *)
EXTENDS RWLock, FiniteSetTheorems, TLAPS

(* The invariant is inductive as the properties state it.                  *)
Inv == TypeOK /\ Exclusion /\ CountersAgree /\ NoLostWakeup

-------------------------------------------------------------------------------
LEMMA Counting ==
  ASSUME NEW S \in SUBSET Threads
  PROVE  /\ Cardinality(S) \in Nat
         /\ Cardinality(S) = 0 <=> S = {}
         /\ \A t \in S : Cardinality(S \ {t}) = Cardinality(S) - 1
         /\ \A t \in Threads \ S : Cardinality(S \cup {t}) = Cardinality(S) + 1
<1>1. IsFiniteSet(S)
  BY ThreadsAssumption, FS_Subset
<1>2. Cardinality(S) \in Nat /\ (Cardinality(S) = 0 <=> S = {})
  BY <1>1, FS_CardinalityType, FS_EmptySet
<1>3. \A t \in S : Cardinality(S \ {t}) = Cardinality(S) - 1
  BY <1>1, FS_RemoveElement
<1>4. \A t \in Threads \ S : Cardinality(S \cup {t}) = Cardinality(S) + 1
  BY <1>1, FS_AddElement
<1>5. QED
  BY <1>2, <1>3, <1>4

(* A thread that moves to a state leaves every other.                      *)
LEMMA Moving ==
  ASSUME TypeOK, NEW t \in Threads, NEW b \in States, state' = [state EXCEPT ![t] = b]
  PROVE  /\ \A s \in States : In(s)' = IF s = b THEN In(s) \cup {t} ELSE In(s) \ {t}
         /\ state' \in [Threads -> States]
BY DEF TypeOK, In

LEMMA Sets ==
  /\ \A s \in States : In(s) \in SUBSET Threads
  /\ In("writing") \cup In("write_wait") \in SUBSET Threads
  /\ {"idle", "reading", "writing", "read_wait", "write_wait"} = States
BY DEF In, States

-------------------------------------------------------------------------------
(* The ways to get the lock or to sleep.                                   *)

LEMMA TakesWrite ==
  ASSUME Inv, NEW t \in Threads, state[t] \in {"idle", "write_wait"}, ~WriteBlocked,
         state' = [state EXCEPT ![t] = "writing"], is_writing' = 1,
         notified' = notified \ {t},
         write_cnt' = IF state[t] = "idle" THEN write_cnt + 1 ELSE write_cnt,
         UNCHANGED read_cnt
  PROVE  Inv'
<1> DEFINE W == In("writing") \cup In("write_wait")
<1>1. /\ \A s \in States : In(s)' = IF s = "writing" THEN In(s) \cup {t} ELSE In(s) \ {t}
      /\ state' \in [Threads -> States]
  BY Moving, Sets DEF Inv
<1>2. In("writing") = {} /\ In("reading") = {} /\ read_cnt = 0
  BY Sets, Counting DEF Inv, CountersAgree, WriteBlocked, TypeOK
<1>3. /\ In("writing")' = {t} /\ In("reading")' = {}
      /\ In("write_wait")' = In("write_wait") \ {t}
      /\ In("read_wait")' = In("read_wait")
      /\ W' = W \cup {t}
      /\ t \in W <=> state[t] = "write_wait"
  BY <1>1, <1>2, Sets DEF In
<1>4. write_cnt' = Cardinality(W') /\ write_cnt' \in Nat /\ write_cnt' # 0
  <2>1. W \in SUBSET Threads /\ W' \in SUBSET Threads /\ write_cnt = Cardinality(W)
    BY <1>3, Sets DEF Inv, CountersAgree
  <2>2. t \in W => W' = W
    BY <1>3
  <2>3. Cardinality(W') \in Nat /\ Cardinality(W') # 0
    BY <1>3, <2>1, Counting
  <2>4. t \notin W => Cardinality(W \cup {t}) = Cardinality(W) + 1
    BY <2>1, Counting
  <2>5. QED
    BY <1>3, <2>1, <2>2, <2>3, <2>4
<1>5. TypeOK'
  BY <1>1, <1>3, <1>4 DEF Inv, TypeOK
<1>6. Exclusion' /\ CountersAgree'
  <2>1. Exclusion'
    BY <1>3 DEF Exclusion
  <2>2. Cardinality(In("reading")') = 0
    BY <1>3, FS_EmptySet
  <2>3. QED
    BY <1>2, <1>3, <1>4, <2>1, <2>2 DEF CountersAgree
<1>7. NoLostWakeup'
  BY <1>4 DEF NoLostWakeup, WriteBlocked, ReadBlocked
<1>8. QED
  BY <1>5, <1>6, <1>7 DEF Inv

LEMMA SleepsWrite ==
  ASSUME Inv, NEW t \in Threads, state[t] \in {"idle", "write_wait"}, WriteBlocked,
         state' = [state EXCEPT ![t] = "write_wait"],
         notified' = notified \ {t},
         write_cnt' = IF state[t] = "idle" THEN write_cnt + 1 ELSE write_cnt,
         UNCHANGED <<read_cnt, is_writing>>
  PROVE  Inv'
<1> DEFINE W == In("writing") \cup In("write_wait")
<1>1. /\ \A s \in States : In(s)' = IF s = "write_wait" THEN In(s) \cup {t} ELSE In(s) \ {t}
      /\ state' \in [Threads -> States]
  BY Moving, Sets DEF Inv
<1>2. /\ In("writing")' = In("writing") /\ In("reading")' = In("reading")
      /\ In("write_wait")' = In("write_wait") \cup {t}
      /\ In("read_wait")' = In("read_wait")
      /\ W' = W \cup {t}
      /\ t \in W <=> state[t] = "write_wait"
  BY <1>1, Sets DEF In
<1>3. write_cnt' = Cardinality(W') /\ write_cnt' \in Nat /\ write_cnt' # 0
  <2>1. W \in SUBSET Threads /\ W' \in SUBSET Threads /\ write_cnt = Cardinality(W)
    BY <1>2, Sets DEF Inv, CountersAgree
  <2>2. t \in W => W' = W
    BY <1>2
  <2>3. Cardinality(W') \in Nat /\ Cardinality(W') # 0
    BY <1>2, <2>1, Counting
  <2>4. t \notin W => Cardinality(W \cup {t}) = Cardinality(W) + 1
    BY <2>1, Counting
  <2>5. QED
    BY <1>2, <2>1, <2>2, <2>3, <2>4
<1>4. TypeOK'
  BY <1>1, <1>2, <1>3 DEF Inv, TypeOK
<1>5. Exclusion' /\ CountersAgree'
  BY <1>2, <1>3 DEF Inv, Exclusion, CountersAgree
<1>6. NoLostWakeup'
  BY <1>3 DEF NoLostWakeup, WriteBlocked, ReadBlocked
<1>7. QED
  BY <1>4, <1>5, <1>6 DEF Inv

LEMMA TakesRead ==
  ASSUME Inv, NEW t \in Threads, state[t] \in {"idle", "read_wait"}, ~ReadBlocked,
         state' = [state EXCEPT ![t] = "reading"], read_cnt' = read_cnt + 1,
         notified' = notified \ {t},
         UNCHANGED <<write_cnt, is_writing>>
  PROVE  Inv'
<1> DEFINE W == In("writing") \cup In("write_wait")
<1>1. /\ \A s \in States : In(s)' = IF s = "reading" THEN In(s) \cup {t} ELSE In(s) \ {t}
      /\ state' \in [Threads -> States]
  BY Moving, Sets DEF Inv
<1>2. W = {}
  BY Sets, Counting DEF Inv, CountersAgree, ReadBlocked
<1>3. /\ In("writing")' = {} /\ In("write_wait")' = {}
      /\ In("writing") = {} /\ In("write_wait") = {}
      /\ In("reading")' = In("reading") \cup {t} /\ t \in Threads \ In("reading")
      /\ In("read_wait")' = In("read_wait") \ {t}
  BY <1>1, <1>2, Sets DEF In
<1>4. read_cnt' = Cardinality(In("reading")') /\ read_cnt' \in Nat
  <2>1. In("reading") \in SUBSET Threads
    BY Sets
  <2>2. Cardinality(In("reading") \cup {t}) = Cardinality(In("reading")) + 1
    BY <1>3, <2>1, Counting
  <2>3. read_cnt \in Nat /\ read_cnt = Cardinality(In("reading"))
    BY DEF Inv, CountersAgree, TypeOK
  <2>4. Cardinality(In("reading")') = Cardinality(In("reading") \cup {t})
    BY <1>3
  <2>5. QED
    BY <2>2, <2>3, <2>4
<1>5. TypeOK'
  BY <1>1, <1>3, <1>4 DEF Inv, TypeOK
<1>6. Exclusion' /\ CountersAgree'
  BY <1>3, <1>4 DEF Inv, Exclusion, CountersAgree
<1>7. NoLostWakeup'
  BY <1>3 DEF Inv, NoLostWakeup, ReadBlocked
<1>8. QED
  BY <1>5, <1>6, <1>7 DEF Inv

LEMMA SleepsRead ==
  ASSUME Inv, NEW t \in Threads, state[t] \in {"idle", "read_wait"}, ReadBlocked,
         state' = [state EXCEPT ![t] = "read_wait"],
         notified' = notified \ {t},
         UNCHANGED <<read_cnt, write_cnt, is_writing>>
  PROVE  Inv'
<1>1. /\ \A s \in States : In(s)' = IF s = "read_wait" THEN In(s) \cup {t} ELSE In(s) \ {t}
      /\ state' \in [Threads -> States]
  BY Moving, Sets DEF Inv
<1>2. /\ In("writing")' = In("writing") /\ In("reading")' = In("reading")
      /\ In("write_wait")' = In("write_wait")
      /\ In("read_wait")' = In("read_wait") \cup {t}
      /\ t \notin In("write_wait")
  BY <1>1, Sets DEF In
<1>3. TypeOK'
  BY <1>1, <1>2 DEF Inv, TypeOK
<1>4. Exclusion' /\ CountersAgree'
  BY <1>2 DEF Inv, Exclusion, CountersAgree
<1>5. NoLostWakeup'
  BY <1>2 DEF Inv, NoLostWakeup, WriteBlocked, ReadBlocked
<1>6. QED
  BY <1>3, <1>4, <1>5 DEF Inv

-------------------------------------------------------------------------------
(* The ways to give it back.                                               *)

LEMMA UnlockKeeps ==
  ASSUME Inv, NEW t \in Threads, Unlock(t)
  PROVE  Inv'
<1> DEFINE W == In("writing") \cup In("write_wait")
<1>1. /\ \A s \in States : In(s)' = IF s = "idle" THEN In(s) \cup {t} ELSE In(s) \ {t}
      /\ state' \in [Threads -> States]
  BY Moving, Sets DEF Inv, Unlock
<1>2. In("writing") = {t} /\ In("reading") = {} /\ t \in W
  BY DEF Inv, Exclusion, Unlock, In
<1>3. /\ In("writing")' = {} /\ In("reading")' = {}
      /\ In("write_wait")' = In("write_wait")
      /\ In("read_wait")' = In("read_wait")
      /\ W' = W \ {t} /\ W' = In("write_wait")
      /\ t \notin In("write_wait")
  BY <1>1, <1>2, Sets DEF In
<1>4. /\ write_cnt' = Cardinality(W') /\ write_cnt' \in Nat
      /\ write_cnt = 1 <=> In("write_wait") = {}
  <2>1. W \in SUBSET Threads /\ W' \in SUBSET Threads /\ write_cnt = Cardinality(W)
    BY <1>3, Sets DEF Inv, CountersAgree
  <2>2. Cardinality(W \ {t}) = Cardinality(W) - 1
    BY <1>2, <2>1, Counting
  <2>3. Cardinality(W') \in Nat /\ (Cardinality(W') = 0 <=> W' = {})
    BY <2>1, Counting
  <2>4. write_cnt' = Cardinality(W')
    BY <1>3, <2>1, <2>2 DEF Unlock
  <2>5. write_cnt = 1 <=> write_cnt' = 0
    BY DEF Inv, TypeOK, Unlock
  <2>6. QED
    BY <1>3, <2>3, <2>4, <2>5
<1>5. /\ notified' \subseteq In("read_wait") \cup In("write_wait")
      /\ In("write_wait") = {} => In("read_wait") \subseteq notified'
      /\ In("write_wait") # {} => In("write_wait") \cap notified' # {}
  <2>1. CASE write_cnt = 1
    BY <1>4, <2>1 DEF Unlock, NotifyReaders, Inv, TypeOK
  <2>2. CASE write_cnt # 1
    <3>1. NotifyWriter /\ In("write_wait") # {}
      BY <1>4, <2>2 DEF Unlock
    <3>2. QED
      BY <3>1 DEF NotifyWriter, Inv, TypeOK
  <2>3. QED
    BY <2>1, <2>2
<1>6. TypeOK'
  BY <1>1, <1>3, <1>4, <1>5 DEF Inv, TypeOK, Unlock
<1>7. Exclusion' /\ CountersAgree'
  <2>1. Cardinality(In("reading")') = Cardinality(In("reading"))
    BY <1>2, <1>3
  <2>2. QED
    BY <1>3, <1>4, <2>1 DEF Inv, Exclusion, CountersAgree, Unlock
<1>8. NoLostWakeup'
  <2>1. write_cnt' = 0 => In("write_wait") = {}
    BY <1>4 DEF Inv, TypeOK, Unlock
  <2>2. QED
    BY <1>3, <1>5, <2>1 DEF NoLostWakeup, ReadBlocked
<1>9. QED
  BY <1>6, <1>7, <1>8 DEF Inv

LEMMA UnlockSharedKeeps ==
  ASSUME Inv, NEW t \in Threads, UnlockShared(t)
  PROVE  Inv'
<1>1. /\ \A s \in States : In(s)' = IF s = "idle" THEN In(s) \cup {t} ELSE In(s) \ {t}
      /\ state' \in [Threads -> States]
  BY Moving, Sets DEF Inv, UnlockShared
<1>2. t \in In("reading") /\ In("writing") = {} /\ is_writing = 0
  <2>1. t \in In("reading") /\ In("writing") = {}
    BY DEF Inv, Exclusion, UnlockShared, In
  <2>2. QED
    BY <2>1 DEF Inv, CountersAgree, TypeOK
<1>3. /\ In("writing")' = {} /\ In("reading")' = In("reading") \ {t}
      /\ In("write_wait")' = In("write_wait")
      /\ In("read_wait")' = In("read_wait")
  BY <1>1, <1>2, Sets DEF In
<1>4. read_cnt' = Cardinality(In("reading")') /\ read_cnt' \in Nat
  <2>1. In("reading") \in SUBSET Threads /\ In("reading")' \in SUBSET Threads
    BY <1>3, Sets
  <2>2. Cardinality(In("reading") \ {t}) = Cardinality(In("reading")) - 1
    BY <1>2, <2>1, Counting
  <2>3. Cardinality(In("reading")') \in Nat
    BY <2>1, Counting
  <2>4. Cardinality(In("reading")') = Cardinality(In("reading") \ {t})
    BY <1>3
  <2>5. read_cnt' = read_cnt - 1 /\ read_cnt = Cardinality(In("reading"))
    BY DEF Inv, CountersAgree, UnlockShared
  <2>6. QED
    BY <2>2, <2>3, <2>4, <2>5
<1>5. /\ notified' \subseteq In("read_wait") \cup In("write_wait")
      /\ notified \subseteq notified'
      /\ read_cnt = 1 /\ In("write_wait") # {} => In("write_wait") \cap notified' # {}
  BY DEF UnlockShared, NotifyWriter, Inv, TypeOK
<1>6. TypeOK'
  BY <1>1, <1>3, <1>4, <1>5 DEF Inv, TypeOK, UnlockShared
<1>7. Exclusion' /\ CountersAgree'
  BY <1>2, <1>3, <1>4 DEF Inv, Exclusion, CountersAgree, UnlockShared
<1>8. NoLostWakeup'
  <2>1. read_cnt' = 0 => read_cnt = 1
    BY DEF Inv, TypeOK, UnlockShared
  <2>2. UNCHANGED write_cnt
    BY DEF UnlockShared
  <2>3. QED
    BY <1>3, <1>5, <2>1, <2>2 DEF Inv, NoLostWakeup, WriteBlocked, ReadBlocked
<1>9. QED
  BY <1>6, <1>7, <1>8 DEF Inv

-------------------------------------------------------------------------------
LEMMA InvInit == Init => Inv
<1> SUFFICES ASSUME Init PROVE Inv
  OBVIOUS
<1>1. /\ In("writing") = {} /\ In("reading") = {}
      /\ In("write_wait") = {} /\ In("read_wait") = {}
  BY DEF Init, In
<1>2. TypeOK
  BY DEF Init, TypeOK, States
<1>3. Cardinality({}) = 0
  BY FS_EmptySet
<1>4. QED
  BY <1>1, <1>2, <1>3 DEF Init, Inv, Exclusion, CountersAgree, NoLostWakeup

LEMMA NextPreserves == Inv /\ [Next]_vars => Inv'
<1> SUFFICES ASSUME Inv, [Next]_vars PROVE Inv'
  OBVIOUS
<1>1. ASSUME NEW t \in Threads, state[t] \in {"idle", "write_wait"}, EnterWrite(t),
             write_cnt' = IF state[t] = "idle" THEN write_cnt + 1 ELSE write_cnt,
             UNCHANGED read_cnt
      PROVE  Inv'
  BY <1>1, TakesWrite, SleepsWrite DEF EnterWrite
<1>2. ASSUME NEW t \in Threads, state[t] \in {"idle", "read_wait"}, EnterRead(t),
             UNCHANGED <<write_cnt, is_writing>>
      PROVE  Inv'
  BY <1>2, TakesRead, SleepsRead DEF EnterRead
<1>3. ASSUME NEW t \in Threads, Lock(t) PROVE Inv'
  BY <1>1, <1>3 DEF Lock
<1>4. ASSUME NEW t \in Threads, LockShared(t) PROVE Inv'
  BY <1>2, <1>4 DEF LockShared
<1>5. ASSUME NEW t \in Threads, Resume(t) PROVE Inv'
  BY <1>1, <1>2, <1>5 DEF Resume
<1>6. ASSUME NEW t \in Threads, state[t] = "idle" PROVE notified \ {t} = notified
  BY <1>6 DEF Inv, TypeOK, In
<1>7. ASSUME NEW t \in Threads, TryLock(t) PROVE Inv'
  BY <1>6, <1>7, TakesWrite DEF TryLock
<1>8. ASSUME NEW t \in Threads, TryLockShared(t) PROVE Inv'
  BY <1>6, <1>8, TakesRead DEF TryLockShared
<1>9. CASE UNCHANGED vars
  <2>1. \A s : In(s)' = In(s)
    BY <1>9 DEF vars, In
  <2>2. QED
    BY <1>9, <2>1 DEF vars, Inv, TypeOK, Exclusion, CountersAgree, NoLostWakeup,
                      WriteBlocked, ReadBlocked
<1>10. QED
  BY <1>3, <1>4, <1>5, <1>7, <1>8, <1>9, UnlockKeeps, UnlockSharedKeeps
     DEF Next, Wake, Spurious, Release

-------------------------------------------------------------------------------
(* The inductive invariant holds in every reachable state.                 *)
THEOREM Invariance == Spec => []Inv
BY InvInit, NextPreserves, PTL DEF Spec

(* The state of the lock is well typed, and only sleepers are notified.    *)
THEOREM TypeCorrect == Spec => []TypeOK
<1>1. Inv => TypeOK
  BY DEF Inv
<1>2. QED
  BY <1>1, Invariance, PTL

(* A writer is alone with the lock.                                        *)
THEOREM ExclusionCorrect == Spec => []Exclusion
<1>1. Inv => Exclusion
  BY DEF Inv
<1>2. QED
  BY <1>1, Invariance, PTL

(* The counters never drift from the threads they count.                   *)
THEOREM CountersCorrect == Spec => []CountersAgree
<1>1. Inv => CountersAgree
  BY DEF Inv
<1>2. QED
  BY <1>1, Invariance, PTL

(* Whoever may have the lock has been notified.                            *)
THEOREM WakeupCorrect == Spec => []NoLostWakeup
<1>1. Inv => NoLostWakeup
  BY DEF Inv
<1>2. QED
  BY <1>1, Invariance, PTL

(* No step gives a reader the lock while a writer waits.                   *)
THEOREM HoldingBackCorrect == Spec => ReadersHeldBack
<1>1. ASSUME Inv, [Next]_vars, In("write_wait") # {}, NEW u \in Threads, state'[u] = "reading"
      PROVE  state[u] = "reading"
  <2>1. ReadBlocked
    <3>1. write_cnt # 0
      BY <1>1, Sets, Counting DEF Inv, CountersAgree
    <3>2. QED
      BY <3>1 DEF ReadBlocked
  <2>2. CASE UNCHANGED vars
    BY <1>1, <2>2 DEF vars
  <2>3. ASSUME NEW t \in Threads,
               Lock(t) \/ LockShared(t) \/ TryLock(t) \/ TryLockShared(t)
                 \/ Resume(t) \/ Unlock(t) \/ UnlockShared(t)
        PROVE  state[u] = "reading"
    BY <1>1, <2>1, <2>3
       DEF Inv, TypeOK, Lock, LockShared, TryLock, TryLockShared, Resume, EnterRead,
           EnterWrite, Unlock, UnlockShared
  <2>4. QED
    BY <1>1, <2>2, <2>3 DEF Next, Wake, Spurious, Release
<1>2. Inv /\ [Next]_vars =>
        [In("write_wait") # {} => \A t \in Threads :
           state'[t] = "reading" => state[t] = "reading"]_vars
  BY <1>1
<1>3. QED
  BY <1>2, Invariance, PTL DEF Spec, ReadersHeldBack

-------------------------------------------------------------------------------
(* The refinement.                                                         *)

(* When a thread asks for the lock, it meets what the abstract lock says.  *)
LEMMA Conditions ==
  ASSUME Inv
  PROVE  /\ ~WriteBlocked <=> In("reading") \cup In("writing") = {}
         /\ ~ReadBlocked <=> In("writing") \cup In("write_wait") = {}
<1>1. /\ read_cnt # 0 <=> In("reading") # {}
      /\ write_cnt # 0 <=> In("writing") \cup In("write_wait") # {}
  BY Sets, Counting DEF Inv, CountersAgree
<1>2. QED
  BY <1>1 DEF Inv, CountersAgree, WriteBlocked, ReadBlocked

LEMMA SharedStep ==
  ASSUME Inv, [Next]_vars
  PROVE  [Shared!Next]_Shared!vars
<1> USE DEF Inv
<1>1. ASSUME NEW t \in Threads, state[t] \in {"idle", "write_wait"}, EnterWrite(t)
      PROVE  Shared!AskWrite(t) \/ Shared!GetWrite(t) \/ UNCHANGED Shared!vars
  <2>1. CASE ~WriteBlocked
    <3>1. state' = [state EXCEPT ![t] = "writing"]
      BY <1>1, <2>1 DEF EnterWrite
    <3>2. \A s \in States : In(s)' = IF s = "writing" THEN In(s) \cup {t} ELSE In(s) \ {t}
      BY <3>1, Moving, Sets
    <3>3. /\ In("reading") \cup In("writing") = {}
          /\ In("writing")' = {t}
          /\ In("write_wait")' = In("write_wait") \ {t}
          /\ In("reading")' = In("reading")
      BY <2>1, <3>2, Conditions, Sets
    <3>4. Shared!Apart(t) \/ t \in In("write_wait")
      BY <1>1 DEF Shared!Apart, In
    <3>5. QED
      BY <3>3, <3>4 DEF Shared!GetWrite
  <2>2. CASE WriteBlocked
    <3>1. state' = [state EXCEPT ![t] = "write_wait"]
      BY <1>1, <2>2 DEF EnterWrite
    <3>2. \A s \in States : In(s)' = IF s = "write_wait" THEN In(s) \cup {t} ELSE In(s) \ {t}
      BY <3>1, Moving, Sets
    <3>3. /\ In("reading") \cup In("writing") # {}
          /\ In("writing")' = In("writing")
          /\ In("write_wait")' = In("write_wait") \cup {t}
          /\ In("reading")' = In("reading")
      <4>1. t \notin In("writing") /\ t \notin In("reading")
        BY <1>1 DEF In
      <4>2. QED
        BY <2>2, <3>2, <4>1, Conditions, Sets
    <3>4. CASE state[t] = "idle"
      BY <3>3, <3>4 DEF Shared!AskWrite, Shared!Apart, In
    <3>5. CASE state[t] = "write_wait"
      <4>1. t \in In("write_wait")
        BY <3>5 DEF In
      <4>2. QED
        BY <3>3, <4>1 DEF Shared!vars
    <3>6. QED
      BY <1>1, <3>4, <3>5
  <2>3. QED
    BY <2>1, <2>2
<1>2. ASSUME NEW t \in Threads, state[t] \in {"idle", "read_wait"}, EnterRead(t)
      PROVE  Shared!GetRead(t) \/ UNCHANGED Shared!vars
  <2>1. /\ t \notin In("writing") /\ t \notin In("reading") /\ t \notin In("write_wait")
    BY <1>2 DEF In
  <2>2. CASE ~ReadBlocked
    <3>1. state' = [state EXCEPT ![t] = "reading"]
      BY <1>2, <2>2 DEF EnterRead
    <3>2. \A s \in States : In(s)' = IF s = "reading" THEN In(s) \cup {t} ELSE In(s) \ {t}
      BY <3>1, Moving, Sets
    <3>3. /\ In("writing") \cup In("write_wait") = {}
          /\ In("reading")' = In("reading") \cup {t}
          /\ In("writing")' = In("writing")
          /\ In("write_wait")' = In("write_wait")
      BY <2>1, <2>2, <3>2, Conditions, Sets
    <3>4. QED
      BY <2>1, <3>3 DEF Shared!GetRead, Shared!Apart
  <2>3. CASE ReadBlocked
    <3>1. state' = [state EXCEPT ![t] = "read_wait"]
      BY <1>2, <2>3 DEF EnterRead
    <3>2. \A s \in States : In(s)' = IF s = "read_wait" THEN In(s) \cup {t} ELSE In(s) \ {t}
      BY <3>1, Moving, Sets
    <3>3. QED
      BY <2>1, <3>2, Sets DEF Shared!vars
  <2>4. QED
    BY <2>2, <2>3
<1>3. ASSUME NEW t \in Threads, Release(t) PROVE Shared!Release(t)
  <2>1. state[t] \in {"reading", "writing"} /\ state' = [state EXCEPT ![t] = "idle"]
    BY <1>3 DEF Release, Unlock, UnlockShared
  <2>2. \A s \in States : In(s)' = IF s = "idle" THEN In(s) \cup {t} ELSE In(s) \ {t}
    BY <2>1, Moving, Sets
  <2>3. t \in In("reading") \cup In("writing") /\ t \notin In("write_wait")
    BY <2>1 DEF In
  <2>4. QED
    BY <2>2, <2>3, Sets DEF Shared!Release
<1>4. ASSUME NEW t \in Threads, TryLock(t) PROVE Shared!GetWrite(t)
  <2>1. ~WriteBlocked /\ state[t] = "idle" /\ state' = [state EXCEPT ![t] = "writing"]
    BY <1>4 DEF TryLock
  <2>2. \A s \in States : In(s)' = IF s = "writing" THEN In(s) \cup {t} ELSE In(s) \ {t}
    BY <2>1, Moving, Sets
  <2>3. In("reading") \cup In("writing") = {} /\ t \notin In("write_wait")
    BY <2>1, Conditions DEF In
  <2>4. QED
    BY <2>2, <2>3, Sets DEF Shared!GetWrite, Shared!Apart
<1>5. ASSUME NEW t \in Threads, TryLockShared(t) PROVE Shared!GetRead(t)
  <2>1. ~ReadBlocked /\ state[t] = "idle" /\ state' = [state EXCEPT ![t] = "reading"]
    BY <1>5 DEF TryLockShared
  <2>2. \A s \in States : In(s)' = IF s = "reading" THEN In(s) \cup {t} ELSE In(s) \ {t}
    BY <2>1, Moving, Sets
  <2>3. In("writing") \cup In("write_wait") = {} /\ t \notin In("reading")
    BY <2>1, Conditions DEF In
  <2>4. QED
    BY <2>2, <2>3, Sets DEF Shared!GetRead, Shared!Apart
<1>6. ASSUME NEW t \in Threads, Lock(t) \/ LockShared(t) \/ Wake(t) \/ Spurious(t)
      PROVE  Shared!AskWrite(t) \/ Shared!GetWrite(t) \/ Shared!GetRead(t) \/ UNCHANGED Shared!vars
  BY <1>1, <1>2, <1>6 DEF Lock, LockShared, Wake, Spurious, Resume
<1>7. CASE UNCHANGED vars
  BY <1>7 DEF vars, Shared!vars, In
<1>8. QED
  BY <1>3, <1>4, <1>5, <1>6, <1>7 DEF Next, Shared!Next

(* Every execution of the lock, with any number of threads, is one that    *)
(* SharedLock allows.                                                      *)
THEOREM SharedLockImplemented == Spec => ImplementsSharedLock
<1>1. Init => Shared!Init
  BY DEF Init, Shared!Init, In
<1>2. Inv /\ [Next]_vars => [Shared!Next]_Shared!vars
  BY SharedStep
<1>3. QED
  BY <1>1, <1>2, Invariance, PTL DEF Spec, Shared!Spec, ImplementsSharedLock

===============================================================================
