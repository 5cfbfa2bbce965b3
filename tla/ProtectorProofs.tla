--------------------------- MODULE ProtectorProofs ----------------------------
(* Theorems about Protector, for any finite set of jobs: it keeps the      *)
(* contract of the lock, so that the theorems about RWLock hold of its     *)
(* lock, and a protected job never meets an object that is being freed.    *)
EXTENDS Protector, FiniteSetTheorems, TLAPS

L == INSTANCE RWLockProofs WITH Threads <- Requests

(* What a job or the destruction does with the lock, by how far it is.     *)
JobLock(k) ==
  /\ phase[k] \in {"none", "posted", "over", "dropped"} => state[k] = "idle"
  /\ phase[k] = "asked" => Protected(k) /\ state[k] \in {"read_wait", "reading"}
  /\ phase[k] = "told" => state[k] \in {"idle", "reading"}
  /\ phase[k] = "leave" => state[k] = "reading"
  /\ phase[k] \in {"job", "sync"} => state[k] = IF Protected(k) THEN "reading" ELSE "idle"

OwnerLock ==
  state[Owner] \in CASE owner = "wait"    -> {"write_wait", "writing"}
                     [] owner = "release" -> {"writing"}
                     [] OTHER             -> {"idle"}

(* Who works on the object has seen the flag, and the flag was taken down  *)
(* before the object goes.                                                 *)
SeenFlag == \A k \in Jobs : Protected(k) /\ phase[k] \in {"job", "sync"} => flag

FlagFirst ==
  /\ owner \in {"release", "free", "freed"} => ~flag
  /\ ~bare /\ (object = "dying" \/ owner = "derived") => ~flag
  /\ object = "freed" => owner = "freed"
  /\ owner = "alive" => object = "whole"

OwnTypes ==
  /\ flag \in BOOLEAN
  /\ queues \in {"open", "invalid", "gone"}
  /\ phase \in [Jobs -> Phases]
  /\ owner \in {"alive", "ask", "wait", "release", "derived", "free", "freed"}
  /\ by \in Requests \cup {NoJob}
  /\ bare \in BOOLEAN
  /\ object \in {"whole", "dying", "freed"}

PInv == OwnTypes /\ (\A k \in Jobs : JobLock(k)) /\ OwnerLock /\ SeenFlag /\ FlagFirst

-------------------------------------------------------------------------------
(* The lock.                                                               *)

LEMMA LockInit == Init => L!Init
BY DEF Init, RW!Init, L!Init

LEMMA LockStep == [Next]_vars => [L!Next]_(L!vars)
<1> USE DEF Requests
<1>1. ASSUME NEW k \in Jobs, JobStep(k) PROVE L!Next \/ UNCHANGED L!vars
  <2>1. CASE Ask(k)
    BY <2>1 DEF Ask, RW!LockShared, RW!EnterRead, RW!ReadBlocked,
                L!Next, L!LockShared, L!EnterRead, L!ReadBlocked
  <2>2. CASE Leave(k)
    BY <2>2 DEF Leave, RW!UnlockShared, RW!NotifyWriter, RW!In,
                L!Next, L!Release, L!UnlockShared, L!NotifyWriter, L!In
  <2>3. CASE RunPlain(k) \/ Look(k) \/ LockFailed(k) \/ Sync(k) \/ Synced(k) \/ EndJob(k)
    BY <2>3 DEF RunPlain, Look, LockFailed, Sync, Synced, EndJob, lockVars, L!vars
  <2>4. QED
    BY <1>1, <2>1, <2>2, <2>3 DEF JobStep
<1>2. ASSUME DestroyStep PROVE L!Next \/ UNCHANGED L!vars
  <2>1. CASE AskWrite
    BY <2>1 DEF AskWrite, RW!Lock, RW!EnterWrite, RW!WriteBlocked,
                L!Next, L!Lock, L!EnterWrite, L!WriteBlocked
  <2>2. CASE ReleaseWrite
    BY <2>2 DEF ReleaseWrite, RW!Unlock, RW!NotifyWriter, RW!NotifyReaders, RW!In,
                L!Next, L!Release, L!Unlock, L!NotifyWriter, L!NotifyReaders, L!In
  <2>3. CASE Revoke \/ DestroyDerived \/ Free
    BY <2>3 DEF Revoke, DestroyDerived, Free, lockVars, L!vars
  <2>4. QED
    BY <1>2, <2>1, <2>2, <2>3 DEF DestroyStep
<1>3. ASSUME NEW r \in Requests, Awake(r) \/ AwakeEarly(r) PROVE L!Next
  BY <1>3 DEF Awake, AwakeEarly, RW!Wake, RW!Spurious, RW!Resume, RW!EnterWrite,
              RW!EnterRead, RW!WriteBlocked, RW!ReadBlocked,
              L!Next, L!Wake, L!Spurious, L!Resume, L!EnterWrite, L!EnterRead,
              L!WriteBlocked, L!ReadBlocked
<1>4. CASE (\E k \in Jobs : Post(k)) \/ (\E b \in Suicidal \cup {Owner} : BeginDestroy(b))
             \/ CloseQueues \/ UNCHANGED vars
  BY <1>4 DEF Post, BeginDestroy, CloseQueues, vars, lockVars, L!vars
<1>5. QED
  BY <1>1, <1>2, <1>3, <1>4 DEF Next

(* The users of the lock keep its contract: they ask for it only when they *)
(* neither hold it nor wait for it, and release what they hold.            *)
THEOREM LockKept == Spec => L!Spec
BY LockInit, LockStep, PTL DEF Spec, L!Spec

LEMMA LockInvariant == Spec => []L!Inv
<1>1. IsFiniteSet(Requests)
  BY JobsAssumption, FS_AddElement DEF Requests
<1>2. L!ThreadsAssumption
  BY <1>1 DEF L!ThreadsAssumption, IsFiniteSet, L!IsFiniteSet
<1>3. L!Spec => []L!Inv
  BY <1>2, L!Invariance, PTL
<1>4. QED
  BY <1>3, LockKept, PTL

(* So to the jobs and the destruction their lock is the abstract one.      *)
THEOREM LockImplemented == Spec => L!ImplementsSharedLock
<1>1. IsFiniteSet(Requests)
  BY JobsAssumption, FS_AddElement DEF Requests
<1>2. L!ThreadsAssumption
  BY <1>1 DEF L!ThreadsAssumption, IsFiniteSet, L!IsFiniteSet
<1>3. L!Spec => L!ImplementsSharedLock
  BY <1>2, L!SharedLockImplemented
<1>4. QED
  BY <1>3, LockKept

-------------------------------------------------------------------------------
(* The invariant, together with that of the lock.                          *)

LEMMA Names == Owner \notin Jobs /\ Jobs \subseteq Requests /\ Owner \in Requests
BY JobsAssumption DEF Requests

(* While the destruction has the lock no protected job is at work.         *)
LEMMA Alone ==
  ASSUME PInv, L!Inv, state[Owner] = "writing", NEW k \in Jobs
  PROVE  state[k] # "reading"
<1>1. Owner \in L!In("writing")
  BY Names DEF L!In
<1>2. L!In("reading") = {}
  BY <1>1 DEF L!Inv, L!Exclusion
<1>3. QED
  BY <1>2, Names DEF L!In

LEMMA PInit == Init => PInv
BY Names DEF Init, RW!Init, PInv, OwnTypes, Phases, JobLock, OwnerLock, SeenFlag, FlagFirst,
             Requests

(* The phase of one job changes, and nothing else.                         *)
LEMMA Moving ==
  ASSUME PInv, L!Inv, NEW k \in Jobs, NEW to \in Phases, phase' = [phase EXCEPT ![k] = to],
         UNCHANGED <<lockVars, queues, destruction>>,
         to \in {"posted", "over", "dropped"} => state[k] = "idle",
         to = "told" => state[k] \in {"idle", "reading"},
         to = "leave" => state[k] = "reading",
         to = "job" => state[k] = (IF Protected(k) THEN "reading" ELSE "idle")
                       /\ (Protected(k) => flag),
         to \in {"posted", "told", "job", "leave", "over", "dropped"}
  PROVE  PInv'
<1>1. \A j \in Jobs : JobLock(j)'
  BY DEF PInv, OwnTypes, JobLock, lockVars, Protected
<1>2. OwnTypes' /\ OwnerLock' /\ FlagFirst'
  BY DEF PInv, OwnTypes, OwnerLock, FlagFirst, lockVars, destruction
<1>3. SeenFlag'
  BY DEF PInv, OwnTypes, SeenFlag, Protected, destruction
<1>4. QED
  BY <1>1, <1>2, <1>3 DEF PInv

LEMMA JobKeeps ==
  ASSUME PInv, L!Inv, NEW k \in Jobs, JobStep(k) \/ Post(k)
  PROVE  PInv'
<1>0. state \in [Requests -> L!States]
  BY DEF L!Inv, L!TypeOK
<1> USE Names
<1>1. CASE Post(k)
  <2>1. PICK to \in {"posted", "told", "dropped"} : Goes(k, "none", to)
    <3>1. CASE queues = "open"
      BY <1>1, <3>1 DEF Post, Goes
    <3>2. CASE queues # "open"
      <4>1. queues = "gone" /\ Kind[k] = "()" => Goes(k, "none", "told")
        BY <1>1, <3>2, Zenon DEF Post
      <4>2. ~(queues = "gone" /\ Kind[k] = "()") => Goes(k, "none", "dropped")
        BY <1>1, <3>2, Zenon DEF Post
      <4>3. QED
        BY <4>1, <4>2
    <3>3. QED
      BY <3>1, <3>2
  <2>2. UNCHANGED <<lockVars, queues, destruction>>
    BY <1>1 DEF Post
  <2>3. QED
    BY <2>1, <2>2, Moving DEF Goes, Phases, PInv, JobLock
<1>2. CASE RunPlain(k)
  BY <1>2, Moving DEF RunPlain, Goes, Phases, PInv, JobLock
<1>3. CASE Look(k)
  <2>1. PICK to \in {"job", "told", "leave"} : Goes(k, "asked", to) /\ (to = "job" => flag)
    BY <1>3 DEF Look
  <2>2. QED
    BY <1>3, <2>1, Moving DEF Look, Goes, Phases, PInv, JobLock
<1>4. CASE LockFailed(k)
  <2>1. PICK to \in {"leave", "over"} :
          Goes(k, "told", to) /\ (to = "leave" <=> state[k] = "reading")
    BY <1>4 DEF LockFailed
  <2>2. QED
    BY <1>4, <2>1, Moving DEF LockFailed, Goes, Phases, PInv, JobLock
<1>5. CASE Synced(k)
  BY <1>5, Moving DEF Synced, Goes, Phases, PInv, JobLock, SeenFlag
<1>6. CASE EndJob(k)
  <2>1. PICK to \in {"leave", "over"} : Goes(k, "job", to) /\ (to = "leave" <=> Protected(k))
    BY <1>6 DEF EndJob
  <2>2. QED
    BY <1>6, <2>1, Moving DEF EndJob, Goes, Phases, PInv, JobLock
<1>7. CASE Sync(k)
  <2>1. Inner[k] \in Jobs /\ Inner[k] # k
    BY <1>7, JobsAssumption DEF Sync, Outer
  <2>2. PICK to \in {"posted", "dropped"} :
          phase' = [phase EXCEPT ![k] = "sync", ![Inner[k]] = to]
    BY <1>7 DEF Sync
  <2>3. /\ phase[k] = "job" /\ phase[Inner[k]] = "none"
        /\ UNCHANGED <<lockVars, queues, destruction>>
    BY <1>7 DEF Sync
  <2>4. \A j \in Jobs : JobLock(j)'
    BY <2>1, <2>2, <2>3 DEF PInv, OwnTypes, JobLock, lockVars, Protected
  <2>5. OwnTypes' /\ OwnerLock' /\ FlagFirst'
    BY <2>1, <2>2, <2>3 DEF PInv, OwnTypes, OwnerLock, FlagFirst, lockVars, destruction, Phases
  <2>6. SeenFlag'
    BY <2>1, <2>2, <2>3 DEF PInv, OwnTypes, SeenFlag, Protected, destruction
  <2>7. QED
    BY <2>4, <2>5, <2>6 DEF PInv
<1>8. CASE Ask(k) \/ Leave(k)
  <2>1. PICK to \in {"asked", "over"} :
          /\ phase' = [phase EXCEPT ![k] = to]
          /\ to = "asked" => Protected(k)
    BY <1>8 DEF Ask, Leave, Goes
  <2>2. PICK s \in {"idle", "reading", "read_wait"} :
          /\ state' = [state EXCEPT ![k] = s]
          /\ s = "idle" <=> to = "over"
    BY <1>8, <2>1 DEF Ask, Leave, Goes, RW!LockShared, RW!EnterRead, RW!UnlockShared, PInv, OwnTypes
  <2>3. UNCHANGED <<queues, destruction>>
    BY <1>8 DEF Ask, Leave
  <2>4. \A j \in Jobs : JobLock(j)'
    BY <1>0, <2>1, <2>2 DEF PInv, OwnTypes, JobLock, Protected
  <2>5. OwnTypes' /\ OwnerLock' /\ FlagFirst'
    BY <1>0, <2>1, <2>2, <2>3 DEF PInv, OwnTypes, OwnerLock, FlagFirst, destruction, Phases
  <2>6. SeenFlag'
    BY <2>1, <2>3 DEF PInv, OwnTypes, SeenFlag, Protected, destruction
  <2>7. QED
    BY <2>4, <2>5, <2>6 DEF PInv
<1>9. QED
  BY <1>1, <1>2, <1>3, <1>4, <1>5, <1>6, <1>7, <1>8 DEF JobStep

(* The lock is given to one who waits for it.                              *)
LEMMA AwakeKeeps ==
  ASSUME PInv, L!Inv, NEW r \in Requests, Awake(r) \/ AwakeEarly(r)
  PROVE  PInv'
<1> USE Names
<1>0. state \in [Requests -> L!States]
  BY DEF L!Inv, L!TypeOK
<1>1. UNCHANGED <<queues, phase, destruction>>
  BY DEF Awake, AwakeEarly
<1>2. PICK s \in {"reading", "writing", "read_wait", "write_wait"} :
        /\ state' = [state EXCEPT ![r] = s]
        /\ \/ state[r] = "write_wait" /\ s \in {"write_wait", "writing"}
           \/ state[r] = "read_wait" /\ s \in {"read_wait", "reading"}
  BY DEF Awake, AwakeEarly, RW!Wake, RW!Spurious, RW!Resume, RW!EnterRead, RW!EnterWrite
<1>3. \A j \in Jobs : JobLock(j)'
  BY <1>0, <1>1, <1>2 DEF PInv, OwnTypes, Phases, JobLock, Protected
<1>4. OwnTypes' /\ SeenFlag' /\ FlagFirst'
  BY <1>1 DEF PInv, OwnTypes, FlagFirst, SeenFlag, Protected, destruction
<1>5. OwnerLock'
  BY <1>0, <1>1, <1>2 DEF PInv, OwnTypes, OwnerLock, destruction
<1>6. QED
  BY <1>3, <1>4, <1>5 DEF PInv

LEMMA DestroyKeeps ==
  ASSUME PInv, L!Inv, DestroyStep \/ \E b \in Suicidal \cup {Owner} : BeginDestroy(b)
  PROVE  PInv'
<1> USE Names
<1>0. state \in [Requests -> L!States]
  BY DEF L!Inv, L!TypeOK
<1>1. UNCHANGED <<queues, phase>>
  BY DEF DestroyStep, AskWrite, Revoke, ReleaseWrite, DestroyDerived, Free, BeginDestroy
<1>2. \A k \in Jobs : state'[k] = state[k]
  BY <1>0 DEF DestroyStep, AskWrite, Revoke, ReleaseWrite, DestroyDerived, Free, BeginDestroy,
              lockVars, RW!Lock, RW!EnterWrite, RW!Unlock
<1>3. \A k \in Jobs : JobLock(k)'
  BY <1>1, <1>2 DEF PInv, JobLock, Protected
<1>4. CASE AskWrite
  <2>1. OwnerLock'
    BY <1>0, <1>4 DEF AskWrite, RW!Lock, RW!EnterWrite, OwnerLock
  <2>2. OwnTypes' /\ SeenFlag' /\ FlagFirst'
    BY <1>4 DEF AskWrite, PInv, OwnTypes, SeenFlag, FlagFirst, Protected
  <2>3. QED
    BY <1>3, <2>1, <2>2 DEF PInv
<1>5. CASE Revoke
  <2>1. OwnerLock'
    BY <1>5 DEF Revoke, lockVars, OwnerLock
  <2>2. OwnTypes' /\ FlagFirst'
    BY <1>5 DEF Revoke, PInv, OwnTypes, FlagFirst
  <2>3. SeenFlag'
    BY <1>1, <1>5, Alone DEF Revoke, PInv, SeenFlag, JobLock, Protected
  <2>4. QED
    BY <1>3, <2>1, <2>2, <2>3 DEF PInv
<1>6. CASE ReleaseWrite
  <2>1. OwnerLock'
    BY <1>0, <1>6 DEF ReleaseWrite, RW!Unlock, OwnerLock
  <2>2. OwnTypes' /\ SeenFlag' /\ FlagFirst'
    BY <1>6 DEF ReleaseWrite, PInv, OwnTypes, SeenFlag, FlagFirst, Protected
  <2>3. QED
    BY <1>3, <2>1, <2>2 DEF PInv
<1>7. CASE DestroyDerived \/ Free
  <2>1. OwnerLock'
    BY <1>7 DEF DestroyDerived, Free, lockVars, PInv, OwnerLock
  <2>2. OwnTypes' /\ SeenFlag' /\ FlagFirst'
    BY <1>7 DEF DestroyDerived, Free, PInv, OwnTypes, SeenFlag, FlagFirst, Protected
  <2>3. QED
    BY <1>3, <2>1, <2>2 DEF PInv
<1>8. ASSUME NEW b \in Suicidal \cup {Owner}, BeginDestroy(b) PROVE PInv'
  <2>1. OwnerLock'
    BY <1>8 DEF BeginDestroy, lockVars, PInv, OwnerLock
  <2>2. b \in Requests
    BY JobsAssumption DEF Outer
  <2>3. OwnTypes' /\ SeenFlag' /\ FlagFirst'
    BY <1>8, <2>2 DEF BeginDestroy, PInv, OwnTypes, SeenFlag, FlagFirst, Protected
  <2>4. QED
    BY <1>3, <2>1, <2>3 DEF PInv
<1>9. QED
  BY <1>4, <1>5, <1>6, <1>7, <1>8 DEF DestroyStep

LEMMA PNext == PInv /\ L!Inv /\ [Next]_vars => PInv'
<1> SUFFICES ASSUME PInv, L!Inv, [Next]_vars PROVE PInv'
  OBVIOUS
<1>1. CASE CloseQueues
  BY <1>1 DEF CloseQueues, PInv, OwnTypes, JobLock, OwnerLock, SeenFlag, FlagFirst, Phases,
              Protected, lockVars, destruction
<1>2. CASE UNCHANGED vars
  BY <1>2 DEF vars, PInv, OwnTypes, JobLock, OwnerLock, SeenFlag, FlagFirst, Protected,
              lockVars, destruction
<1>3. QED
  BY <1>1, <1>2, JobKeeps, AwakeKeeps, DestroyKeeps DEF Next

THEOREM Invariance == Spec => [](PInv /\ L!Inv)
BY PInit, PNext, LockInvariant, PTL DEF Spec

(* The state is well typed, for any finite set of jobs.                    *)
THEOREM TypeCorrect == Spec => []TypeOK
<1>1. L!Inv => RW!TypeOK
  BY DEF L!Inv, L!TypeOK, L!States, L!In, RW!TypeOK, RW!States, RW!In
<1>2. PInv /\ L!Inv => TypeOK
  BY <1>1 DEF PInv, OwnTypes, TypeOK
<1>3. QED
  BY <1>2, Invariance, PTL

(* A protected job never meets an object that is being destroyed, or only  *)
(* where the derived destructor does not call destroy_protection, and      *)
(* never freed memory: for any jobs, nested and suicidal ones among them.  *)
THEOREM WholeCorrect == Spec => []WholeInJobs
<1>1. PInv => WholeInJobs
  BY DEF PInv, OwnTypes, SeenFlag, FlagFirst, WholeInJobs
<1>2. QED
  BY <1>1, Invariance, PTL

-------------------------------------------------------------------------------
(* The rings of the lock.                                                  *)

(* A job that destroys the object is busy with it until it is freed; a job *)
(* that waits in sync_task waits for its inner job.                        *)
InDestruction ==
  /\ owner = "alive" => by \notin Jobs
  /\ by \in Jobs => by \in Suicidal /\ (phase[by] = "job" \/ object = "freed")

InSync == \A k \in Jobs : phase[k] = "sync" => Inner[k] \in Jobs

LEMMA SyncNext == PInv /\ InSync /\ [Next]_vars => InSync'
<1> SUFFICES ASSUME PInv, InSync, [Next]_vars PROVE InSync'
  OBVIOUS
<1> USE DEF InSync
<1>0. \A j \in Jobs : \A from, to : Goes(j, from, to) =>
        \A i \in Jobs : phase'[i] = IF i = j THEN to ELSE phase[i]
  BY DEF Goes, PInv, OwnTypes
<1>1. ASSUME NEW j \in Jobs, Post(j) PROVE InSync'
  BY <1>0, <1>1 DEF Post
<1>2. ASSUME NEW j \in Jobs, JobStep(j) PROVE InSync'
  <2>1. CASE Sync(j)
    BY <2>1, JobsAssumption DEF Sync, PInv, OwnTypes
  <2>2. CASE Ask(j) \/ RunPlain(j) \/ Look(j) \/ LockFailed(j)
    BY <1>0, <2>2 DEF Ask, RunPlain, Look, LockFailed
  <2>3. CASE Synced(j) \/ EndJob(j) \/ Leave(j)
    BY <1>0, <2>3 DEF Synced, EndJob, Leave
  <2>4. QED
    BY <1>2, <2>1, <2>2, <2>3 DEF JobStep
<1>3. CASE CloseQueues
  BY <1>3 DEF CloseQueues
<1>4. CASE UNCHANGED phase
  BY <1>4
<1>5. QED
  BY <1>1, <1>2, <1>3, <1>4
     DEF Next, DestroyStep, AskWrite, Revoke, ReleaseWrite, DestroyDerived, Free, BeginDestroy,
         Awake, AwakeEarly, vars

LEMMA DestructionNext == PInv /\ InDestruction /\ [Next]_vars => InDestruction'
<1> SUFFICES ASSUME PInv, InDestruction, [Next]_vars PROVE InDestruction'
  OBVIOUS
<1> USE Names DEF InDestruction
<1>0. \A j \in Jobs : \A from, to : Goes(j, from, to) =>
        phase[j] = from /\ \A i \in Jobs \ {j} : phase'[i] = phase[i]
  BY DEF Goes, PInv, OwnTypes
<1>1. ASSUME NEW j \in Jobs, Post(j) \/ JobStep(j) PROVE InDestruction'
  <2>1. UNCHANGED destruction
    BY <1>1 DEF Post, JobStep, Ask, RunPlain, Look, LockFailed, Sync, Synced, EndJob, Leave
  <2>2. ASSUME by \in Jobs, phase[by] = "job", object # "freed" PROVE phase'[by] = "job"
    <3>1. CASE Post(j)
      BY <1>0, <2>2, <3>1 DEF Post
    <3>2. CASE Ask(j) \/ RunPlain(j) \/ Look(j) \/ LockFailed(j) \/ Synced(j) \/ Leave(j)
      BY <1>0, <2>2, <3>2 DEF Ask, RunPlain, Look, LockFailed, Synced, Leave
    <3>3. CASE EndJob(j)
      BY <1>0, <2>2, <3>3 DEF EndJob
    <3>4. CASE Sync(j)
      <4>1. Inner[by] = NoJob /\ by \in Outer
        BY <2>2, JobsAssumption
      <4>2. j # by /\ Inner[j] # by
        BY <3>4, <4>1 DEF Sync, Outer
      <4>3. QED
        BY <2>2, <3>4, <4>2 DEF Sync, PInv, OwnTypes
    <3>5. QED
      BY <1>1, <3>1, <3>2, <3>3, <3>4 DEF JobStep
  <2>3. QED
    BY <2>1, <2>2 DEF destruction
<1>2. ASSUME NEW b \in Suicidal \cup {Owner}, BeginDestroy(b) PROVE InDestruction'
  BY <1>2 DEF BeginDestroy
<1>3. CASE DestroyStep
  BY <1>3 DEF DestroyStep, AskWrite, Revoke, ReleaseWrite, DestroyDerived, Free, PInv, FlagFirst
<1>4. CASE CloseQueues
  BY <1>4 DEF CloseQueues, destruction, PInv, OwnTypes
<1>5. CASE (\E r \in Requests : Awake(r) \/ AwakeEarly(r)) \/ UNCHANGED vars
  BY <1>5 DEF Awake, AwakeEarly, vars, destruction
<1>6. QED
  BY <1>1, <1>2, <1>3, <1>4, <1>5 DEF Next

LEMMA DestructionInvariance == Spec => [](InDestruction /\ InSync)
<1>1. Init => InDestruction /\ InSync
  BY JobsAssumption DEF Init, InDestruction, InSync, Requests
<1>2. QED
  BY <1>1, DestructionNext, SyncNext, Invariance, PTL DEF Spec

(* While a reader is at work no writer gets the lock, and while a writer   *)
(* waits no reader does.                                                   *)
LEMMA Blocked ==
  ASSUME L!Inv
  PROVE  /\ (\E r \in Requests : state[r] = "reading") => RW!WriteBlocked
         /\ (\E r \in Requests : state[r] = "write_wait") => RW!ReadBlocked
<1>1. IsFiniteSet(Requests)
  BY JobsAssumption, FS_AddElement DEF Requests
<1>2. \A S \in SUBSET Requests : S # {} => Cardinality(S) # 0
  BY <1>1, FS_Subset, FS_EmptySet
<1>3. L!In("reading") \in SUBSET Requests /\ L!In("writing") \cup L!In("write_wait") \in SUBSET Requests
  BY DEF L!In
<1>4. /\ L!In("reading") # {} => read_cnt # 0
      /\ L!In("write_wait") # {} => write_cnt # 0
  BY <1>2, <1>3 DEF L!Inv, L!CountersAgree, Cardinality, L!Cardinality
<1>5. QED
  BY <1>4 DEF L!In, RW!WriteBlocked, RW!ReadBlocked

RingOf(k) ==
  /\ state[Owner] = "write_wait"
  /\ state[k] = "reading"
  /\ by = k \/ (phase[k] = "sync" /\ state[Inner[k]] = "read_wait")

LEMMA RingNext ==
  ASSUME PInv, L!Inv, InDestruction, InSync, NEW k \in Jobs, RingOf(k), [Next]_vars
  PROVE  RingOf(k)'
<1> USE Names
<1>0. /\ state \in [Requests -> L!States]
      /\ state[Owner] = "write_wait"
      /\ state[k] = "reading"
      /\ phase \in [Jobs -> Phases]
  BY DEF L!Inv, L!TypeOK, RingOf, PInv, OwnTypes
<1>1. RW!WriteBlocked /\ RW!ReadBlocked
  BY <1>0, Blocked
<1>2. owner = "wait" /\ object # "freed"
  BY <1>0 DEF PInv, OwnTypes, OwnerLock, FlagFirst
<1>3. by = k => phase[k] = "job" /\ Inner[k] = NoJob
  BY <1>2, JobsAssumption DEF InDestruction
<1>4. by # k => /\ phase[k] = "sync"
                /\ Inner[k] \in Jobs
                /\ Inner[k] # k
                /\ phase[Inner[k]] = "asked"
                /\ state[Inner[k]] = "read_wait"
  <2>1. SUFFICES ASSUME by # k PROVE /\ phase[k] = "sync"
                                     /\ Inner[k] \in Jobs
                                     /\ Inner[k] # k
                                     /\ phase[Inner[k]] = "asked"
                                     /\ state[Inner[k]] = "read_wait"
    OBVIOUS
  <2>2. phase[k] = "sync" /\ state[Inner[k]] = "read_wait" /\ Inner[k] \in Jobs
    BY <2>1 DEF RingOf, InSync
  <2>3. JobLock(Inner[k]) /\ phase[Inner[k]] \in Phases
    BY <1>0, <2>2 DEF PInv
  <2>4. QED
    BY <1>0, <2>2, <2>3 DEF JobLock, Phases
<1>5. ASSUME by' = by,
             state'[Owner] = state[Owner],
             state'[k] = state[k],
             by # k => phase'[k] = phase[k] /\ state'[Inner[k]] = state[Inner[k]]
      PROVE  RingOf(k)'
  BY <1>5 DEF RingOf
<1>6. ASSUME NEW j \in Jobs, Post(j) \/ JobStep(j) PROVE RingOf(k)'
  <2>0. \A from, to : Goes(j, from, to) => phase[j] = from /\ \A i \in Jobs \ {j} : phase'[i] = phase[i]
    BY <1>0 DEF Goes
  <2>1. by' = by
    BY <1>6 DEF Post, JobStep, Ask, RunPlain, Look, LockFailed, Sync, Synced, EndJob, Leave, destruction
  <2>2. CASE Post(j) \/ RunPlain(j) \/ Look(j) \/ LockFailed(j) \/ EndJob(j)
    <3>1. UNCHANGED state
      BY <2>2 DEF Post, RunPlain, Look, LockFailed, EndJob, lockVars
    <3>2. by # k => phase'[k] = phase[k]
      BY <1>4, <2>0, <2>2 DEF Post, RunPlain, Look, LockFailed, EndJob
    <3>3. QED
      BY <1>5, <2>1, <3>1, <3>2
  <2>3. CASE Synced(j)
    <3>1. UNCHANGED state
      BY <2>3 DEF Synced, lockVars
    <3>2. by # k => j # k
      BY <1>4, <2>3 DEF Synced
    <3>3. QED
      BY <1>5, <2>0, <2>1, <2>3, <3>1, <3>2 DEF Synced
  <2>4. CASE Sync(j)
    <3>1. UNCHANGED state /\ phase[j] = "job" /\ phase[Inner[j]] = "none"
      BY <2>4 DEF Sync, lockVars
    <3>2. by # k => phase'[k] = phase[k]
      BY <1>0, <1>4, <2>4, <3>1 DEF Sync
    <3>3. QED
      BY <1>5, <2>1, <3>1, <3>2
  <2>5. CASE Ask(j) \/ Leave(j)
    <3>1. /\ phase[j] \in {"posted", "leave"}
          /\ \A i \in Jobs \ {j} : phase'[i] = phase[i]
          /\ \A r \in Requests \ {j} : state'[r] = state[r]
      BY <1>0, <2>0, <2>5 DEF Ask, Leave, RW!LockShared, RW!EnterRead, RW!UnlockShared
    <3>2. CASE by = k
      BY <1>3, <1>5, <2>1, <3>1, <3>2
    <3>3. CASE by # k
      BY <1>4, <1>5, <2>1, <3>1, <3>3
    <3>4. QED
      BY <3>2, <3>3
  <2>6. QED
    BY <1>6, <2>2, <2>3, <2>4, <2>5 DEF JobStep
<1>7. ASSUME NEW r \in Requests, Awake(r) \/ AwakeEarly(r) PROVE RingOf(k)'
  <2>1. RW!Resume(r) /\ UNCHANGED <<phase, by>>
    BY <1>7 DEF Awake, AwakeEarly, RW!Wake, RW!Spurious, destruction
  <2>2. UNCHANGED state
    BY <1>0, <1>1, <2>1 DEF RW!Resume, RW!EnterWrite, RW!EnterRead
  <2>3. QED
    BY <1>5, <2>1, <2>2
<1>8. ASSUME NEW b \in Suicidal \cup {Owner}, BeginDestroy(b) PROVE RingOf(k)'
  BY <1>2, <1>8 DEF BeginDestroy
<1>9. CASE DestroyStep
  BY <1>0, <1>2, <1>9 DEF DestroyStep, AskWrite, Revoke, ReleaseWrite, DestroyDerived, Free
<1>10. CASE CloseQueues
  <2>1. UNCHANGED <<state, by>>
    BY <1>10 DEF CloseQueues, lockVars, destruction
  <2>2. by # k => phase'[k] = phase[k]
    BY <1>4, <1>10 DEF CloseQueues
  <2>3. QED
    BY <1>5, <2>1, <2>2
<1>11. CASE UNCHANGED vars
  BY <1>5, <1>11 DEF vars, lockVars, destruction
<1>12. QED
  BY <1>6, <1>7, <1>8, <1>9, <1>10, <1>11 DEF Next

(* A ring of the lock is for good: what DestroyReturns and JobsReturn      *)
(* excuse with Deadlocked never ends.                                      *)
THEOREM DeadlockStays == Spec => [][Deadlocked => Deadlocked']_vars
<1>1. Deadlocked <=> \E k \in Jobs : RingOf(k)
  BY DEF Deadlocked, RingOf
<1>2. PInv /\ L!Inv /\ InDestruction /\ InSync /\ [Next]_vars =>
        ((\E k \in Jobs : RingOf(k)) => (\E k \in Jobs : RingOf(k))')
  BY RingNext
<1>3. PInv /\ L!Inv /\ InDestruction /\ InSync /\ [Next]_vars => [Deadlocked => Deadlocked']_vars
  BY <1>2 DEF Deadlocked, RingOf
<1>4. QED
  BY <1>3, Invariance, DestructionInvariance, PTL DEF Spec

(* There is no such ring where no protected job calls sync_task and only   *)
(* jobs that are posted with <<= destroy the object.                       *)
THEOREM PlainJobsNeverDeadlock ==
  ASSUME \A k \in Jobs : Protected(k) => Inner[k] = NoJob,
         \A k \in Suicidal : ~Protected(k)
  PROVE  Spec => []~Deadlocked
<1>1. PInv /\ L!Inv /\ InDestruction /\ InSync => ~Deadlocked
  <2> SUFFICES ASSUME PInv, L!Inv, InDestruction, InSync, NEW k \in Jobs, RingOf(k) PROVE FALSE
    BY DEF Deadlocked, RingOf
  <2>1. JobLock(k) /\ phase[k] \in Phases /\ state[k] = "reading"
    BY DEF PInv, OwnTypes, RingOf
  <2>2. object # "freed"
    BY DEF PInv, OwnTypes, OwnerLock, FlagFirst, RingOf
  <2>3. phase[k] \in {"job", "sync"}
    BY <2>2 DEF RingOf, InDestruction
  <2>4. Protected(k)
    BY <2>1, <2>3 DEF JobLock
  <2>5. by # k
    BY <2>4 DEF InDestruction
  <2>6. QED
    BY <2>4, <2>5, JobsAssumption, Names DEF RingOf, InSync, Requests
<1>2. QED
  BY <1>1, Invariance, DestructionInvariance, PTL DEF Spec

===============================================================================
