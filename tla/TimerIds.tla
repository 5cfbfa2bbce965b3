-------------------------------- MODULE TimerIds ------------------------------
(***************************************************************************)
(* The ids of timer jobs (add_next_job and remove_unfired_job in           *)
(* src/src/task_timer.cc).  An id is drawn from a static counter that no   *)
(* lock guards, so reading it and writing it back are two steps; then the  *)
(* job is queued under cv_l_.  once_after returns the id, and cancel_once  *)
(* removes a job that has it.                                              *)
(*                                                                         *)
(* Time is left out: the timer thread may take any queued job.  It draws   *)
(* a new id each time it queues a periodic job again, which nobody learns. *)
(***************************************************************************)
EXTENDS Integers, FiniteSets

CONSTANTS
  Onces,    \* the delayed jobs, each queued by a caller of its own
  Repeats,  \* the periodic jobs
  MaxIds    \* bound: the values of the counter

Jobs == Onces \cup Repeats

ASSUME JobsAssumption == Onces \cap Repeats = {} /\ MaxIds \in Nat

VARIABLES
  nextId,  \* s_timer_job_id
  job,     \* where each job is
  id,      \* the id drawn for it last
  raced    \* two threads have used the counter at the same time

vars == <<nextId, job, id, raced>>

(* new: nobody added it;  adding: its caller has read the id and not yet   *)
(* queued it;  held: the timer thread has it and will queue it again;      *)
(* again: the thread has read the id for that;  over: posted for the last  *)
(* time, or cancelled.                                                     *)
Places == {"new", "adding", "queued", "held", "again", "over"}

TypeOK ==
  /\ nextId \in Nat
  /\ job \in [Jobs -> Places]
  /\ id \in [Jobs -> Nat]
  /\ raced \in BOOLEAN

Init ==
  /\ nextId = 0
  /\ job = [j \in Jobs |-> "new"]
  /\ id = [j \in Jobs |-> 0]
  /\ raced = FALSE

(* The id of j is read and the counter not yet written.                    *)
Drawn(j) == job[j] \in {"adding", "again"}

(* uint64_t jid = s_timer_job_id++, its first half.                        *)
Draw(j) ==
  /\ job[j] \in {"new", "held"}
  /\ nextId < MaxIds
  /\ id' = [id EXCEPT ![j] = nextId]
  /\ job' = [job EXCEPT ![j] = IF job[j] = "new" THEN "adding" ELSE "again"]
  /\ raced' = (raced \/ \E k \in Jobs : Drawn(k))
  /\ UNCHANGED nextId

(* Its second half, and the insertion.                                     *)
Insert(j) ==
  /\ Drawn(j)
  /\ nextId' = id[j] + 1
  /\ job' = [job EXCEPT ![j] = "queued"]
  /\ UNCHANGED <<id, raced>>

(* The timer thread takes a job, if it has not one in hand already.  A     *)
(* periodic job goes on unless its timer was stopped.                      *)
Fire(j) ==
  /\ job[j] = "queued"
  /\ \A k \in Repeats : job[k] \notin {"held", "again"}
  /\ \/ j \in Repeats /\ job' = [job EXCEPT ![j] = "held"]
     \/ job' = [job EXCEPT ![j] = "over"]
  /\ UNCHANGED <<nextId, id, raced>>

(* Mutant of Matches: any job that is not younger.                         *)
MatchesOlder(j, o) == id[j] <= id[o]

(* priority_job::match.                                                    *)
Matches(j, o) == id[j] = id[o]

(* cancel_once with the id returned for o: the first match in the heap, of *)
(* which any may be the first.                                             *)
CancelOnce(o) ==
  /\ job[o] \in {"queued", "over"}
  /\ \E j \in Jobs :
       /\ job[j] = "queued" /\ Matches(j, o)
       /\ job' = [job EXCEPT ![j] = "over"]
  /\ UNCHANGED <<nextId, id, raced>>

Next ==
  \/ \E j \in Jobs : Draw(j) \/ Insert(j) \/ Fire(j)
  \/ \E o \in Onces : CancelOnce(o)

Spec == Init /\ [][Next]_vars

-------------------------------------------------------------------------------
(* Jobs that wait have ids of their own, and the counter is past them,     *)
(* unless two threads once drew at the same time.  After that the counter  *)
(* may fall back behind ids that are in use.                               *)
IdsUnique ==
  ~raced => \A j \in Jobs : job[j] # "new" /\ ~Drawn(j) =>
    /\ id[j] < nextId
    /\ \A k \in Jobs \ {j} : job[k] # "new" => id[k] # id[j]

(* cancel_once removes the job it was given the id of, or nothing: even a  *)
(* late call, when that job has fired and periodic jobs were queued again, *)
(* never stops another job, unless two threads once drew at the same time. *)
CancelHitsOwn ==
  [][\A o \in Onces : CancelOnce(o) => raced \/ (job[o] = "queued" /\ job'[o] = "over")]_vars

===============================================================================
