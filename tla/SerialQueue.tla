------------------------------ MODULE SerialQueue -----------------------------
(***************************************************************************)
(* What task_queue promises, without event queue, workers or locks: the    *)
(* tasks posted wait in a backlog and run one at a time in the order they  *)
(* were posted.  Tasks may be discarded from either end of the backlog.    *)
(***************************************************************************)
EXTENDS Integers, Sequences

CONSTANTS Tasks, NoTask

VARIABLES
  fresh,    \* the tasks nobody posted yet
  backlog,  \* the accepted tasks that wait, in order
  active    \* the task that runs

vars == <<fresh, backlog, active>>

Init ==
  /\ fresh = Tasks
  /\ backlog = <<>>
  /\ active = NoTask

Post(k) ==
  /\ k \in fresh
  /\ fresh' = fresh \ {k}
  /\ backlog' \in {backlog, Append(backlog, k)}
  /\ UNCHANGED active

Begin ==
  /\ active = NoTask
  /\ backlog # <<>>
  /\ active' = Head(backlog)
  /\ backlog' = Tail(backlog)
  /\ UNCHANGED fresh

End ==
  /\ active # NoTask
  /\ active' = NoTask
  /\ UNCHANGED <<fresh, backlog>>

Discard ==
  /\ \E m, n \in 0..Len(backlog) : backlog' = SubSeq(backlog, m + 1, n)
  /\ UNCHANGED <<fresh, active>>

Next ==
  \/ \E k \in Tasks : Post(k)
  \/ Begin
  \/ End
  \/ Discard

Spec == Init /\ [][Next]_vars

===============================================================================
