----------------------------- MODULE WorkerService ----------------------------
(***************************************************************************)
(* What a worker promises, without system threads, flags or locks: between *)
(* start and stop it runs tasks, one at a time.  Once a stop is under way  *)
(* it begins no task, and the stop is over when none runs.                 *)
(***************************************************************************)
VARIABLES
  stage,  \* rest;  serving;  stopping
  busy    \* it runs a task

vars == <<stage, busy>>

Init == stage \in {"rest", "serving"} /\ busy = FALSE

Start ==
  /\ stage = "rest"
  /\ stage' = "serving"
  /\ UNCHANGED busy

Begin ==
  /\ stage = "serving"
  /\ ~busy
  /\ busy' = TRUE
  /\ UNCHANGED stage

End ==
  /\ busy
  /\ busy' = FALSE
  /\ UNCHANGED stage

Stop ==
  /\ stage = "serving"
  /\ stage' = "stopping"
  /\ UNCHANGED busy

(* A stop that finds the worker without a task may be a single step.       *)
Rest ==
  /\ stage # "rest"
  /\ ~busy
  /\ stage' = "rest"
  /\ UNCHANGED busy

Next == Start \/ Begin \/ End \/ Stop \/ Rest

Spec == Init /\ [][Next]_vars

===============================================================================
