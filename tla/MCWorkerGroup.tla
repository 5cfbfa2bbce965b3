---------------------------- MODULE MCWorkerGroup -----------------------------
(* Two queues, two tasks that call sync_task on each other's queue, a task *)
(* that shrinks the group, managers that grow it and one that adjusts it.  *)
EXTENDS WorkerGroup, TLC

CONSTANTS w1, w2, w3, g, h, m, k1, k2, k3, j1, j2, q1, q2

Two == {<<w1, w2>>}

WantOne == m :> 1

GrowHigh == g :> "high" @@ h :> "high"

QueueMap == k1 :> q1 @@ k3 :> q1 @@ k2 :> q2 @@ j1 :> q2 @@ j2 :> q1

InnerMap == k1 :> j1 @@ k2 :> j2 @@ j2 :> NoTask @@ k3 :> NoTask @@ j1 :> NoTask

===============================================================================
