------------------------------- MODULE ItemPool -------------------------------
(***************************************************************************)
(* What event_queue promises, without lists, priorities, waiting or        *)
(* notification: a pool of items.  An item is offered once, and then is    *)
(* taken by one thread, or dropped; after the pool has closed nothing can  *)
(* be taken any more.                                                      *)
(***************************************************************************)
CONSTANTS Threads, Items

VARIABLES
  open,    \* items are accepted and delivered
  fresh,   \* the items not offered yet
  pool,    \* the items that can be taken
  got      \* the items each thread took

vars == <<open, fresh, pool, got>>

Init ==
  /\ open = TRUE
  /\ fresh = Items
  /\ pool = {}
  /\ got = [t \in Threads |-> {}]

Offer(i) ==
  /\ i \in fresh
  /\ fresh' = fresh \ {i}
  /\ pool' = IF open THEN pool \cup {i} ELSE pool
  /\ UNCHANGED <<open, got>>

Take(t, i) ==
  /\ open
  /\ i \in pool
  /\ pool' = pool \ {i}
  /\ got' = [got EXCEPT ![t] = @ \cup {i}]
  /\ UNCHANGED <<open, fresh>>

Drop(i) ==
  /\ i \in pool
  /\ pool' = pool \ {i}
  /\ UNCHANGED <<open, fresh, got>>

DropAll ==
  /\ pool' = {}
  /\ UNCHANGED <<open, fresh, got>>

Close ==
  /\ open' = FALSE
  /\ pool' = {}
  /\ UNCHANGED <<fresh, got>>

Next ==
  \/ \E i \in Items : Offer(i) \/ Drop(i)
  \/ \E t \in Threads, i \in Items : Take(t, i)
  \/ DropAll
  \/ Close

Spec == Init /\ [][Next]_vars

===============================================================================
