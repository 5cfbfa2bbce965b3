----------------------------- MODULE MCEventQueue -----------------------------
(* Small instances of EventQueue for TLC.                                  *)
EXTENDS EventQueue, TLC

(* The threads that may be stopped are all or none of them in the runs     *)
(* that use this, so threads are interchangeable, and so are items.        *)
Symmetric == Permutations(Threads) \cup Permutations(Items)

===============================================================================
