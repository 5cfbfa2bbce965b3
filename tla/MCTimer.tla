-------------------------------- MODULE MCTimer -------------------------------
(* Two starts of one timer and one delayed job.                            *)
EXTENDS Timer, TLC

CONSTANTS s1, s2, o1, t1

OneTimer == s1 :> t1 @@ s2 :> t1

Times == s1 :> 2 @@ s2 :> 1 @@ o1 :> 2

===============================================================================
