----------------------------- MODULE MCProtector ------------------------------
(* A job with an inner one, one that may destroy the object, one that is   *)
(* not protected.                                                          *)
EXTENDS Protector, TLC

CONSTANTS k1, k2, k3, j1

KindMap == k1 :> "<<" @@ k2 :> "()" @@ k3 :> "<<=" @@ j1 :> ">>"

InnerMap == k1 :> j1 @@ k2 :> NoJob @@ k3 :> NoJob @@ j1 :> NoJob

===============================================================================
