----------------------------- MODULE MCHashMap -----------------------------
(* Instances of HashMap for TLC: names whose hash keys collide, in the     *)
(* first table, in the larger one, or in both.                             *)
EXTENDS HashMap, TLC

CONSTANTS k1, k2, k3

MCKeys == {k1, k2, k3}
MCHash == k1 :> 0 @@ k2 :> 0 @@ k3 :> 7
=============================================================================
