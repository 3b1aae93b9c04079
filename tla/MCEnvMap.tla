----------------------------- MODULE MCEnvMap -----------------------------
(* Small instances of EnvMap for TLC. *)
EXTENDS EnvMap, TLC

CONSTANTS k1, k2, k3, k4

\* Three keys collide at first, and part when the table grows.
MCHash == k1 :> 2 @@ k2 :> 2 @@ k3 :> 5 @@ k4 :> 4
=============================================================================
