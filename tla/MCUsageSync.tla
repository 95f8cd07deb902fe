----------------------------- MODULE MCUsageSync -----------------------------
(***************************************************************************)
(* Instances of UsageSync for TLC: two processes, the worker and an        *)
(* administrator in the first, the worker in the second.                   *)
(***************************************************************************)
EXTENDS UsageSync, TLC

CONSTANTS worker, admin, worker2, p1, p2, e1, e2, e3

MCReplicaOf == (worker :> p1) @@ (admin :> p1) @@ (worker2 :> p2)

\* The last two entries fall into one second (PerSecond = 2).
MCAt == (e1 :> 1) @@ (e2 :> 2) @@ (e3 :> 3)

================================================================================
