-------------------------- MODULE MCPlanScheduler ---------------------------
(* A small instance of PlanScheduler for TLC. *)
EXTENDS PlanScheduler, TLC

CONSTANTS p1, p2, p3, p4, g1, g0

\* The positions run against the names; p3 and p4 share one, in two groups.
MCGroup == (p1 :> g1) @@ (p2 :> g1) @@ (p3 :> g1) @@ (p4 :> g0)
MCPosition == (p1 :> 2) @@ (p2 :> 0) @@ (p3 :> 1) @@ (p4 :> 1)
=============================================================================
