-------------------------- MODULE MCSetupPipeline ---------------------------
(* A small configuration for TLC. *)
EXTENDS SetupPipeline, TLC

CONSTANTS p1, p2, p3, p4, current, user

\* The user's session has two plans with RCC, one of them managed, and one
\* without; the plans of a session are not neighbours in the configuration.
MCSession == (p1 :> user) @@ (p2 :> current) @@ (p3 :> user) @@ (p4 :> user)
MCPosition == (p1 :> 1) @@ (p2 :> 2) @@ (p3 :> 3) @@ (p4 :> 4)
=============================================================================
