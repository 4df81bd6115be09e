------------------------- MODULE MCPlanDirectories --------------------------
(* A small configuration for TLC. *)
EXTENDS PlanDirectories, TLC

CONSTANTS current, alice, bob

\* Nothing but their names tells users apart.
Symmetry == Permutations({alice, bob})
=============================================================================
