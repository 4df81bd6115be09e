----------------------------- MODULE MCCleanup ------------------------------
(* An instance of Cleanup for TLC.                                         *)
EXTENDS Cleanup, TLC

\* One execution is kept, or those that are not a second old.
MCConfigs == {[policy |-> "MaxExecutions", limit |-> 1],
              [policy |-> "MaxAgeSecs", limit |-> 0]}

\* The threads are alike.
ThreadSymmetry == Permutations(CleanUps)
=============================================================================
