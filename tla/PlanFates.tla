----------------------------- MODULE PlanFates ------------------------------
(***************************************************************************)
(* What the start of the scheduler promises to whoever reads its sections, *)
(* without stages, sessions, lists or the ways in which a command fails.   *)
(*                                                                         *)
(* Every configured plan has one fate.  It is told step by step, and       *)
(* nothing that was told is taken back: the plan failed the setup, or it   *)
(* has passed and its environment is built when its turn comes, one at a   *)
(* time.  Plans are scheduled once, after every fate is settled, and they  *)
(* are those that were told to be ready.  SetupPipeline is the detailed    *)
(* specification: it implements this one.                                  *)
(***************************************************************************)
CONSTANTS
    Plans,      \* the plans of the configuration
    Rcc,        \* those with an environment that has to be built
    NotYet      \* nothing is scheduled

VARIABLES
    fate,       \* plan -> what is known of it
    scheduled   \* the plans that the schedulers are given, or NotYet

fateVars == <<fate, scheduled>>

Final == {"NotNeeded", "Success", "Timeout", "Error"}
ReadyFates == {"NotNeeded", "Success"}

FatesInit ==
    /\ fate = [p \in Plans |-> "Unknown"]
    /\ scheduled = NotYet

Tell(plan, what) ==
    /\ scheduled = NotYet
    /\ fate' = [fate EXCEPT ![plan] = what]
    /\ UNCHANGED scheduled

\* The setup is over, for all plans at once.
ReportFailures(failed) ==
    /\ scheduled = NotYet
    /\ \A p \in Plans : fate[p] = "Unknown"
    /\ fate' = [p \in Plans |-> IF p \in failed THEN "Failed" ELSE "Passed"]
    /\ UNCHANGED scheduled

\* Those that have passed wait for their environments.
QueueBuilds ==
    /\ scheduled = NotYet
    /\ \A p \in Plans : fate[p] \in {"Failed", "Passed"}
    /\ fate' = [p \in Plans |-> IF fate[p] = "Passed" THEN "Pending" ELSE "Failed"]
    /\ UNCHANGED scheduled

NobodyIsBuilt == \A p \in Plans : fate[p] # "InProgress"

NeedsNoBuild(p) ==
    /\ p \notin Rcc
    /\ fate[p] = "Pending"
    /\ NobodyIsBuilt
    /\ Tell(p, "NotNeeded")

StartBuild(p) ==
    /\ p \in Rcc
    /\ fate[p] = "Pending"
    /\ NobodyIsBuilt
    /\ Tell(p, "InProgress")

EndBuild(p) ==
    /\ fate[p] = "InProgress"
    /\ \E outcome \in Final \ {"NotNeeded"} : Tell(p, outcome)

Schedule ==
    /\ scheduled = NotYet
    /\ \A p \in Plans : fate[p] \in Final \cup {"Failed"}
    /\ scheduled' = {p \in Plans : fate[p] \in ReadyFates}
    /\ UNCHANGED fate

FatesNext ==
    \/ \E failed \in SUBSET Plans : ReportFailures(failed)
    \/ QueueBuilds \/ Schedule
    \/ \E p \in Plans : NeedsNoBuild(p) \/ StartBuild(p) \/ EndBuild(p)

FatesSpec == FatesInit /\ [][FatesNext]_fateVars
=============================================================================
