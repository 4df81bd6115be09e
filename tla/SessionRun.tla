----------------------------- MODULE SessionRun -----------------------------
(***************************************************************************)
(* What Session::run promises to those who run a command with it, in the   *)
(* session of the scheduler (ProcessTree) or in that of another user       *)
(* (WindowsTask): one outcome, a completion only when the command is over, *)
(* a cancellation only when there was one, and no command that runs on.    *)
(***************************************************************************)
CONSTANT KillCanFail    \* there are systems that can refuse to kill a command

VARIABLES
    cancelled,  \* the cancellation token
    command,    \* "none", "running" or "over"
    outcome     \* "none" until the call returns

vars == <<cancelled, command, outcome>>

Outcomes == {"Completed", "Timeout", "Cancel", "Error"}

Init ==
    /\ cancelled \in BOOLEAN
    /\ command = "none"
    /\ outcome = "none"

Cancel ==
    /\ ~cancelled
    /\ cancelled' = TRUE
    /\ UNCHANGED <<command, outcome>>

Start ==
    /\ command = "none"
    /\ outcome = "none" \/ KillCanFail
    /\ command' = "running"
    /\ UNCHANGED <<cancelled, outcome>>

End ==
    /\ command = "running"
    /\ command' = "over"
    /\ UNCHANGED <<cancelled, outcome>>

Return(result) ==
    /\ outcome = "none"
    /\ result = "Completed" => command = "over"
    /\ result = "Cancel" => cancelled
    /\ command = "running" => KillCanFail
    /\ outcome' = result
    /\ UNCHANGED <<cancelled, command>>

Next == Cancel \/ Start \/ End \/ \E result \in Outcomes : Return(result)

Spec == Init /\ [][Next]_vars
=============================================================================
