---------------------------- MODULE WindowsTask -----------------------------
(***************************************************************************)
(* A command in the session of another user of Windows (tasks/windows.rs): *)
(* a script is registered as a task of the task scheduler, started, polled *)
(* until there is no running instance of it, the time is up or the token   *)
(* is cancelled, killed unless it has completed, and deleted.  The script  *)
(* runs the command and writes its exit code to a file, in a console the   *)
(* user can close at any moment.  Every call of the task scheduler can     *)
(* fail.  The file is not there before the run: its directory is that of   *)
(* the run, or is made anew when the scheduler starts.                     *)
(***************************************************************************)
CONSTANTS
    Codes,      \* exit codes of the command
    NoCode      \* there is none: no file, or no such run of the command

ASSUME MarksAreNoCodes == NoCode \notin Codes /\ Codes \cap {"absent", "empty"} = {}

VARIABLES
    cancelled,  \* the cancellation token
    supervisor, \* where run_task is
    task,       \* "absent", "leftover" of an earlier scheduler, "registered"
    script,     \* the instance of the task
    result,     \* the exit code of the command, once it has ended
    exit_code,  \* the file: "absent", "empty" or a code
    waited,     \* how the wait ended
    engine,     \* the process kill_task has found: "none", or the "script"
    refused,    \* "nothing", or the "deletion" of the task
    outcome     \* what run_task returns: how, and with which exit code

running == <<script, result, exit_code>>
vars == <<cancelled, supervisor, task, running, waited, engine, refused, outcome>>

Nothing == [is |-> "none", code |-> NoCode]

TypeOK ==
    /\ cancelled \in BOOLEAN
    /\ supervisor \in {"session", "prepare", "start", "wait", "kill", "kill_tree",
                       "delete", "report", "returned"}
    /\ task \in {"absent", "leftover", "registered"}
    /\ script \in {"none", "queued", "dropped", "command", "echo", "over"}
    /\ result \in Codes \cup {NoCode}
    /\ exit_code \in {"absent", "empty"} \cup Codes
    /\ waited \in {"none", "Completed", "Timeout", "Cancel", "Error"}
    /\ engine \in {"none", "script"}
    /\ refused \in {"nothing", "deletion"}
    /\ outcome \in [is : {"none", "Completed", "Timeout", "Cancel", "Error"},
                    code : Codes \cup {NoCode}]

Init ==
    /\ cancelled \in BOOLEAN
    /\ supervisor = "session"
    /\ task \in {"absent", "leftover"}
    /\ script = "none"
    /\ result = NoCode
    /\ exit_code = "absent"
    /\ waited = "none"
    /\ engine = "none"
    /\ refused = "nothing"
    /\ outcome = Nothing

Cancel ==
    /\ ~cancelled
    /\ cancelled' = TRUE
    /\ UNCHANGED <<supervisor, task, running, waited, engine, refused, outcome>>

-----------------------------------------------------------------------------
(* build_task_script, and the user it runs for.                            *)

Runs == script \in {"command", "echo"}

ScriptStarts ==
    /\ script = "queued"
    /\ script' = "command"
    /\ UNCHANGED <<cancelled, supervisor, task, result, exit_code, waited, engine,
                   refused, outcome>>

\* The redirection makes the file before anything is written to it.
CommandEnds(code) ==
    /\ script = "command"
    /\ script' = "echo"
    /\ result' = code
    /\ exit_code' = "empty"
    /\ UNCHANGED <<cancelled, supervisor, task, waited, engine, refused, outcome>>

ScriptEnds ==
    /\ script = "echo"
    /\ script' = "over"
    /\ exit_code' = result
    /\ UNCHANGED <<cancelled, supervisor, task, result, waited, engine, refused,
                   outcome>>

\* The window is closed, the user logs off, or the instance never comes to run.
UserInterferes ==
    /\ script \in {"queued", "command", "echo"}
    /\ script' = IF script = "queued" THEN "dropped" ELSE "over"
    /\ UNCHANGED <<cancelled, supervisor, task, result, exit_code, waited, engine,
                   refused, outcome>>

-----------------------------------------------------------------------------
(* run_task                                                                *)

AssertSession ==
    /\ supervisor = "session"
    /\ supervisor' = "prepare"
    /\ UNCHANGED <<cancelled, task, running, waited, engine, refused, outcome>>

Finish(is, code) ==
    /\ supervisor' = "returned"
    /\ outcome' = [is |-> is, code |-> code]
    /\ UNCHANGED <<cancelled, task, running, waited, engine, refused>>

\* No session, no connection to the task scheduler, no script, or no task.
PreparationFails ==
    /\ supervisor \in {"session", "prepare"}
    /\ Finish("Error", NoCode)

\* A task of the same name is replaced.
CreateTask ==
    /\ supervisor = "prepare"
    /\ supervisor' = "start"
    /\ task' = "registered"
    /\ UNCHANGED <<cancelled, running, waited, engine, refused, outcome>>

Run ==
    /\ supervisor = "start"
    /\ supervisor' = "wait"
    /\ script' = "queued"
    /\ UNCHANGED <<cancelled, task, result, exit_code, waited, engine, refused,
                   outcome>>

\* The early return goes past the deletion of the task.
RunFails ==
    /\ supervisor = "start"
    /\ Finish("Error", NoCode)

Leave(how, next) ==
    /\ supervisor = "wait"
    /\ supervisor' = next
    /\ waited' = how
    /\ UNCHANGED <<cancelled, task, running, engine, refused, outcome>>

\* There is no running instance of the task.
SeesNoInstance ==
    /\ script \in {"dropped", "over"}
    /\ Leave("Completed", "delete")

RefreshFails == Leave("Error", "kill")

\* Mutant: the time of the command is not limited.
TimesOut_Never == FALSE

TimesOut == Leave("Timeout", "kill")

\* Mutant: the token is not asked.
SeesCancel_Unasked == Leave("Cancel", "kill")

SeesCancel == cancelled /\ Leave("Cancel", "kill")

\* Refresh or EnginePID fail, and the error is discarded.
KillFails ==
    /\ supervisor = "kill"
    /\ supervisor' = "delete"
    /\ UNCHANGED <<cancelled, task, running, waited, engine, refused, outcome>>

(***************************************************************************)
(* The task scheduler names the process of its engine.  That of a script   *)
(* that runs may have been replaced since or be gone, and an instance that *)
(* is queued has none: the id is then not in the list of processes.        *)
(***************************************************************************)
FindEngine ==
    /\ supervisor = "kill"
    /\ supervisor' = "kill_tree"
    /\ engine' \in {"none"} \cup (IF Runs THEN {"script"} ELSE {})
    /\ UNCHANGED <<cancelled, task, running, waited, refused, outcome>>

\* Mutant: the task is ended and its process is not.
KillTree_TaskOnly ==
    /\ supervisor = "kill_tree"
    /\ supervisor' = "delete"
    /\ UNCHANGED <<cancelled, task, running, waited, engine, refused, outcome>>

\* kill_process_tree does nothing about a process that is not in its list.
KillTree ==
    /\ supervisor = "kill_tree"
    /\ supervisor' = "delete"
    /\ script' = IF Runs /\ engine = "script" THEN "over" ELSE script
    /\ UNCHANGED <<cancelled, task, result, exit_code, waited, engine, refused,
                   outcome>>

DeleteTask ==
    /\ supervisor = "delete"
    /\ supervisor' = "report"
    /\ task' = "absent"
    /\ UNCHANGED <<cancelled, running, waited, engine, refused, outcome>>

DeleteFails ==
    /\ supervisor = "delete"
    /\ supervisor' = "report"
    /\ refused' = "deletion"
    /\ UNCHANGED <<cancelled, task, running, waited, engine, outcome>>

\* Mutant: without the file the command counts as completed.
ReadExitCode_Lenient ==
    /\ supervisor = "report"
    /\ waited = "Completed"
    /\ Finish("Completed", result)

ReadExitCode ==
    /\ supervisor = "report"
    /\ waited = "Completed"
    /\ IF exit_code \in Codes THEN Finish("Completed", exit_code)
       ELSE Finish("Error", NoCode)

ReportOutcome ==
    /\ supervisor = "report"
    /\ waited # "Completed"
    /\ Finish(waited, NoCode)

-----------------------------------------------------------------------------
ScriptStep ==
    \/ ScriptStarts \/ ScriptEnds \/ UserInterferes
    \/ \E code \in Codes : CommandEnds(code)

SupervisorStep ==
    \/ AssertSession \/ CreateTask \/ Run
    \/ SeesNoInstance \/ KillFails \/ FindEngine \/ KillTree \/ DeleteTask
    \/ ReadExitCode \/ ReportOutcome

Terminated == supervisor = "returned" /\ UNCHANGED vars

Next ==
    \/ Cancel \/ ScriptStep
    \/ SupervisorStep \/ PreparationFails \/ RunFails \/ RefreshFails \/ TimesOut
    \/ SeesCancel \/ DeleteFails
    \/ Terminated

Spec == Init /\ [][Next]_vars

\* The calls of the task scheduler return, and the clock runs.
FairSpec == Spec /\ WF_vars(SupervisorStep) /\ WF_vars(TimesOut)

-----------------------------------------------------------------------------
(* Properties                                                              *)

Returned == supervisor = "returned"

(***************************************************************************)
(* An exit code is reported only if the command has ended with it and the  *)
(* script has come to its end: not when the window was closed, the task    *)
(* never started, or the file was there but nothing in it yet.             *)
(***************************************************************************)
CompletedIsTrue ==
    outcome.is = "Completed" =>
        script = "over" /\ outcome.code = result /\ result \in Codes

(***************************************************************************)
(* The command does not run on when the call returns, nor is it still to   *)
(* begin, unless the task scheduler did not tell its process id, or told   *)
(* one that is not the script's: nothing else in the race of the script,   *)
(* the clock and the token leaves it alive.                                *)
(***************************************************************************)
CommandIsOver ==
    Returned /\ script \in {"queued", "command", "echo"} =>
        waited # "Completed" /\ engine = "none"

(***************************************************************************)
(* A run that is not an error leaves no task behind, neither its own nor   *)
(* one of an earlier scheduler, unless the deletion was refused.           *)
(***************************************************************************)
TaskIsDeleted ==
    outcome.is \in {"Completed", "Timeout", "Cancel"} =>
        task = "absent" \/ refused = "deletion"

Contract == INSTANCE SessionRun WITH
    KillCanFail <- TRUE,
    command <- CASE script \in {"none", "queued", "dropped"} -> "none"
                 [] Runs -> "running"
                 [] OTHER -> "over",
    outcome <- outcome.is

(***************************************************************************)
(* run_task keeps the promise of Session::run, where a command can be out  *)
(* of reach.                                                               *)
(***************************************************************************)
KeepsContract == Contract!Spec

(***************************************************************************)
(* The call returns, whatever the script, the user and the task scheduler  *)
(* do: the wait is bounded by the time alone.                              *)
(***************************************************************************)
CallReturns == <>Returned

(***************************************************************************)
(* What the test of the scheduler says (tests/test_scheduler.rs:639): no   *)
(* task of robotmk is registered when all is over.                         *)
(***************************************************************************)
TasksAreGone == Returned => task # "registered"
=============================================================================
