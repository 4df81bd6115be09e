---------------------------- MODULE ProcessTree -----------------------------
(***************************************************************************)
(* The supervision of a command (child_process_supervisor.rs) and the end  *)
(* of its process tree (termination.rs).  The supervisor waits for the     *)
(* exit of the child, the time or the cancellation.  On Unix it then       *)
(* interrupts the process group, and kills the tree only if the child has  *)
(* not exited after ten seconds; on Windows it kills the tree at once.     *)
(* The tree is killed from a list of processes that is out of date as soon *)
(* as it is made: meanwhile processes start others, exit, or leave the     *)
(* group.  The list is made in one step, a kill is never refused, and no   *)
(* process id is used twice.                                               *)
(***************************************************************************)
EXTENDS Naturals

CONSTANTS
    Procs,      \* process ids the tree may use
    Child,      \* the process that is spawned
    Outside,    \* a parent that is not in Procs: the supervisor, or init
    Unborn      \* the parent of a process that is not there

ASSUME ChildIsProcess == Child \in Procs
ASSUME MarksAreNoProcesses ==
    Outside \notin Procs /\ Unborn \notin Procs /\ Outside # Unborn

VARIABLES
    platform,       \* the system the program is built for
    parent,         \* process -> its parent, as the system tells it
    running,        \* processes that run
    group,          \* processes in the process group of the child
    stubborn,       \* processes that live on, or start others, after a SIGINT
    interrupted,    \* processes that have received a SIGINT
    cancelled,      \* the cancellation token
    supervisor,     \* where wait_for_child is
    outcome,        \* what it is going to return
    processes,      \* System::processes: process -> parent when it was listed
    pids_in_tree

tree == <<platform, parent, running, group, stubborn, interrupted>>
vars == <<tree, cancelled, supervisor, outcome, processes, pids_in_tree>>

Parents == Procs \cup {Outside, Unborn}

TypeOK ==
    /\ platform \in {"unix", "windows"}
    /\ parent \in [Procs -> Parents]
    /\ running \in SUBSET Procs
    /\ group \in SUBSET Procs
    /\ stubborn \in SUBSET Procs
    /\ interrupted \in SUBSET Procs
    /\ cancelled \in BOOLEAN
    /\ supervisor \in {"spawn", "wait", "interrupt", "grace", "list", "kill top",
                       "kill children", "reap", "returned"}
    /\ outcome \in {"none", "Completed", "Timeout", "Cancel", "Error"}
    /\ processes \in [Procs -> Parents]
    /\ pids_in_tree \in SUBSET Procs

Nobody == [p \in Procs |-> Unborn]

Init ==
    /\ platform \in {"unix", "windows"}
    /\ parent = Nobody
    /\ running = {}
    /\ group = {}
    /\ stubborn \in IF platform = "unix" THEN SUBSET Procs ELSE {{}}
    /\ interrupted = {}
    /\ cancelled \in BOOLEAN
    /\ supervisor = "spawn"
    /\ outcome = "none"
    /\ processes = Nobody
    /\ pids_in_tree = {}

Cancel ==
    /\ ~cancelled
    /\ cancelled' = TRUE
    /\ UNCHANGED <<tree, supervisor, outcome, processes, pids_in_tree>>

-----------------------------------------------------------------------------
(* What the processes do.                                                  *)

\* Dead processes lose their children to init; Windows keeps the old parent id.
Orphaned(dead) ==
    IF platform = "unix"
    THEN [p \in Procs |-> IF parent[p] \in dead THEN Outside ELSE parent[p]]
    ELSE parent

Dies(p) ==
    /\ running' = running \ {p}
    /\ parent' = Orphaned({p})
    /\ UNCHANGED <<platform, group, stubborn, interrupted>>

\* A process that has been interrupted and obeys starts nothing any more.
Fork(p, c) ==
    /\ p \in running
    /\ p \in interrupted => p \in stubborn
    /\ parent[c] = Unborn
    /\ parent' = [parent EXCEPT ![c] = p]
    /\ running' = running \cup {c}
    /\ group' = IF p \in group THEN group \cup {c} ELSE group
    /\ UNCHANGED <<platform, stubborn, interrupted, cancelled, supervisor, outcome,
                   processes, pids_in_tree>>

LeaveGroup(p) ==
    /\ p \in running \cap group
    /\ group' = group \ {p}
    /\ UNCHANGED <<platform, parent, running, stubborn, interrupted, cancelled,
                   supervisor, outcome, processes, pids_in_tree>>

ProcessExits(p) ==
    /\ p \in running
    /\ Dies(p)
    /\ UNCHANGED <<cancelled, supervisor, outcome, processes, pids_in_tree>>

ObeysInterrupt(p) == p \in interrupted \ stubborn /\ ProcessExits(p)

-----------------------------------------------------------------------------
(* wait_for_child                                                          *)

\* process_group(0): the child leads a group of its own.
Spawn ==
    /\ supervisor = "spawn"
    /\ supervisor' = "wait"
    /\ parent' = [parent EXCEPT ![Child] = Outside]
    /\ running' = {Child}
    /\ group' = IF platform = "unix" THEN {Child} ELSE {}
    /\ UNCHANGED <<platform, stubborn, interrupted, cancelled, outcome, processes,
                   pids_in_tree>>

Finish(result) ==
    /\ supervisor' = "returned"
    /\ outcome' = result
    /\ UNCHANGED <<tree, cancelled, processes, pids_in_tree>>

\* A file for the output cannot be made, or the command cannot be started.
SpawnFails == supervisor = "spawn" /\ Finish("Error")

\* Mutant: an output that is closed counts as an exit.
ChildCompletes_Early == supervisor = "wait" /\ Finish("Completed")

ChildCompletes ==
    /\ supervisor = "wait"
    /\ Child \notin running
    /\ Finish("Completed")

Leave(result, next) ==
    /\ supervisor = "wait"
    /\ supervisor' = next
    /\ outcome' = result
    /\ UNCHANGED <<tree, cancelled, processes, pids_in_tree>>

WaitFails == Leave("Error", "list")

Stop == IF platform = "unix" THEN "interrupt" ELSE "list"

TimesOut == Leave("Timeout", Stop)

\* Mutant: the token is not asked.
SeesCancel_Unasked == Leave("Cancel", Stop)

SeesCancel == cancelled /\ Leave("Cancel", Stop)

\* Mutant: the child alone is interrupted.
Interrupt_ChildOnly ==
    /\ supervisor = "interrupt"
    /\ interrupted' = interrupted \cup ({Child} \cap running)
    /\ supervisor' = "grace"
    /\ UNCHANGED <<platform, parent, running, group, stubborn, cancelled, outcome,
                   processes, pids_in_tree>>

\* killpg.  The child that has exited but is not waited for still has its group.
Interrupt ==
    /\ supervisor = "interrupt"
    /\ interrupted' = interrupted \cup (group \cap running)
    /\ supervisor' = "grace"
    /\ UNCHANGED <<platform, parent, running, group, stubborn, cancelled, outcome,
                   processes, pids_in_tree>>

ChildGivesIn ==
    /\ supervisor = "grace"
    /\ Child \notin running
    /\ Finish(outcome)

\* Mutant: the supervisor waits for the child however long it takes.
TenSecondsPass_Never == FALSE

TenSecondsPass ==
    /\ supervisor = "grace"
    /\ supervisor' = "list"
    /\ UNCHANGED <<tree, cancelled, outcome, processes, pids_in_tree>>

-----------------------------------------------------------------------------
(* kill_process_tree                                                       *)

\* Unix also lists a child that has exited and has not been waited for.
Listed ==
    running \cup (IF platform = "unix" THEN {Child} ELSE {})

RefreshProcesses ==
    /\ supervisor = "list"
    /\ processes' = [p \in Procs |-> IF p \in Listed THEN parent[p] ELSE Unborn]
    /\ supervisor' = "kill top"
    /\ UNCHANGED <<tree, cancelled, outcome, pids_in_tree>>

\* On Unix the child is waited for after the kill, unless waiting has failed.
AfterKill ==
    IF platform = "unix" /\ outcome # "Error" THEN "reap" ELSE "returned"

KillTop ==
    /\ supervisor = "kill top"
    /\ processes[Child] # Unborn
    /\ Dies(Child)
    /\ pids_in_tree' = {Child}
    /\ supervisor' = "kill children"
    /\ UNCHANGED <<cancelled, outcome, processes>>

TopIsGone ==
    /\ supervisor = "kill top"
    /\ processes[Child] = Unborn
    /\ supervisor' = AfterKill
    /\ UNCHANGED <<tree, cancelled, outcome, processes, pids_in_tree>>

\* Mutant: whatever is in the list is killed.
KillChild_Anyone(c) ==
    /\ supervisor = "kill children"
    /\ processes[c] # Unborn
    /\ c \notin pids_in_tree
    /\ Dies(c)
    /\ pids_in_tree' = pids_in_tree \cup {c}
    /\ UNCHANGED <<cancelled, supervisor, outcome, processes>>

KillChild(c) ==
    /\ supervisor = "kill children"
    /\ processes[c] \in pids_in_tree
    /\ c \notin pids_in_tree
    /\ Dies(c)
    /\ pids_in_tree' = pids_in_tree \cup {c}
    /\ UNCHANGED <<cancelled, supervisor, outcome, processes>>

\* Mutant: one level of the tree.
NoMoreChildren_OneLevel ==
    /\ supervisor = "kill children"
    /\ \A c \in Procs : processes[c] = Child => c \in pids_in_tree
    /\ supervisor' = AfterKill
    /\ UNCHANGED <<tree, cancelled, outcome, processes, pids_in_tree>>

\* A pass over the list that adds nothing ends the loop.
NoMoreChildren ==
    /\ supervisor = "kill children"
    /\ \A c \in Procs : processes[c] \in pids_in_tree => c \in pids_in_tree
    /\ supervisor' = AfterKill
    /\ UNCHANGED <<tree, cancelled, outcome, processes, pids_in_tree>>

Reap ==
    /\ supervisor = "reap"
    /\ Child \notin running
    /\ Finish(outcome)

-----------------------------------------------------------------------------
SupervisorStep ==
    \/ Spawn \/ SpawnFails \/ ChildCompletes
    \/ Interrupt \/ ChildGivesIn
    \/ RefreshProcesses \/ KillTop \/ TopIsGone
    \/ \E c \in Procs : KillChild(c)
    \/ NoMoreChildren \/ Reap

ProcessStep ==
    \E p \in Procs :
        \/ LeaveGroup(p) \/ ProcessExits(p) \/ ObeysInterrupt(p)
        \/ \E c \in Procs : Fork(p, c)

Terminated == supervisor = "returned" /\ UNCHANGED vars

Next ==
    \/ Cancel \/ ProcessStep
    \/ SupervisorStep \/ WaitFails \/ TimesOut \/ SeesCancel \/ TenSecondsPass
    \/ Terminated

Spec == Init /\ [][Next]_vars

\* The clock runs, and a process that obeys an interrupt exits; no other need.
FairSpec ==
    /\ Spec
    /\ WF_vars(SupervisorStep) /\ WF_vars(TimesOut) /\ WF_vars(TenSecondsPass)
    /\ \A p \in Procs : WF_vars(ObeysInterrupt(p))

-----------------------------------------------------------------------------
(* Properties                                                              *)

\* S holds the child and, with a process of the list, the children of it.
Closed(S) ==
    Child \in S /\ \A c \in Procs : processes[c] \in S => c \in S

TreeWasKilled == supervisor \in {"reap", "returned"} /\ pids_in_tree # {}

(***************************************************************************)
(* When the kill is over, everything the list shows below the child is     *)
(* dead, in however many passes and whatever order it was found.           *)
(***************************************************************************)
TreeIsKilled ==
    TreeWasKilled => Closed(pids_in_tree) /\ pids_in_tree \cap running = {}

(***************************************************************************)
(* Nothing else is ever killed: what is killed is in every set that is     *)
(* closed, the smallest included.                                          *)
(***************************************************************************)
OnlyTreeIsKilled ==
    \A S \in SUBSET Procs : Closed(S) => pids_in_tree \subseteq S

(***************************************************************************)
(* A tree of processes that all obey an interrupt and stay in the group is *)
(* gone after a timeout or a cancellation, orphans included.               *)
(***************************************************************************)
CooperativeTreeEnds ==
    /\ platform = "unix"
    /\ supervisor = "returned"
    /\ outcome \in {"Timeout", "Cancel"}
    /\ stubborn = {}
    /\ running \subseteq group
    ~> running = {} \/ ~(running \subseteq group)

Contract == INSTANCE SessionRun WITH
    KillCanFail <- FALSE,
    command <- IF parent[Child] = Unborn THEN "none"
               ELSE IF Child \in running THEN "running" ELSE "over",
    outcome <- IF supervisor = "returned" THEN outcome ELSE "none"

(***************************************************************************)
(* The supervision keeps the promise of Session::run, and never leaves the *)
(* command running.                                                        *)
(***************************************************************************)
KeepsContract == Contract!Spec

\* The supervision ends in bounded time, whatever the processes do.
SupervisionEnds == <>(supervisor = "returned")

(***************************************************************************)
(* What termination.rs:48 says of kill_process_tree: a termination of the  *)
(* entire process tree.                                                    *)
(***************************************************************************)
EntireTreeIsKilled == TreeWasKilled => running = {}
=============================================================================
