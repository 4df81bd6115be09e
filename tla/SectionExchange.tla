-------------------------- MODULE SectionExchange ---------------------------
(***************************************************************************)
(* How results travel from robotmk_scheduler to the agent plugin: files in *)
(* one directory, guarded by an advisory lock on the configuration file    *)
(* (lock.rs).  A writer replaces a file through "<name>.tmp" and a rename  *)
(* (section.rs:73-121); a new scheduler process first sweeps what earlier  *)
(* ones left (setup/general.rs:354-369); the plugin walks the directory    *)
(* under a shared lock and prints after it let go (section.rs:61-71,       *)
(* agent_plugin.rs:81-82).                                                 *)
(*                                                                         *)
(* The scheduler process is Main, which sweeps and writes the top-level    *)
(* sections while it starts up, and Threads, one per sequential plan       *)
(* group, which write the plan results once scheduling has begun.  The     *)
(* process may be cancelled, fail or be killed between any two steps, and  *)
(* is then started again, perhaps with other plans.                        *)
(***************************************************************************)
EXTENDS Naturals

CONSTANTS
    Main,       \* the scheduler's main thread
    Threads,    \* one per sequential plan group
    Plugins,    \* agent plugin processes
    TopFiles,   \* scheduler_phase, setup_failures, environment_build_states
    PlanFiles,  \* results files in plans/
    Owner,      \* plan file -> the thread whose group runs that plan
    Configs,    \* the sets of plan files a configuration may ask for
    Bodies,     \* section contents that differ
    MaxStarts,  \* bound: scheduler processes started one after another
    WalkRank,   \* entry -> its place in the sorted walk of the directory
    None,       \* no file, no section, nothing to write
    Torn        \* a file of which only a part was written

Files == TopFiles \cup PlanFiles
Entries == Files \X {"json", "tmp"}
Json(f) == <<f, "json">>
Tmp(f) == <<f, "tmp">>

\* A section knows which scheduler process wrote it.
Sections == [run : 0 .. MaxStarts, body : Bodies]
Contents == Sections \cup {None, Torn}

Writers == Threads \cup {Main}
Procs == Writers \cup Plugins

ASSUME ActorsAreDistinct ==
    /\ Main \notin Threads
    /\ Plugins \cap Writers = {}
ASSUME FilesAreOwned ==
    /\ TopFiles \cap PlanFiles = {}
    /\ Owner \in [PlanFiles -> Threads]
    /\ Configs \subseteq SUBSET PlanFiles
ASSUME MarksAreNoSections == None # Torn /\ {None, Torn} \cap Sections = {}
ASSUME NothingIsNoJob == None \notin [file : Files, section : Sections]
ASSUME BoundsAreNumbers ==
    /\ MaxStarts \in Nat
    /\ WalkRank \in [Entries -> Nat]

VARIABLES
    disk,       \* entry -> what the file holds
    flock,      \* process or thread -> the lock it holds on the config file
    pc,         \* where each of them is
    job,        \* writer -> the file it replaces and by what, or None
    todo,       \* plugin -> entries of the walk still to be read
    seen,       \* plugin -> the sections it has read
    mode,       \* what the scheduler process is doing
    run,        \* how many scheduler processes there have been
    configured, \* plan files of the plans in the configuration it loaded
    cancelled   \* its cancellation token

schedulerVars == <<job, mode, run, configured, cancelled>>
pluginVars == <<todo, seen>>
vars == <<disk, flock, pc, schedulerVars, pluginVars>>

Waiting == {"queued", "waiting", "granted"}      \* inside with_cancellation
Draining == {"draining", "drained"}              \* its runtime is dropped
Drafting == {"writing", "written", "failed"}     \* the draft is our business
Replacing == Drafting \cup {"locked", "done", "erred"}
Holding == {"granted", "drained"} \cup Replacing
WriterPcs == {"idle"} \cup Waiting \cup Draining \cup Replacing
PluginPcs == {"idle", "waiting", "reading", "printing"}

Jobs == [file : Files, section : Sections]
NothingSeen == [e \in Entries |-> None]

\* serde_json refuses a truncated file, and the walk skips what it refuses.
Parse(content) == IF content = Torn THEN None ELSE content

Init ==
    /\ disk = NothingSeen
    /\ flock = [p \in Procs |-> "none"]
    /\ pc = [p \in Procs |-> "idle"]
    /\ job = [p \in Writers |-> None]
    /\ todo = [r \in Plugins |-> {}]
    /\ seen = [r \in Plugins |-> NothingSeen]
    /\ mode = "down"
    /\ run = 0
    /\ configured = {}
    /\ cancelled = FALSE

-----------------------------------------------------------------------------
(* The advisory lock (lock.rs): any number of shared holders, or one       *)
(* exclusive holder.  Each acquisition opens the file anew, so two threads *)
(* of one process exclude each other as well.                              *)

\* Mutant: exclusive only among writers.
LockExclusive_IgnoresReaders(p) ==
    /\ \A q \in Procs \ {p} : flock[q] # "exclusive"
    /\ flock' = [flock EXCEPT ![p] = "exclusive"]

LockExclusive(p) ==
    /\ \A q \in Procs \ {p} : flock[q] = "none"
    /\ flock' = [flock EXCEPT ![p] = "exclusive"]

LockShared(p) ==
    /\ \A q \in Procs \ {p} : flock[q] # "exclusive"
    /\ flock' = [flock EXCEPT ![p] = "shared"]

Unlock(p) == flock' = [flock EXCEPT ![p] = "none"]

Goto(p, label) == pc' = [pc EXCEPT ![p] = label]

(***************************************************************************)
(* A call that wanted the write lock returns.  Every error of the main     *)
(* thread ends the process (the ? operators of main.rs); an error of a     *)
(* plan is logged and its group goes on (scheduler.rs:70).                 *)
(***************************************************************************)
Return(p, ok) ==
    /\ Goto(p, "idle")
    /\ job' = [job EXCEPT ![p] = None]
    /\ mode' = IF p = Main /\ ~ok THEN "down" ELSE mode
    /\ UNCHANGED <<run, configured, cancelled, pluginVars>>

-----------------------------------------------------------------------------
(* The scheduler process                                                   *)

Boot ==
    /\ mode = "down"
    /\ run < MaxStarts
    /\ mode' = "setup"
    /\ run' = run + 1
    /\ configured' \in Configs
    /\ cancelled' = FALSE
    /\ UNCHANGED <<disk, flock, pc, job, pluginVars>>

\* Ctrl-C, or the run flag file is gone (bin/scheduler/termination.rs).
Cancel ==
    /\ mode # "down"
    /\ ~cancelled
    /\ cancelled' = TRUE
    /\ UNCHANGED <<disk, flock, pc, job, mode, run, configured, pluginVars>>

\* The setup is over, the plan groups are spawned (main.rs:98-100).
BeginScheduling ==
    /\ mode = "startup"
    /\ pc[Main] = "idle"
    /\ mode' = "scheduling"
    /\ UNCHANGED <<disk, flock, pc, job, run, configured, cancelled, pluginVars>>

\* The process is over: its locks are gone, its files stay.
Gone ==
    /\ mode' = "down"
    /\ flock' = [p \in Procs |-> IF p \in Writers THEN "none" ELSE flock[p]]
    /\ pc' = [p \in Procs |-> IF p \in Writers THEN "idle" ELSE pc[p]]
    /\ job' = [p \in Writers |-> None]
    /\ UNCHANGED <<disk, run, configured, cancelled, pluginVars>>

(***************************************************************************)
(* main returns: from the setup and the start-up with an error or because  *)
(* it found the token cancelled, from the scheduling only when cancelled   *)
(* and after every group has been joined (scheduler.rs:42-48).             *)
(***************************************************************************)
Exit ==
    /\ mode # "down"
    /\ mode = "scheduling" => cancelled
    /\ \A p \in Writers : pc[p] = "idle"
    /\ Gone

\* Killed, or taken down by a panic of the main thread.
Crash ==
    /\ mode # "down"
    /\ Gone

-----------------------------------------------------------------------------
(* Waiting for the write lock (lock.rs:71-104).  The lock call runs on a   *)
(* blocking thread of a runtime that with_cancellation makes for itself.   *)

Ask(p, what) ==
    /\ pc[p] = "idle"
    /\ Goto(p, "queued")
    /\ job' = [job EXCEPT ![p] = what]
    /\ UNCHANGED <<disk, flock, mode, run, configured, cancelled, pluginVars>>

StartSweep ==
    /\ mode = "setup"
    /\ Ask(Main, None)

StartTopWrite(f) ==
    /\ mode = "startup"
    /\ \E b \in Bodies :
        Ask(Main, [file |-> f, section |-> [run |-> run, body |-> b]])

StartPlanWrite(f) ==
    /\ mode = "scheduling"
    /\ f \in configured
    /\ \E b \in Bodies :
        Ask(Owner[f], [file |-> f, section |-> [run |-> run, body |-> b]])

\* Mutant: the lock is taken for granted.
Park_NoLock(p) ==
    /\ pc[p] = "queued"
    /\ Goto(p, "granted")
    /\ UNCHANGED <<disk, flock, schedulerVars, pluginVars>>

\* The blocking thread takes up the task and parks in flock().
Park(p) ==
    /\ pc[p] = "queued"
    /\ Goto(p, "waiting")
    /\ UNCHANGED <<disk, flock, schedulerVars, pluginVars>>

Grant(p) ==
    /\ pc[p] \in {"waiting", "draining"}
    /\ LockExclusive(p)
    /\ Goto(p, IF pc[p] = "waiting" THEN "granted" ELSE "drained")
    /\ UNCHANGED <<disk, schedulerVars, pluginVars>>

\* select! saw the lock.
TakeLock(p) ==
    /\ pc[p] = "granted"
    /\ Goto(p, "locked")
    /\ UNCHANGED <<disk, flock, schedulerVars, pluginVars>>

(***************************************************************************)
(* select! saw the token.  Its runtime is dropped: a task nobody took up   *)
(* is discarded, but a thread that is parked in flock() cannot be stopped, *)
(* and dropping the runtime waits for it.  A lock that nobody will use is  *)
(* let go by closing the file.                                             *)
(***************************************************************************)
AbandonWait(p) ==
    /\ cancelled
    /\ \/ /\ pc[p] = "queued"
          /\ Return(p, FALSE)
       \/ /\ pc[p] \in {"waiting", "granted"}
          /\ Goto(p, IF pc[p] = "waiting" THEN "draining" ELSE "drained")
          /\ UNCHANGED <<schedulerVars, pluginVars>>
    /\ UNCHANGED <<disk, flock>>

DropLock(p) ==
    /\ pc[p] = "drained"
    /\ Unlock(p)
    /\ Return(p, FALSE)
    /\ UNCHANGED disk

\* The config file cannot be opened, or flock() fails.
LockFails(p) ==
    /\ pc[p] \in {"queued", "waiting", "draining"}
    /\ Return(p, FALSE)
    /\ UNCHANGED <<disk, flock>>

-----------------------------------------------------------------------------
(* Replacing a file (section.rs:73-121)                                    *)

\* Mutant: the file is written in place.
CreateDraft_InPlace(p) ==
    /\ pc[p] = "locked"
    /\ job[p] # None
    /\ disk' = [disk EXCEPT ![Json(job[p].file)] = Torn]
    /\ Goto(p, "writing")
    /\ UNCHANGED <<flock, schedulerVars, pluginVars>>

\* fs::write opens the draft, and so empties one that is already there ...
CreateDraft(p) ==
    /\ pc[p] = "locked"
    /\ job[p] # None
    /\ \/ /\ disk' = [disk EXCEPT ![Tmp(job[p].file)] = Torn]
          /\ Goto(p, "writing")
       \/ /\ Goto(p, "failed")
          /\ UNCHANGED disk
    /\ UNCHANGED <<flock, schedulerVars, pluginVars>>

\* Mutant: the lock covers the draft, not the rename.
FillDraft_Unlocks(p) ==
    /\ pc[p] = "writing"
    /\ disk' = [disk EXCEPT ![Tmp(job[p].file)] = job[p].section]
    /\ Goto(p, "written")
    /\ Unlock(p)
    /\ UNCHANGED <<schedulerVars, pluginVars>>

\* ... and then fills it.
FillDraft(p) ==
    /\ pc[p] = "writing"
    /\ \/ /\ disk' = [disk EXCEPT ![Tmp(job[p].file)] = job[p].section]
          /\ Goto(p, "written")
       \/ /\ Goto(p, "failed")
          /\ UNCHANGED disk
    /\ UNCHANGED <<flock, schedulerVars, pluginVars>>

Rename(p) ==
    /\ pc[p] = "written"
    /\ LET f == job[p].file IN
       \/ /\ disk' = [disk EXCEPT ![Json(f)] = disk[Tmp(f)], ![Tmp(f)] = None]
          /\ Goto(p, "done")
       \/ /\ Goto(p, "failed")
          /\ UNCHANGED disk
    /\ UNCHANGED <<flock, schedulerVars, pluginVars>>

\* Whatever failed, a draft that exists is removed, if that works.
RemoveDraft(p) ==
    /\ pc[p] = "failed"
    /\ \/ disk' = [disk EXCEPT ![Tmp(job[p].file)] = None]
       \/ UNCHANGED disk
    /\ Goto(p, "erred")
    /\ UNCHANGED <<flock, schedulerVars, pluginVars>>

\* Mutant: the unlock is forgotten.
Release_Leaks(p) ==
    /\ pc[p] \in {"done", "erred"}
    /\ Return(p, pc[p] = "done")
    /\ UNCHANGED <<disk, flock>>

\* An unlock that fails is one more error; closing the file still unlocks.
Release(p) ==
    /\ pc[p] \in {"done", "erred"}
    /\ Unlock(p)
    /\ \E ok \in BOOLEAN :
        /\ ok => pc[p] = "done"
        /\ Return(p, ok)
    /\ UNCHANGED disk

-----------------------------------------------------------------------------
(* Sweeping the results directory (setup/general.rs:354-369): all top-level *)
(* files, then everything in plans/ that is not the results file of a plan. *)

Kept(e) == e[1] \in configured /\ e[2] = "json"

TopLevel(e) == e[1] \in TopFiles

\* Mutant: only plans/ is swept.
Leftovers_PlansOnly ==
    {e \in Entries : disk[e] # None /\ ~Kept(e) /\ ~TopLevel(e)}

Leftovers == {e \in Entries : disk[e] # None /\ ~Kept(e)}

Sweeping == pc[Main] = "locked" /\ job[Main] = None

SweepEntry(e) ==
    /\ Sweeping
    /\ e \in Leftovers
    /\ TopLevel(e) \/ \A other \in Leftovers : ~TopLevel(other)
    /\ disk' = [disk EXCEPT ![e] = None]
    /\ UNCHANGED <<flock, pc, schedulerVars, pluginVars>>

SweepFails ==
    /\ Sweeping
    /\ Unlock(Main)
    /\ Return(Main, FALSE)
    /\ UNCHANGED disk

SweepDone ==
    /\ Sweeping
    /\ Leftovers = {}
    /\ Unlock(Main)
    /\ Goto(Main, "idle")
    /\ mode' = "startup"
    /\ UNCHANGED <<disk, job, run, configured, cancelled, pluginVars>>

-----------------------------------------------------------------------------
(* The agent plugin (agent_plugin.rs:81-82, section.rs:61-71).  It waits   *)
(* with a token nobody cancels, so the inner states of the wait are one.   *)

PluginStart(r) ==
    /\ pc[r] = "idle"
    /\ Goto(r, "waiting")
    /\ UNCHANGED <<disk, flock, schedulerVars, pluginVars>>

PluginLock(r) ==
    /\ pc[r] = "waiting"
    /\ LockShared(r)
    /\ Goto(r, "reading")
    /\ todo' = [todo EXCEPT ![r] = Entries]
    /\ UNCHANGED <<disk, seen, schedulerVars>>

ReadEntry(r) ==
    /\ pc[r] = "reading"
    /\ \E e \in todo[r] :
        /\ \A other \in todo[r] : WalkRank[e] =< WalkRank[other]
        /\ seen' = [seen EXCEPT ![r] = [@ EXCEPT ![e] = Parse(disk[e])]]
        /\ todo' = [todo EXCEPT ![r] = @ \ {e}]
    /\ UNCHANGED <<disk, flock, pc, schedulerVars>>

PluginUnlock(r) ==
    /\ pc[r] = "reading"
    /\ todo[r] = {}
    /\ Unlock(r)
    /\ Goto(r, "printing")
    /\ UNCHANGED <<disk, schedulerVars, pluginVars>>

\* It prints and ends, or the agent kills it wherever it is.
PluginGone(r) ==
    /\ Unlock(r)
    /\ Goto(r, "idle")
    /\ todo' = [todo EXCEPT ![r] = {}]
    /\ seen' = [seen EXCEPT ![r] = NothingSeen]
    /\ UNCHANGED <<disk, schedulerVars>>

PluginPrint(r) == pc[r] = "printing" /\ PluginGone(r)

PluginKilled(r) == pc[r] # "idle" /\ PluginGone(r)

-----------------------------------------------------------------------------
ReplaceStep(p) ==
    CreateDraft(p) \/ FillDraft(p) \/ Rename(p) \/ RemoveDraft(p) \/ Release(p)

SweepStep == SweepFails \/ SweepDone \/ \E e \in Entries : SweepEntry(e)

WaitStep(p) == Park(p) \/ TakeLock(p) \/ AbandonWait(p) \/ DropLock(p)

SchedulerNext ==
    \/ Boot \/ Cancel \/ BeginScheduling \/ Exit \/ Crash
    \/ StartSweep \/ SweepStep
    \/ \E f \in TopFiles : StartTopWrite(f)
    \/ \E f \in PlanFiles : StartPlanWrite(f)
    \/ \E p \in Writers : WaitStep(p) \/ Grant(p) \/ LockFails(p) \/ ReplaceStep(p)

PluginStep(r) == ReadEntry(r) \/ PluginUnlock(r) \/ PluginPrint(r)

PluginNext ==
    \E r \in Plugins :
        PluginStart(r) \/ PluginLock(r) \/ PluginStep(r) \/ PluginKilled(r)

Next == SchedulerNext \/ PluginNext

Spec == Init /\ [][Next]_vars

(***************************************************************************)
(* The scheduler's threads run.  Strong fairness of Grant: the kernel      *)
(* serves a waiter of a lock that becomes free again and again.            *)
(***************************************************************************)
SchedulerFairness ==
    /\ \A p \in Writers :
        /\ WF_vars(WaitStep(p) \/ ReplaceStep(p))
        /\ SF_vars(Grant(p))
    /\ WF_vars(SweepStep)

\* A plugin that has the lock reads on and lets go of it.
PluginFairness ==
    \A r \in Plugins : SF_vars(PluginLock(r)) /\ WF_vars(PluginStep(r))

FairSchedulerSpec == Spec /\ SchedulerFairness

FairSpec == Spec /\ SchedulerFairness /\ PluginFairness

-----------------------------------------------------------------------------
(* Properties                                                              *)

TypeOK ==
    /\ disk \in [Entries -> Contents]
    /\ flock \in [Procs -> {"none", "shared", "exclusive"}]
    /\ pc \in [Procs -> WriterPcs \cup PluginPcs]
    /\ \A p \in Writers : pc[p] \in WriterPcs
    /\ \A r \in Plugins : pc[r] \in PluginPcs
    /\ job \in [Writers -> Jobs \cup {None}]
    /\ todo \in [Plugins -> SUBSET Entries]
    /\ seen \in [Plugins -> [Entries -> Sections \cup {None}]]
    /\ mode \in {"down", "setup", "startup", "scheduling"}
    /\ run \in 0 .. MaxStarts
    /\ configured \in SUBSET PlanFiles
    /\ cancelled \in BOOLEAN

(***************************************************************************)
(* Whoever is about to change the directory holds the lock exclusively,    *)
(* whoever walks it shares it, and nobody holds on to it for longer: not   *)
(* after an error, a crash, or a wait that was cancelled too late.         *)
(***************************************************************************)
Exclusion ==
    /\ \A p \in Writers :
        flock[p] = IF pc[p] \in Holding THEN "exclusive" ELSE "none"
    /\ \A r \in Plugins :
        flock[r] = IF pc[r] = "reading" THEN "shared" ELSE "none"
    /\ \A p \in Writers, q \in Procs :
        pc[p] \in Holding /\ q # p => flock[q] = "none"

(***************************************************************************)
(* While a plugin walks the directory, everything it has read so far is    *)
(* still what the directory holds.  So the whole snapshot was there at one *)
(* moment, the moment the plugin lets go of the lock.                      *)
(***************************************************************************)
ReadsAreCurrent ==
    \A r \in Plugins : pc[r] = "reading" =>
        \A e \in Entries \ todo[r] : seen[r][e] = Parse(disk[e])

(***************************************************************************)
(* No crash, failed write or failed rename leaves a truncated file under a *)
(* section's own name: only a draft is ever torn.                          *)
(***************************************************************************)
PublishedNeverTorn == \A f \in Files : disk[Json(f)] # Torn

(***************************************************************************)
(* Once a scheduler process has swept, nothing of an earlier process is    *)
(* left but the last results of plans that are still configured: whatever  *)
(* else lies in the directory was written by this process.                 *)
(***************************************************************************)
StartsClean ==
    mode \in {"startup", "scheduling"} =>
        \A e \in Entries :
            disk[e] \in Sections /\ disk[e].run # run =>
                e \in configured \X {"json"}

(***************************************************************************)
(* A snapshot never shows the state of two scheduler processes side by     *)
(* side.  Apart from published plan results, which outlive the process,    *)
(* all sections in it were written by the same one.                        *)
(***************************************************************************)
OneRunPerSnapshot ==
    \A r \in Plugins : pc[r] = "printing" =>
        LET shown == {e \in Entries : seen[r][e] # None}
            ofRun == {e \in shown : TopLevel(e) \/ e[2] = "tmp"}
        IN  \A e1, e2 \in ofRun : seen[r][e1].run = seen[r][e2].run

(***************************************************************************)
(* Every wait for the lock ends, for the scheduler and for the plugin.     *)
(***************************************************************************)
WaitsEnd ==
    \A p \in Procs :
        pc[p] \in Waiting \cup Draining ~>
            pc[p] \notin Waiting \cup Draining

(***************************************************************************)
(* "The program will terminate as soon as this file does not exist"        *)
(* (cli.rs:16): a wait for the lock that is under way when the token is    *)
(* cancelled ends, whatever the plugin that holds the lock does.           *)
(***************************************************************************)
CancelledWaitEnds ==
    \A p \in Writers :
        cancelled /\ pc[p] \in Waiting ~>
            pc[p] \notin Waiting \cup Draining

-----------------------------------------------------------------------------
(***************************************************************************)
(* The promise to the plugin.  A draft whose writer is at work is not      *)
(* there; one that a dead or unlucky writer left behind is.                *)
(***************************************************************************)
NoSnapshot == Torn

InProgress(e) ==
    \E p \in Writers :
        pc[p] \in Drafting /\ job[p] # None /\ e = Tmp(job[p].file)

Visible(e) == IF InProgress(e) THEN None ELSE Parse(disk[e])

Store == INSTANCE ResultsStore WITH
    sections <- [e \in Entries |-> Visible(e)],
    taken <- [r \in Plugins |->
                IF pc[r] = "printing" THEN seen[r] ELSE NoSnapshot]

\* The locks, drafts and renames together implement ResultsStore.
ImplementsStore == Store!StoreSpec
=============================================================================
