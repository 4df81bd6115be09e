--------------------------- MODULE PlanScheduler ---------------------------
(***************************************************************************)
(* The scheduling phase (scheduling/scheduler.rs): one task per sequential *)
(* plan group waits for the ticks of its interval and runs the plans of    *)
(* the group one after another on blocking threads; one more task starts   *)
(* clean-ups of the working directories and does not wait for them.  The   *)
(* main thread waits for the cancellation, joins the tasks and drops the   *)
(* runtime, which waits for every blocking thread that is still at work.   *)
(*                                                                         *)
(* Time is the number of tick instants that have passed.  Ticks that come  *)
(* while the group is at work are not lost (MissedTickBehavior::Burst):    *)
(* the task is behind by ticks - cycles, and catches up without a pause.   *)
(***************************************************************************)
EXTENDS Naturals

CONSTANTS
    Plans,          \* the plans of the configuration
    Groups,         \* (group_index, execution_interval)
    Group,          \* plan -> its group
    Position,       \* plan -> position_in_group
    ZeroInterval,   \* groups whose execution_interval is 0
    MaxTicks,       \* bound: ticks of a group
    MaxCleanups,    \* bound: clean-ups due, and clean-ups at work
    None            \* the group awaits no plan

ASSUME PlansAreGrouped ==
    /\ Group \in [Plans -> Groups]
    /\ Position \in [Plans -> Nat]
    /\ \A p, q \in Plans :
        p # q /\ Group[p] = Group[q] => Position[p] # Position[q]
    /\ ZeroInterval \subseteq Groups
ASSUME BoundsAreNumbers == MaxTicks \in Nat /\ MaxCleanups \in Nat
ASSUME NoneIsNoPlan == None \notin Plans

VARIABLES
    surviving,  \* plans that came through the setup and the build
    cancelled,  \* the cancellation token
    main,       \* where run_plans_and_cleanup is
    task,       \* group -> where its task is
    ticks,      \* group -> tick instants that have passed
    cycles,     \* group -> ticks the task has taken
    todo,       \* group -> plans still to be run in this cycle
    awaited,    \* group -> the plan whose run the task awaits
    active,     \* plans at work on a blocking thread
    completed,  \* plan -> runs that are over
    cleaner,    \* where the clean-up task is
    cleanTicks, \* its ticks that it has yet to take
    cleanups    \* clean-ups at work, on blocking threads nobody awaits

groupVars == <<task, ticks, cycles, todo, awaited, active, completed>>
cleanVars == <<cleaner, cleanTicks, cleanups>>
vars == <<surviving, cancelled, main, groupVars, cleanVars>>

Members(g) == {p \in surviving : Group[p] = g}
Spawned == {g \in Groups : Members(g) # {}}

TypeOK ==
    /\ surviving \in SUBSET Plans
    /\ cancelled \in BOOLEAN
    /\ main \in {"scheduling", "joining", "dropping", "ended"}
    /\ task \in [Groups -> {"none", "spawned", "waiting", "cycle", "returned",
                            "panicked"}]
    /\ ticks \in [Groups -> 0 .. MaxTicks]
    /\ cycles \in [Groups -> 0 .. MaxTicks]
    /\ todo \in [Groups -> SUBSET Plans]
    /\ awaited \in [Groups -> Plans \cup {None}]
    /\ active \in SUBSET Plans
    /\ completed \in [Plans -> 0 .. MaxTicks]
    /\ cleaner \in {"waiting", "returned"}
    /\ cleanTicks \in 0 .. MaxCleanups
    /\ cleanups \in 0 .. MaxCleanups

Init ==
    /\ surviving \in SUBSET Plans
    /\ cancelled = FALSE
    /\ main = "scheduling"
    /\ task = [g \in Groups |-> IF g \in Spawned THEN "spawned" ELSE "none"]
    /\ ticks = [g \in Groups |-> 0]
    /\ cycles = [g \in Groups |-> 0]
    /\ todo = [g \in Groups |-> {}]
    /\ awaited = [g \in Groups |-> None]
    /\ active = {}
    /\ completed = [p \in Plans |-> 0]
    /\ cleaner = "waiting"
    /\ cleanTicks = 0
    /\ cleanups = 0

Cancel ==
    /\ ~cancelled
    /\ cancelled' = TRUE
    /\ UNCHANGED <<surviving, main, groupVars, cleanVars>>

-----------------------------------------------------------------------------
(* When a group starts: at the next multiple of its interval since 1970.   *)

compute_start_time_offset_millis(now, interval) == interval - (now % interval)

-----------------------------------------------------------------------------
(* The task of a group (run_sequential_plan_group_scheduler)               *)

\* Mutant: a task that panics takes the others down.
StartTask_TakesAllDown(g) ==
    /\ task[g] = "spawned"
    /\ task' = IF g \in ZeroInterval
               THEN [h \in Groups |-> IF task[h] = "none" THEN "none" ELSE "panicked"]
               ELSE [task EXCEPT ![g] = "waiting"]
    /\ UNCHANGED <<surviving, cancelled, main, ticks, cycles, todo, awaited,
                   active, completed, cleanVars>>

\* The remainder by an interval of 0 panics, and the panic ends the task only.
StartTask(g) ==
    /\ task[g] = "spawned"
    /\ task' = [task EXCEPT ![g] = IF g \in ZeroInterval THEN "panicked"
                                   ELSE "waiting"]
    /\ UNCHANGED <<surviving, cancelled, main, ticks, cycles, todo, awaited,
                   active, completed, cleanVars>>

Tick(g) ==
    /\ task[g] \in {"waiting", "cycle"}
    /\ ticks[g] < MaxTicks
    /\ ticks' = [ticks EXCEPT ![g] = @ + 1]
    /\ UNCHANGED <<surviving, cancelled, main, task, cycles, todo, awaited,
                   active, completed, cleanVars>>

\* Mutant: the interval fires whether or not its time has come.
BeginCycle_AnyTime(g) ==
    /\ task[g] = "waiting"
    /\ cycles[g] < MaxTicks
    /\ cycles' = [cycles EXCEPT ![g] = @ + 1]
    /\ todo' = [todo EXCEPT ![g] = Members(g)]
    /\ task' = [task EXCEPT ![g] = "cycle"]
    /\ UNCHANGED <<surviving, cancelled, main, ticks, awaited, active, completed,
                   cleanVars>>

\* Mutant: missed ticks are skipped (MissedTickBehavior::Skip).
BeginCycle_Skips(g) ==
    /\ task[g] = "waiting"
    /\ cycles[g] < ticks[g]
    /\ cycles' = [cycles EXCEPT ![g] = ticks[g]]
    /\ todo' = [todo EXCEPT ![g] = Members(g)]
    /\ task' = [task EXCEPT ![g] = "cycle"]
    /\ UNCHANGED <<surviving, cancelled, main, ticks, awaited, active, completed,
                   cleanVars>>

\* A tick is ready.  If the token is, too, select! takes either.
BeginCycle(g) ==
    /\ task[g] = "waiting"
    /\ cycles[g] < ticks[g]
    /\ cycles' = [cycles EXCEPT ![g] = @ + 1]
    /\ todo' = [todo EXCEPT ![g] = Members(g)]
    /\ task' = [task EXCEPT ![g] = "cycle"]
    /\ UNCHANGED <<surviving, cancelled, main, ticks, awaited, active, completed,
                   cleanVars>>

\* Mutant: the task looks at the token before its first cycle only.
SeeCancel_AtStart(g) ==
    /\ task[g] = "waiting"
    /\ cycles[g] = 0
    /\ cancelled
    /\ task' = [task EXCEPT ![g] = "returned"]
    /\ UNCHANGED <<surviving, cancelled, main, ticks, cycles, todo, awaited,
                   active, completed, cleanVars>>

SeeCancel(g) ==
    /\ task[g] = "waiting"
    /\ cancelled
    /\ task' = [task EXCEPT ![g] = "returned"]
    /\ UNCHANGED <<surviving, cancelled, main, ticks, cycles, todo, awaited,
                   active, completed, cleanVars>>

\* Mutant: the plans of a group are not sorted.
First_Unsorted(g) == todo[g]

First(g) == {p \in todo[g] : \A q \in todo[g] : Position[p] =< Position[q]}

\* Mutant: the blocking task is spawned but not awaited.
RunPlan_Detached(g) ==
    /\ task[g] = "cycle"
    /\ awaited[g] = None
    /\ \E p \in First(g) \ active :
        /\ active' = active \cup {p}
        /\ todo' = [todo EXCEPT ![g] = @ \ {p}]
    /\ UNCHANGED <<surviving, cancelled, main, task, ticks, cycles, awaited,
                   completed, cleanVars>>

\* The next plan, whether cancelled or not: the loop does not look at the token.
RunPlan(g) ==
    /\ task[g] = "cycle"
    /\ awaited[g] = None
    /\ \E p \in First(g) :
        /\ active' = active \cup {p}
        /\ awaited' = [awaited EXCEPT ![g] = p]
        /\ todo' = [todo EXCEPT ![g] = @ \ {p}]
    /\ UNCHANGED <<surviving, cancelled, main, task, ticks, cycles, completed,
                   cleanVars>>

(***************************************************************************)
(* run_plan is over, in one of the ways PlanRun describes: its result was  *)
(* written, or it failed, was cancelled or panicked, which is only logged. *)
(***************************************************************************)
PlanEnds(p) ==
    /\ p \in active
    /\ active' = active \ {p}
    /\ completed' = [completed EXCEPT ![p] = @ + 1]
    /\ UNCHANGED <<surviving, cancelled, main, task, ticks, cycles, todo, awaited,
                   cleanVars>>

Awaited(g) ==
    /\ awaited[g] \in surviving \ active
    /\ awaited' = [awaited EXCEPT ![g] = None]
    /\ UNCHANGED <<surviving, cancelled, main, task, ticks, cycles, todo, active,
                   completed, cleanVars>>

EndCycle(g) ==
    /\ task[g] = "cycle"
    /\ awaited[g] = None
    /\ todo[g] = {}
    /\ task' = [task EXCEPT ![g] = "waiting"]
    /\ UNCHANGED <<surviving, cancelled, main, ticks, cycles, todo, awaited,
                   active, completed, cleanVars>>

-----------------------------------------------------------------------------
(* The clean-up task (run_cleanup_job)                                     *)

CleanTick ==
    /\ cleaner = "waiting"
    /\ cleanTicks < MaxCleanups
    /\ cleanTicks' = cleanTicks + 1
    /\ UNCHANGED <<surviving, cancelled, main, groupVars, cleaner, cleanups>>

StartCleanup ==
    /\ cleaner = "waiting"
    /\ cleanTicks > 0
    /\ cleanups < MaxCleanups
    /\ cleanTicks' = cleanTicks - 1
    /\ cleanups' = cleanups + 1
    /\ UNCHANGED <<surviving, cancelled, main, groupVars, cleaner>>

CleanupEnds ==
    /\ cleanups > 0
    /\ cleanups' = cleanups - 1
    /\ UNCHANGED <<surviving, cancelled, main, groupVars, cleaner, cleanTicks>>

CleanerSeesCancel ==
    /\ cleaner = "waiting"
    /\ cancelled
    /\ cleaner' = "returned"
    /\ UNCHANGED <<surviving, cancelled, main, groupVars, cleanTicks, cleanups>>

-----------------------------------------------------------------------------
(* The main thread (run_plans_and_cleanup)                                 *)

MainSeesCancel ==
    /\ main = "scheduling"
    /\ cancelled
    /\ main' = "joining"
    /\ UNCHANGED <<surviving, cancelled, groupVars, cleanVars>>

\* join_next gives the outcome of every task; a panic is logged only now.
JoinAll ==
    /\ main = "joining"
    /\ \A g \in Spawned : task[g] \in {"returned", "panicked"}
    /\ cleaner = "returned"
    /\ main' = "dropping"
    /\ UNCHANGED <<surviving, cancelled, groupVars, cleanVars>>

\* Mutant: the runtime is shut down in the background.
DropRuntime_Background ==
    /\ main = "dropping"
    /\ main' = "ended"
    /\ UNCHANGED <<surviving, cancelled, groupVars, cleanVars>>

DropRuntime ==
    /\ main = "dropping"
    /\ active = {}
    /\ cleanups = 0
    /\ main' = "ended"
    /\ UNCHANGED <<surviving, cancelled, groupVars, cleanVars>>

Ended == main = "ended" /\ UNCHANGED vars

-----------------------------------------------------------------------------
TaskStep(g) ==
    StartTask(g) \/ BeginCycle(g) \/ RunPlan(g) \/ Awaited(g) \/ EndCycle(g)

MainStep == MainSeesCancel \/ JoinAll \/ DropRuntime

Next ==
    \/ Cancel
    \/ \E g \in Groups : Tick(g) \/ TaskStep(g) \/ SeeCancel(g)
    \/ \E p \in Plans : PlanEnds(p)
    \/ CleanTick \/ StartCleanup \/ CleanupEnds \/ CleanerSeesCancel
    \/ MainStep
    \/ Ended

Spec == Init /\ [][Next]_vars

(***************************************************************************)
(* Tasks and threads run, and a plan's run ends (PlanRun!RunEnds).  Strong *)
(* fairness of seeing the token: select! picks among the branches that are *)
(* ready at random, so a task that is behind with its ticks cannot prefer  *)
(* them for ever.                                                          *)
(***************************************************************************)
FairSpec ==
    /\ Spec
    /\ \A g \in Groups : WF_vars(TaskStep(g)) /\ SF_vars(SeeCancel(g))
    /\ \A p \in Plans : WF_vars(PlanEnds(p))
    /\ WF_vars(CleanupEnds) /\ SF_vars(CleanerSeesCancel)
    /\ WF_vars(MainStep)

-----------------------------------------------------------------------------
(* Properties                                                              *)

\* Two plans of one group never run at the same time.
OneAtATime ==
    \A p, q \in active : Group[p] = Group[q] => p = q

(***************************************************************************)
(* The plans of a group take turns in the order of their positions: when a *)
(* later one runs, every earlier one has had one run more than it.         *)
(***************************************************************************)
TakeTurns ==
    \A p, q \in surviving : Group[p] = Group[q] /\ Position[p] < Position[q] =>
        /\ completed[q] =< completed[p]
        /\ completed[p] =< completed[q] + 1
        /\ q \in active => completed[p] = completed[q] + 1

\* No run begins before its tick: a group that is behind catches up, no more.
NeverAhead ==
    \A p \in surviving :
        completed[p] + (IF p \in active THEN 1 ELSE 0) =< ticks[Group[p]]

\* When the phase is over, no plan and no clean-up is still at work.
NothingOutlives ==
    main = "ended" => active = {} /\ cleanups = 0

\* No tick is lost, whatever the other groups do: as long as nobody cancels, a
\* plan gets as many runs as its group got ticks.
CatchesUp ==
    \A p \in Plans, n \in 1 .. MaxTicks :
        p \in surviving /\ ticks[Group[p]] >= n ~> completed[p] >= n \/ cancelled

\* Cancellation ends the phase.
CancelEnds == cancelled ~> main = "ended"

-----------------------------------------------------------------------------
(***************************************************************************)
(* Tasks, cycles and threads together serve the ticks of every group turn  *)
(* by turn, and nothing but a tick makes a plan run.                       *)
(***************************************************************************)
Turns == INSTANCE Rota WITH
    taking_part <- surviving,
    runs <- completed,
    running <- active

ImplementsRota == Turns!RotaSpec
=============================================================================
