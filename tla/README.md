# Robotmk in TLA+

Robotmk runs Robot Framework tests for Checkmk. `robotmk_scheduler` is a
long-lived process: it prepares directories and environments, then runs plans
(suites of tests) on a schedule, with retries, timeouts and cancellation. Its
results are files in one directory, which a second program,
`robotmk_agent_plugin`, prints for the Checkmk agent, possibly at the same time.
These modules model the parts of both programs in which order, failure and
concurrency matter. Paths below are relative to the repository.

1. [The system](#1-the-system)
2. [The modules](#2-the-modules)
3. [State and actions against the code](#3-state-and-actions-against-the-code)
4. [The runs](#4-the-runs)
5. [Fairness](#5-fairness)
6. [The proofs](#6-the-proofs)
7. [Where code and documentation part](#7-where-code-and-documentation-part)
8. [What is not modelled](#8-what-is-not-modelled)
9. [The plan](#9-the-plan)

## 1. The system

| Component | Code | State it keeps | Operations |
|---|---|---|---|
| Section exchange | `src/lock.rs`, `src/section.rs` | the results directory; an advisory lock on the configuration file | wait for a lock (cancellable), write to a draft and rename, walk and read |
| Agent plugin | `src/bin/agent_plugin.rs` | none between runs | take the read lock, read all sections, print |
| Scheduler main | `src/bin/scheduler/main.rs` | the phase; surviving plans; failures collected so far | the phases in their order, with checks of the token |
| Termination control | `src/bin/scheduler/termination.rs` | the cancellation token | cancel on Ctrl+C or when the run flag file is missing |
| Configuration | `src/config.rs`, `.../internal_config.rs` | none | load, flatten the groups into plans, sort by grouping |
| Setup | `.../setup/{general,unpack_managed,rcc,windows_permissions}.rs` | directories on disk and who has access to them, from one run of the scheduler to the next | treat plans one by one, per session or together; drop and report those that fail; remove what is left of former plans |
| Environment building | `.../build.rs` | the build stage of each plan, in memory and in a section | build one environment after another |
| Scheduling | `.../scheduling/scheduler.rs` | one tokio task and clock per group; a clean-up task | tick, run the plans of a group in order, start clean-ups, stop |
| Clean-up | `.../scheduling/cleanup.rs` | lists of entries and of times, both older than the directory | remove old executions from the working directory of a plan |
| Plan execution | `.../scheduling/plans.rs`, `src/plans.rs`, `src/rf/*.rs`, `src/results.rs` | attempt reports and output paths of one run | attempts until one passes, rebot, report |
| Environments | `src/environment.rs` | none | wrap a command, build instructions, meaning of an exit code |
| Sessions, supervision | `src/session.rs`, `src/child_process_supervisor.rs` | one child process | spawn, wait for exit, time or token, interrupt, kill |
| Process trees | `src/termination.rs` | a list of processes | kill a process and its descendants |
| Windows tasks | `src/tasks/*.rs` | a registered task, the file with the exit code | create, run, wait, kill, delete, read the exit code |
| Helpers | `src/command_spec.rs`, `src/fs.rs`, `cli.rs`, `logging.rs` | none | |

**How they interact.** The threads of the plan groups and the main thread share
the results directory with each other and with plugin processes; the lock is the
only thing between them. The token reaches every wait: for the lock, for a
child, for a tick, for the grace period. The setup calls the supervision for
RCC, the plan execution calls it for Robot Framework and rebot, and each such
call makes a runtime of its own (`#[tokio::main]` on an inner function), whose
drop waits for the blocking threads it started. Phases hand a shrinking list of
plans to each other and write sections on the way.

**What is hard, and what makes each part correct.**

- *Section exchange*: a walk that reads file by file, against writers, a sweep, and
  crashes between a draft and its rename. Correct: a plugin prints one state of
  the directory, never a truncated section, never two scheduler processes mixed;
  a wait ends, and a cancelled one leaves no lock.
- *Scheduling*: ticks, plans, clean-ups and the token in any order; groups that
  are behind. Correct: plans of a group never overlap and keep their order, no
  tick is invented or lost, cancellation ends everything, and nothing goes on after.
- *Plan execution*: a command may end in any way at any moment, leaving no, half
  or whole an output. Correct: the report accounts for every attempt, rebot gets
  what counts in order, and the two verdicts of a report (attempts, merged
  output) agree.
- *Supervision and process trees*: the tree changes while it is listed, interrupted
  and killed. Correct: what was listed below the child dies, nothing else does,
  the child is dead at the end, and the end comes.
- *Windows tasks*: a script in a console that its user may close, a task scheduler
  that may refuse any call. Correct: an exit code is that of the command, and no
  command runs on after the call. To its callers it is what supervision is.
- *Clean-up*: a choice made from what was read earlier, while executions write and
  another clean-up removes. Correct: what is removed is not among the newest, enough
  is left, and no more than the limit allows.
- *Setup and building*: many stages, each of which may lose some plans. Correct:
  every plan is either scheduled as reported or reported as failed, once.
- *Directories of the setup*: what is on disk outlives the scheduler, the
  configuration and the users of plans, and a run may end anywhere. Correct: who gets
  through the setup finds his own directories, to which nobody else has access, with
  the right content; who is gone leaves nothing behind; who stays keeps his history.

`PROJECT.json` has the hazards of the code line by line with the properties
that would notice them going wrong.

## 2. The modules

| Module | What it is |
|---|---|
| `ResultsStore` | abstract: a store that changes one entry at a time and from which a plugin takes everything in one step |
| `SectionExchange` | lock, cancellable wait, draft and rename, sweep, walk, crashes and restarts; implements `ResultsStore` |
| `Rota` | abstract: each tick entitles each plan of a group to one run, in turn |
| `PlanScheduler` | the scheduling phase: tasks, clocks, threads, clean-ups, the token; implements `Rota` |
| `PlanReport` | abstract: each attempt is told once, up to a success or the last, then one merge |
| `PlanRun` | one execution of a plan: commands, timeouts, outputs, rebot; implements `PlanReport` |
| `SessionRun` | abstract: what `Session::run` promises to those who run a command |
| `ProcessTree` | a command in the scheduler's own session, its supervision and the end of its process tree; implements `SessionRun` |
| `WindowsTask` | a command in another user's session, as a task of Windows; implements `SessionRun` |
| `PlanFates` | abstract: one fate for each configured plan, told step by step and never taken back |
| `SetupPipeline` | from the start of the program to scheduling, stage by stage; implements `PlanFates` |
| `PlanDirectories` | the directories of plans and sessions on disk, over several runs of the scheduler |
| `Cleanup` | the clean-up of one plan's working directory |
| `MCSectionExchange`, `MCPlanScheduler`, `MCSetupPipeline`, `MCCleanup`, `MCPlanDirectories` | values of constants for TLC |
| `X_proofs` for each of the eight detailed modules `X` | theorems for every value of the constants |

The modules meet at interfaces rather than in one product: `PlanScheduler!PlanEnds`
stands for a whole behaviour of `PlanRun` followed by a write of
`SectionExchange`, `PlanScheduler!StartCleanup` to `CleanupEnds` for one of `Cleanup`'s
clean-ups, and `PlanDirectories!CleansUp` for what they take; an attempt of `PlanRun`
and a command of `SetupPipeline` stand for a behaviour of `SessionRun`, which
`ProcessTree` and `WindowsTask` are both shown to implement; a write in
`SetupPipeline` stands for one of `SectionExchange`. `SetupPipeline` and
`PlanDirectories` go through the same stages, one with the sections and the other with
the disk. Each stand-in allows every outcome of what it stands for, and where it is
assumed to end, the module behind it has a property that says so (`RunEnds`,
`SupervisionEnds`, `CallReturns`, `WaitsEnd`). Operators named `X_Something` next to an
`X` are mutants: variants of `X` with a plausible bug, each of which breaks one
property. They are used by no action.

## 3. State and actions against the code

`PROJECT.json`'s `map` gives the source lines of every definition. In outline:

**SectionExchange.** `disk` is the results directory, with an entry for each file
and its `.tmp`; a file holds a section (which knows the scheduler process that
wrote it), nothing, or a part (`Torn`). `flock` is who holds the lock; each
acquisition opens the file anew (`lock.rs:87`), so threads exclude each other as
processes do. `pc` follows `with_cancellation`: *queued* (the blocking task is not
taken up), *waiting* (parked in `flock()`), *granted*, *locked* (`select!` saw
it); a cancelled wait that is parked is *draining* until the kernel answers, then
*drained* until the file is closed. `CreateDraft`, `FillDraft`, `Rename`,
`RemoveDraft`, `Release` are `section.rs:73-121`, each with its failure.
`SweepEntry` .. `SweepDone` are `setup/general.rs:354-369`. `Boot`, `Exit` and
`Crash` bound the life of a scheduler process; the disk outlives it.

**PlanScheduler.** Time is the number of tick instants that have passed per
group (`ticks`) and those the task has taken (`cycles`), which is what
`MissedTickBehavior::Burst` comes to. `task`, `todo`, `awaited` are the loop of
`scheduler.rs:51-73`; `active` are plans on blocking threads. A group whose
interval is 0 panics in `StartTask`, because `compute_start_time_offset_millis`
takes a remainder by it; the panic is the task's alone and is logged at the join.
`MainSeesCancel`, `JoinAll`, `DropRuntime` are the end of the phase.

**PlanRun.** `xml` has what became of each attempt's output: absent, torn, or a
verdict per test. The command is Robot Framework, external, as far as its
arguments say: an incremental retry runs the failed tests of the *previous*
attempt's output and refuses to run without one. `RobotExits`, `RobotTimesOut`,
`RobotRunFails`, `SeesCancel` are the ways `plans.rs:83-131` can go; the exit is
not tied to the output except that 0 means it was written without failures. `Rebot*`
is `rf/rebot.rs`.

**ProcessTree.** `parent`, `running`, `group` are the operating system's;
`Fork`, `LeaveGroup`, `ProcessExits` may happen at any time, `ObeysInterrupt`
after a SIGINT unless the process is `stubborn`. `platform` is chosen at the start. `supervisor` walks through
`wait_for_child` and `kill_process_tree`; `processes` is the list made by
`refresh_processes`, old from then on. On Unix orphans go to init, on Windows
they keep the id of the dead parent.

**SetupPipeline.** `Stages` is the program text of `main.rs`, `general.rs`, `rcc.rs`
in its order for the platform and the profile; `Unit` says which plans a stage
treats together. `surviving`, `failures` are what the stages hand on, and `before` is the
order in which they list the plans: sessions come out of a `HashMap`, so a stage that
goes through them lists their plans in any order of sessions (`Extended`), and the list
is sorted by grouping at the end of the general setup and at that of the RCC setup
(`StageOver`). Environments are built in the order of the list (`NextToBuild`).
`build_states` is `BuildStageReporter`'s map and `published` what is in the sections.

**PlanDirectories.** `at` is the place in `Stages`, the stages of `general.rs`,
`unpack_managed.rs`, `rcc.rs` and what follows that touch the disk; `todo` is what
the stage is still to treat: directories, or files and the users who are to read
them. `exists`, `access`, `content` and `readers` outlive the run. `Boot` brings any
configuration: which plans there are and whose they are. `Remove`, `RemovalFails`
are the removals (`general.rs:23-39`, `403-421`), a failure of which is the end of
the run; `SetUp`, `SetUpFails` make directories and grant access to them
(`reset_access` comes first for working directories alone), where a failure drops the
plans the directory was for. `CheckSize`, `Unpack`, `UnpackFails` are
`unpack_managed.rs`, which opens the archive twice; `Deploy` replaces it at any time.
`Prepares` is what the commands of RCC and the builds write, in the directories of the
sessions of plans, except for the command that enables long paths: it writes in the
directory of the current session, whichever sessions the plans have, and runs even when
the last plan with RCC has been dropped on the way (`rcc_plans` are those the setup of
RCC began with).
`End` is a cancellation, a failure or a crash; commands that were at work may survive
it (`survivors`) and write later (`SurvivorWrites`), which `haunted` records.

**Cleanup.** `List` to `Finish` are `cleanup_working_directory`: entries, then the
clock, then the modification time of each entry, then the choice (`Choices`: all that
are old, or all but the newest), then the removals one by one, in two steps each,
because `remove_dir_all` removes the content first and that modifies the directory.
Times are compared in whole seconds (`Secs`), and a stable sort that is reversed
leaves ties in either order. `StartExecution` and `WriteInto` are the executions;
`Crash` is a scheduler that dies with clean-ups at work.

**WindowsTask.** `supervisor` walks through `run_task`; `script` is the instance of
the task: queued, in the command, in the `echo` of the exit code, over, or dropped
before it began. `exit_code` is the file, which the redirection creates before
anything is in it. `UserInterferes` closes the window or logs off. `RunFails` is the
early return at `windows.rs:38-40`. `FindEngine` asks for the process id of the task's
engine, which a queued instance has not got yet and which may be gone or replaced, and
`KillTree` is `kill_process_tree`, which does nothing about a process that is not in its
list; `KillFails` is a task scheduler that does not tell the id. Processes the command
has forked by the time of the kill are `ProcessTree`'s matter.

**The abstract modules** are no translations of code but the promises that callers and
readers rely on; the definitions of theirs that stand for code are mapped to where the
promise is kept or relied on. Each has an instance in the module that implements it:

| Abstract | Instance | What its variables are |
|---|---|---|
| `ResultsStore` | `SectionExchange!Store` | the directory as a plugin would see it if it came now: the sections under their names, and the drafts nobody works on; what a plugin has taken is what its walk found, while it prints that |
| `SessionRun` | `ProcessTree!Contract`, `WindowsTask!Contract` | the phase of the supervisor; whether the command runs |
| `Rota` | `PlanScheduler!Turns` | surviving plans, ticks, runs and active plans, as they are |
| `PlanReport` | `PlanRun!Promised` | where the run is; the attempt reports; the verdict of rebot |
| `PlanFates` | `SetupPipeline!Fates` | `FateOf`: the build state of a plan where there is one, its failure where failures are written; what is scheduled |

## 4. The runs

| Configuration | Question | Instance, and why it is enough |
|---|---|---|
| `SectionExchange_waits` | Does the lock keep every walk on one state, and do the waits end? | 2 groups, 1 plugin that lets go, 3 files, 1 process: two writers that contend with each other and with a reader, main before both, a crash anywhere. One plugin, because overlapping readers may starve a writer, which the kernel decides (`WaitsEnd` is false of two plugins that take turns in the lock); that they do not disturb each other is proved for any number (`MutualExclusion`, `Snapshot`) |
| `SectionExchange_restart` | What do restarts and crashes leave, and is the exchange a `ResultsStore`? | 2 processes, the second perhaps without a plan; 1 group with 2 files, 1 plugin: leftovers of each kind (draft, top-level, dropped plan, kept plan) |
| `SectionExchange_cancelled_wait` | Do cancelled waits end if the plugin does not let go? | violated, see section 7 |
| `PlanScheduler_groups` | Who runs when? Is every tick worked off, and does cancellation end it? | a group of 3 plans and one with interval 0; any plan lost in the setup; 2 ticks (one cycle can be behind another), 2 clean-ups. That the panic of the one group leaves the other its ticks is `CatchesUp`. Several groups with intervals share nothing but the token and are covered by the theorems |
| `PlanRun_verdicts` | Are reports true? | 2 tests, 3 attempts (a retry with two predecessors), both strategies and environments |
| `ProcessTree_tree` | Interrupt, then kill; or kill at once? | both platforms, 3 processes: a grandchild, an orphan, one that left the group, found in one pass or two |
| `ProcessTree_survivor` | Does the whole tree die? | violated, see section 7 |
| `WindowsTask_run` | Is the outcome of a task true, and is the contract kept? | 2 exit codes, with and without a task of an earlier scheduler |
| `WindowsTask_tasks` | Are all tasks gone in the end? | violated, see section 7 |
| `SetupPipeline_sections` | Is every plan accounted for? | 4 plans, 2 sessions, with and without RCC and archive, every stage Windows has; positions that run across the sessions, so that the list is out of order whenever a stage has gone through the sessions |
| `PlanDirectories_history` | What becomes of directories from run to run? | 1 plan with everything a plan can have, 3 sessions (two users besides the current one, so that access can be left over from one to the other), 3 runs (with, without and with the plan again), 2 versions of its archive, the second too large |
| `Cleanup_overlap` | What do clean-ups leave? | 2 executions, 2 clean-ups that overlap or not, 4 instants in 2 seconds (ties within a second, and ages on both sides of the limit), a limit of one execution or of no seconds |

Bounds: `MaxStarts` (scheduler processes), `MaxTicks`, `MaxCleanups`, `MaxVersions`
(of an archive), `MaxRuns` (executions), `MaxTime` (the clock), and the sizes of the
constant sets. Symmetry is used for the two clean-ups and for the two users besides the
current session: no definition tells them apart, and these runs have no liveness. `CHECK_DEADLOCK` is off nowhere: the ends of the
models are explicit steps (`Terminated`, `Ended`, `Over`, `BoundReached`), and the
exchange and the executions never end. Type invariants (`TypeOK`) are proved
(section 6) rather than run.

What the runs show, property by property:

- *Exclusion, ReadsAreCurrent*: a plugin's walk is a snapshot: until it lets go of
  the lock, all it has read is still there.
- *ImplementsStore*: seen from the plugin, a write is one step and a read is one
  step, drafts of writers at work are invisible, and a draft left by a crash
  appears as a whole section or not at all.
- *PublishedNeverTorn, OneRunPerSnapshot*: no failure or crash puts a truncated file
  under a section's name; nothing of an earlier process but results of plans still
  configured is ever shown with the sections of a new one.
- *WaitsEnd, CancelledWaitEnds*: given plugins that let go.
- *OneAtATime, TakeTurns, NeverAhead, CatchesUp, NothingOutlives, CancelEnds*: the
  promises of scheduling in section 1. Cancellation does not skip plans: a cycle
  that has begun goes through all its plans, each of which then ends early.
- *ReportIsComplete, OutputsAreReported, PassedTestsRest, VerdictsAgree, RunEnds*:
  the promises of plan execution. `VerdictsAgree` names the one way for the two verdicts
  of a report to differ: an attempt that is timed out after it closed its output is not
  merged (`plans.rs:101`), but its passes are not run again by an incremental retry
  (`robot.rs:65`), and the merged output then lacks them although the last attempt is
  reported as passed. The property says that only such tests can be missing, and that the
  report itself shows it: it has an attempt that is neither a success nor a test failure
  (`RestedUncounted`).
- *TreeIsKilled, OnlyTreeIsKilled, CooperativeTreeEnds, SupervisionEnds,
  KeepsContract*: the promises of supervision; with `KeepsContract` of `ProcessTree` no
  kill is refused and the child is always over at the end, with that of `WindowsTask` a
  kill that fails is the one way for a command to run on.
- *CompletedIsTrue, CommandIsOver, CallReturns*: the promises of tasks. A window that
  is closed, a task that never came to run and a file that is still empty are all
  errors, never exit codes; the wait is bounded by the time alone. A command runs on
  after the call, or begins after it, only if the task scheduler did not tell the id of its
  process or told one that is not there.
- *Accounted, SectionsPartition, SchedulesWhatWasBuilt, BuildsInTurn, SetupEnds*: the
  promises of the setup. *BuildsInTurn* rests on the list being sorted after the setup of
  RCC, which the general setup's sort does not make unnecessary.
- *AccessFits, NothingForeign, FormerPlansForgotten, HistoryIsKept, ArchiveIsWhole*: the
  promises of the setup's directories, with two reservations that the properties
  state: a command that has survived its scheduler can write what was removed again
  (`haunted`), and an archive that is replaced between its measuring and its unpacking
  escapes the limit of its size (`checked`).
- *RemovedForNewer, YoungAreSafe, EnoughRemain, CleanUpIsThorough*: the promises of
  clean-ups. Four reservations: under a limit of age an execution that takes longer
  may lose its directory while it runs; under a limit of executions one is safe only
  until as many others were modified since the second it was created in; what is left of
  a removal that broke off counts as the newest and may push a whole execution out, so
  that `EnoughRemain` promises as many as the limit less one for each of them (`Broken`);
  and two clean-ups that overlap can leave fewer executions than the limit, because what
  one is about to remove the other counts among the newest (so `EnoughRemain` is about
  clean-ups that do not overlap; the scheduler starts them 300 seconds apart).

## 5. Fairness

- `SectionExchange`: weak fairness of the scheduler's own steps, which are
  straight-line code. Strong fairness of `Grant` and `PluginLock`: the kernel serves
  a waiter of a lock that becomes free again and again. `PluginFairness` says that a
  plugin that got the lock reads on and lets go; `FairSchedulerSpec` leaves it out.
- `PlanScheduler`: weak fairness of tasks and the main thread; of `PlanEnds`, because
  a run ends (`PlanRun!RunEnds`, with `ProcessTree!SupervisionEnds` for each command
  and `SectionExchange!WaitsEnd` for the report); of `CleanupEnds`, a loop over a
  finite list. Strong fairness of seeing the token, because `tokio::select!` picks at
  random among the branches that are ready. No fairness of ticks or cancellation.
- `PlanRun`: weak fairness of the two timeouts only. Commands may hang for ever.
- `ProcessTree`: weak fairness of the supervisor and of its two clocks; a process that
  obeys an interrupt exits. Nothing is assumed of other processes.
- `WindowsTask`: weak fairness of the steps of `run_task` and of the clock: the calls of
  the task scheduler return, with or without success. Nothing is assumed of the script
  and its user.
- `SetupPipeline`: weak fairness of its steps: commands have a timeout of their own,
  and waits for the lock end if plugins let go.
- `PlanDirectories` and `Cleanup` have no liveness properties and assume no fairness.

## 6. The proofs

Proved by TLAPS for all values of the constants, from the constants' named
assumptions (distinct actors and marks, types, positions that differ within a group):

**`SectionExchange_proofs`**: `Typing`, `MutualExclusion`, `Snapshot`, `NeverTorn`,
`CleanStart`, `OneRun`. None of these is inductive alone. `IInv` adds: who has a job
and when (`JobsFit`: jobs are of the present process; before scheduling only Main
works, and then it does not), that a draft that waits for its rename is whole
(`DraftsFit`), that a plugin has seen nothing ahead of its walk (`WalksFit`), and
that what a snapshot promises of volatile entries holds of the directory
(`OneRunOnDisk`). The argument: only the holder of the exclusive lock changes `disk`
(`DiskChangedBy`, `DiskChanges`), so reads stay current; whatever appears under a
section's own name comes from a whole draft of the present process (`Appearances`);
a process writes its first section after its sweep (`StartUps`), so everything
volatile is its own. `StoreIsImplemented` is the refinement: the holder of the exclusive
lock is the only writer with a draft under way, so each of its steps changes what is
visible under one name at most (`Shown`, `Taken`), and all steps of a walk but its last
are stutters, because by `ReadsAreCurrent` what it has read is still there when it lets
go. It assumes that the mark for "no job" is not a file with its section
(`NothingIsNoJob`). `PublishedIsKept` is an action property: a published result is only
replaced by a whole section of the process that runs, or goes in the set-up of one that
is not configured with the plan; no error, crash or cancelled wait takes one away. It
needs that the lock is asked for with nothing to write in the set-up only (`SweepsFirst`).

**`PlanScheduler_proofs`**: `Typing`, `Sequential`, `InOrder`, `NotEarly`,
`NoneOutlives`, `RotaIsImplemented`, `DropOnlyWaits`, `ZeroIntervals`, `StartsOnTheBeat`. `IInv` counts: a surviving plan has had one run
per cycle of its group, less one if it is still to run or runs now (`RunsFit`); who
comes after a plan that is to run or runs is still to run (`TurnsFit`); what is at
work is what its group awaits (`TasksFit`). Order and bounds follow by arithmetic, and so does the refinement: a plan that
begins is the first of those to run, and by `RunsFit` those before it have had this
turn and those after it have not, which is what `Rota` asks. `DropOnlyWaits` (action
property): once the tasks are joined no plan is at work and none begins, so the end of the
runtime has only clean-ups to wait for. `ZeroIntervals`: no plan of a group with interval 0 ever runs,
because its task panics before it takes a tick (`ZeroTasksFit`).
`StartsOnTheBeat` is about `compute_start_time_offset_millis` alone: for a positive
interval the offset is between 1 and the interval and leads to a multiple of it.

**`ProcessTree_proofs`**: `Typing`, `KillsTheTree`, `KillsNothingElse`, `ChildDies`,
`TreeKeepsContract`, `InterruptReachesGroup`, `SupervisionComesToAnEnd`. By
`TreeKeepsContract` every step of it is one of `SessionRun` or none.
`IInv` says that ids of listed and killed processes are not free (`IdsFit`), that what
is in `pids_in_tree` does not run, starting with the child, and is closed when the
kill is over (`KillFits`), and that a child the list does not show is dead
(`ListFits`). `NobodyRises` is where the assumption that ids are not used twice enters.
`InterruptReachesGroup` (action property) is the safe half of `CooperativeTreeEnds`:
after the interrupt all that runs in the group has got the signal, and a group in which
everyone obeys gets no new member, so that it can only shrink. It rests on processes of
the group having been started (`MembersFit`), so that none of them is started again.
`SupervisionComesToAnEnd` bounds the steps of the supervisor by eight and one for each
process id, which are assumed to be finitely many there and nowhere else: the loop over
the children ends because `pids_in_tree` grows with each of them.

**`WindowsTask_proofs`**: `Typing`, `ReportsTrueCodes`, `EndsCommands`, `DeletesTasks`,
`TaskKeepsContract`, `NothingStirsAfterwards`. `IInv` ties the script to where `run_task` is (`PhasesFit`) and the
file to the script (`ScriptFits`: a code is in it only when the command has ended with
it and the script is over); `CleanedUp` carries the kill and the deletion to the end.
`EndsCommands` is about every way to the end of the call, those included where the process
was not found. `NothingStirsAfterwards` (action property): from the end of a kill that found the
process, script, result and exit code stay as they are, though the task may still be registered;
the file is not written to while it is read.

**`PlanRun_proofs`**: `Typing`, `CompleteReports`, `ReportedOutputs`, `RestOfPassedTests`,
`AgreeingVerdicts`, `ReportIsImplemented`, `RunComesNearer`. `IInv` counts reports against attempts (`ReportsKeepUp`), says that a
success is the last attempt and is merged (`SuccessIsLast`), that paths are of reported
attempts and in order (`PathsAreReported`), how far an output is (`OutputFollowsChild`,
`WritesForSome`) and, the core of the argument, that a test that an output does not show
has passed in an earlier one (`MissingHasPassed`). `CountsAreMerged` says that the output of
every attempt that counts is given to rebot. The attempt in which a test passed that the
last one does not show is therefore merged (`MergedFits`), where nothing that comes after it
shows the test, or its report says that it does not count. For `PlanReport` this is what it
takes to know that there is something to merge if and only if a report speaks of it; then the end of an attempt maps to `Try`, the end of rebot to
`Conclude`, being cancelled to `GiveUp`, and all that commands do to a stutter.
`RunComesNearer` bounds the steps of a run by four for each attempt and three for rebot.

**`SetupPipeline_proofs`**: `Typing`, `FailuresAccounted`, `PartitionOfSections`,
`BuiltIsScheduled`, `OrderOfBuilds`, `FatesAreImplemented`, `SetupGoesForward`. How many stages there are depends on the platform
and the profile, so the places are counted from the end (`Left`). `IInv` says that a
stage takes whole units (`UnitsTogether`), that failures are written when they are
final (`FailuresAreFinal`), that build states are those of the surviving plans
(`BuildsArePublished`) and change in turn (`InTurn`), and that the list of plans is sorted
as soon as the setup of RCC is over (`ListIsSorted`). The refinement of `PlanFates` needs
besides that no failure is told before the last is known, and that only environments
are ever under way (`FatesFit`): then a write of a section is one step of the story of
the plans in it, and everything between writes is a stutter. `SetupGoesForward`: each step
ends the program, goes on to the next stage, or leaves less to do in this one (`ToDo`).

**`Cleanup_proofs`**: `Typing`, `RemovesForNewer`, `SparesYoung`, `LeavesEnough`, `IsThorough`,
`CleanUpsEnd`. `IInv` says
that what was read of an entry is not older than the entry and not newer than it is
now, so that whatever was among the newest then has as many rivals now. `LeavesEnough` adds
`Reserves`: at each step of a clean-up that is alone there is a set of the limit's size
among the entries it will not remove; those of the set that are not whole are what removals
left that broke off (`KeptAreSpared`). It is about any number of executions and of
clean-ups of which no two have overlapped. `IsThorough` adds `Accounted`: what is left of
the entries that were there at the start is still to be read or has been read, until
the choice, and then what was not chosen is within the limit; a failure is the one way
out. It holds for clean-ups that overlap as well. `CleanUpsEnd` bounds the steps in which a
clean-up lists, reads, chooses or is done with an entry by `2 * MaxRuns + 3` and says that
nobody else adds to them. The files it removes within an entry are not counted: how many
there are depends on the entry; they give it nothing more to do.

**`PlanDirectories_proofs`**: `Typing`, `AccessFitsAlways`, `NothingForeignEver`,
`FormerPlansAreForgotten`, `ArchiveIsAlwaysWhole`, `HistoryIsAlwaysKept`. The properties are
about the end of the setup; `IInv` says for every stage what holds from there on: what a
stage has to treat (`TodoFits`), that directories which are made anew are still to be
removed or are gone (`Anew`, `Fresh`), who can have access at all (`SessionAccess`,
`ManagedAccess`), and that what a plan needs is as it should be once its stage is over
or has treated it (`OwnFits`, `FilesFit`, `UnpackedFits`). `Blank` says that a directory that
does not exist holds nothing, so that one that is made is empty. `Forgotten` holds
through all runs: it is set when a run schedules without a plan, and by then `Fresh`
has the plan's directory gone. The lemmas `Moves`, `Leaving`, `Treats`, `Drops` sort the steps
by what they change, so that each part of `IInv` looks at few of them.

**Abstract specifications.** All five are shown to be implemented by proof.
`ImplementsStore` and the two `KeepsContract` are also properties of runs.
`ImplementsRota`, `ImplementsReport` and `ImplementsFates` are only proved; TLC agrees with
each of them on the instance of the component's run.

**Model-checked only**: the liveness properties (`WaitsEnd`, `CancelledWaitEnds`,
`CatchesUp`, `CancelEnds`, `RunEnds`, `CooperativeTreeEnds`, `SupervisionEnds`, `CallReturns`,
`SetupEnds`), because the prover cannot reason about ENABLED. For some of them, the part
that is a matter of safety is proved, for every value of the constants: a measure that
every step of the component itself lowers and no other step raises. Of `RunEnds` this is
`RunComesNearer`, of `SupervisionEnds` `SupervisionComesToAnEnd`, of `SetupEnds`
`SetupGoesForward`, of `CooperativeTreeEnds` `InterruptReachesGroup`; `CleanUpsEnd` is what the
fairness of `PlanScheduler!CleanupEnds` relies on. What TLC adds is that a step is
possible until the end.

## 7. Where code and documentation part

- `SectionExchange_cancelled_wait`: `cli.rs:16` says that the program terminates as
  soon as the run flag file does not exist. A thread parked in `flock()` cannot be
  stopped, and `with_cancellation` returns only after the runtime it made is dropped,
  which waits for that thread (`lock.rs:92-104`). A plugin that keeps the shared lock
  keeps the scheduler from terminating.
- `ProcessTree_survivor`: the comment at `termination.rs:48` speaks of the termination of
  the entire process tree. The tree is killed from one list; a process that is started
  between the listing and the kill of its parent is never looked at.
- `WindowsTask_tasks`: a test of the scheduler (`tests/test_scheduler.rs:639`) asserts that
  no task of robotmk is left. `run_task` registers the task, and when it cannot be
  started it returns (`windows.rs:38-40`) before it comes to the deletion.

## 8. What is not modelled

- Process ids that are used again, kills that are refused, a listing that is not one
  step; two files of the same name for two plans with the same id (nothing in the code
  checks ids; the configuration is generated).
- A replaced configuration file, which would split the lock: outside the repository.
- Contents: command lines, sections' JSON, log lines, times in reports, archive formats,
  icacls arguments.
- The exit code of a cancelled scheduler as a property: a wait for the lock that is
  cancelled in the sweep is given a context (`general.rs:299`) and makes the scheduler
  end with an error; in later phases it ends with success. `SetupPipeline!Sweep` and
  `WriteFails` allow both; no document promises either.
- A clock that is set back.
- That users keep their access to RCC's binary and profile when their plans are gone:
  `PlanDirectories!readers` shows it (grants add up), and no document says otherwise.
- The command lines that `environment.rs` wraps, and the mapping of the configuration in
  `internal_config.rs`: data without state, constants of the models.
- `cli.rs`, `logging.rs`, `command_spec.rs`, `fs.rs`: without state. `ci/`, `setup/`,
  `vagrant/`, `book/`, `data/`, `examples/`, `tests/`: not the program.

## 9. The plan

The order followed, by importance: `SectionExchange` with `ResultsStore`, `PlanScheduler`,
`PlanRun`, `ProcessTree`, `SetupPipeline`; then `Cleanup`, `WindowsTask`, `SessionRun` with its two
implementations, and `PlanDirectories`; then `Rota`, `PlanReport` and `PlanFates` for those
who rely on the components without their details; the proofs along with them. What is left, in order:

1. The thread that polls the run flag file (`termination.rs`) as part of one model with
   the phases of `main.rs`: that a file that is missing at any poll cancels, once.
2. The flattening of the configuration into plans and its sort (`internal_config.rs`) as
   a function, with the order that `PlanScheduler` takes for granted as its
   postcondition.
3. Measures for `WindowsTask` and for a run of `PlanDirectories`, as for the others.
