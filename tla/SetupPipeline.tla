--------------------------- MODULE SetupPipeline ----------------------------
(***************************************************************************)
(* The scheduler from its start to the scheduling of plans (main.rs): the  *)
(* general setup, the unpacking of managed robots, the grace period, the   *)
(* setup of RCC and the building of environments.  A stage treats plans    *)
(* one by one, session by session or all together; the plans of a unit     *)
(* that fails are dropped and reported.  Anything that is not one plan's   *)
(* or one session's fault ends the program.  Cancellation is noticed by    *)
(* the commands that are supervised (ProcessTree), by the waits for the    *)
(* lock (SectionExchange), and by three checks in main.rs.                 *)
(***************************************************************************)
EXTENDS Naturals, Sequences

CONSTANTS
    Plans,      \* the plans of the configuration
    Rcc,        \* plans with an RCC environment
    Managed,    \* plans whose robot comes in an archive
    Sessions,
    Session,    \* plan -> its session
    Current,    \* the session of the scheduler itself
    Position,   \* plan -> its place in (group_index, position_in_group) order
    Platform,   \* "unix" or "windows"
    Absent      \* a section that is not there

ASSUME PlansAreConfigured ==
    /\ Rcc \subseteq Plans
    /\ Managed \subseteq Plans
    /\ Current \in Sessions
    /\ Session \in [Plans -> Sessions]
    /\ Platform = "unix" => \A p \in Plans : Session[p] = Current
    /\ Position \in [Plans -> Nat]
    /\ \A p, q \in Plans : p # q => Position[p] # Position[q]
ASSUME PlatformIsKnown == Platform \in {"unix", "windows"}

Phases == {"ManagedRobots", "GracePeriod", "RCCSetup", "EnvironmentBuilding",
           "Scheduling"}
BuildOutcomes == {"NotNeeded", "Success", "Timeout", "Error"}
BuildStages == {"Pending", "InProgress"} \cup BuildOutcomes

BuildStates == UNION {[S -> BuildStages] : S \in SUBSET Plans}

ASSUME AbsentIsNoSection ==
    \A section \in Phases \cup (SUBSET Plans) \cup BuildStates : Absent # section

VARIABLES
    grace_period,   \* it was asked for
    custom_profile, \* RCCProfileConfig::Custom
    cancelled,      \* the cancellation token
    at,             \* index of the stage under way
    ended,          \* "no", or how the program ended: "ok" or "error"
    surviving,      \* plans that have not failed
    treated,        \* those the stage under way is done with
    before,         \* the order in which the plans are listed
    failures,       \* plan -> how many setup failures it was given
    completed,      \* plans that build_environments is going to return
    build_states,
    published       \* the sections: phase, setup_failures, builds

setting == <<grace_period, custom_profile>>
vars == <<setting, cancelled, at, ended, surviving, treated, before, failures,
          completed, build_states, published>>

-----------------------------------------------------------------------------
(* The stages in their order.                                              *)

Only(condition, stages) == IF condition THEN stages ELSE <<>>

GeneralStages ==
    <<"prepare", "sweep", "managed directories", "plan directories",
      "building directories", "rcc directories">>
        \o Only(Platform = "windows", <<"long path directory">>)

RccStages ==
    Only(Platform = "windows", <<"binary permissions">>)
        \o Only(Platform = "windows" /\ custom_profile, <<"profile permissions">>)
        \o <<"telemetry">>
        \o (IF custom_profile THEN <<"profile import", "profile switch">>
                              ELSE <<"default profile">>)
        \o Only(Platform = "windows", <<"long paths">>)
        \o <<"holotree">>

Stages ==
    <<"check">> \o GeneralStages \o <<"ManagedRobots", "unpack">>
        \o Only(grace_period, <<"GracePeriod", "sleep">>)
        \o <<"check", "RCCSetup">> \o RccStages
        \o <<"setup failures", "EnvironmentBuilding", "build states", "build",
             "check", "Scheduling", "schedule">>

stage == Stages[at]

PerPlan == {"managed directories", "plan directories", "unpack"}
AllTogether == {"long path directory", "long paths"}
Permissions == {"binary permissions", "profile permissions"}
Commands == {"telemetry", "profile import", "profile switch", "default profile",
             "long paths", "holotree"}
PerSession == {"building directories", "rcc directories"} \cup Permissions
                  \cup (Commands \ AllTogether)

Concerned ==
    CASE stage \in {"managed directories", "unpack"} -> surviving \cap Managed
      [] stage = "plan directories" -> surviving
      [] stage \in PerSession \cup AllTogether -> surviving \cap Rcc
      [] OTHER -> {}

\* The plans that are treated together with p.
Unit(p) ==
    CASE stage \in PerPlan -> {p}
      [] stage \in AllTogether -> Concerned
      [] OTHER -> {q \in Concerned : Session[q] = Session[p]}

Untreated == Concerned \ treated

-----------------------------------------------------------------------------
(* The order of the plans.                                                 *)

\* sort_plans_by_grouping; the configuration lists them in this order, too.
ByGrouping == {pair \in Plans \X Plans : Position[pair[1]] < Position[pair[2]]}

\* What has come through a stage is listed unit by unit, ahead of the rest.
Extended(unit) ==
    LET place(p) == IF p \in treated THEN 1 ELSE IF p \in unit THEN 2 ELSE 3
    IN {pair \in Plans \X Plans :
            \/ place(pair[1]) < place(pair[2])
            \/ place(pair[1]) = place(pair[2]) /\ pair \in before}

\* The last stage of the general setup, or of the setup of RCC.
EndsSetup == Stages[at + 1] \in {"ManagedRobots", "setup failures"}

-----------------------------------------------------------------------------
TypeOK ==
    /\ grace_period \in BOOLEAN
    /\ custom_profile \in BOOLEAN
    /\ cancelled \in BOOLEAN
    /\ at \in 1 .. Len(Stages)
    /\ ended \in {"no", "ok", "error"}
    /\ surviving \in SUBSET Plans
    /\ treated \in SUBSET surviving
    /\ before \in SUBSET (Plans \X Plans)
    /\ failures \in [Plans -> Nat]
    /\ completed \in SUBSET surviving
    /\ build_states \in BuildStates
    /\ published.phase \in Phases \cup {Absent}
    /\ published.setup_failures = Absent \/ published.setup_failures \subseteq Plans
    /\ published.builds = Absent \/ published.builds \in BuildStates

Init ==
    /\ grace_period \in BOOLEAN
    /\ custom_profile \in BOOLEAN
    /\ cancelled = FALSE
    /\ at = 1
    /\ ended = "no"
    /\ surviving = Plans
    /\ treated = {}
    /\ before = ByGrouping
    /\ failures = [p \in Plans |-> 0]
    /\ completed = {}
    /\ build_states = [p \in {} |-> "Pending"]
    /\ published = [phase |-> Absent, setup_failures |-> Absent, builds |-> Absent]

Cancel ==
    /\ ~cancelled
    /\ cancelled' = TRUE
    /\ UNCHANGED <<setting, at, ended, surviving, treated, before, failures,
                   completed, build_states, published>>

Go == ended = "no"

Advance == at' = at + 1

End(how) ==
    /\ ended' = how
    /\ UNCHANGED <<setting, cancelled, at, surviving, treated, before, failures,
                   completed, build_states, published>>

Check ==
    /\ Go /\ stage = "check"
    /\ IF cancelled
       THEN End("ok")
       ELSE /\ Advance
            /\ UNCHANGED <<setting, cancelled, ended, surviving, treated, before,
                           failures, completed, build_states, published>>

-----------------------------------------------------------------------------
(* Stages that concern everybody.                                          *)

Succeeds ==
    /\ Advance
    /\ UNCHANGED <<setting, cancelled, ended, surviving, treated, before,
                   failures, completed, build_states, published>>

\* The working and managed directories: made, emptied, cleared of old plans.
Prepare == Go /\ stage = "prepare" /\ (Succeeds \/ End("error"))

(***************************************************************************)
(* The sweep of the results.  A wait for the lock that is cancelled is an  *)
(* error here: context() makes any error of it unrecoverable.              *)
(***************************************************************************)
Sweep == Go /\ stage = "sweep" /\ (Succeeds \/ End("error"))

\* Mutant: the grace period ends when the program is cancelled, only.
AwaitGracePeriod_Forever == Go /\ stage = "sleep" /\ cancelled /\ Succeeds

\* It ends when the time is up or the program is cancelled.
AwaitGracePeriod == Go /\ stage = "sleep" /\ Succeeds

-----------------------------------------------------------------------------
(* Stages that treat plans.                                                *)

\* Plans that are treated one by one stay where they are in the list; sessions
\* come out of a HashMap, in any order.
UnitSucceeds(p) ==
    /\ Go
    /\ p \in Untreated
    /\ treated' = treated \cup Unit(p)
    /\ before' = IF stage \in PerPlan THEN before ELSE Extended(Unit(p))
    /\ UNCHANGED <<setting, cancelled, at, ended, surviving, failures, completed,
                   build_states, published>>

Drop(lost) ==
    /\ surviving' = surviving \ lost
    /\ failures' = [p \in Plans |-> failures[p] + (IF p \in lost THEN 1 ELSE 0)]
    /\ UNCHANGED <<setting, cancelled, at, ended, treated, before, completed,
                   build_states, published>>

\* Mutant: the failure is reported, and the plan goes on.
UnitFails_Kept(p) ==
    /\ Go
    /\ p \in Untreated
    /\ failures' = [q \in Plans |-> failures[q] + (IF q \in Unit(p) THEN 1 ELSE 0)]
    /\ treated' = treated \cup Unit(p)
    /\ UNCHANGED <<setting, cancelled, at, ended, surviving, before, completed,
                   build_states, published>>

\* The session of the scheduler needs no permission.
UnitFails(p) ==
    /\ Go
    /\ p \in Untreated
    /\ stage \in Permissions => Session[p] # Current
    /\ Drop(Unit(p))

\* Not even the directory of the sessions' directories can be made.
AllFail ==
    /\ Go
    /\ stage \in {"building directories", "rcc directories"}
    /\ treated = {}
    /\ Untreated # {}
    /\ Drop(Concerned)

\* The failures collected so far are forgotten.
\* (If no plan is left for "long paths" the code runs that command all the same;
\* a cancellation then ends the program one stage earlier than here.)
UnitCancelled ==
    /\ Go
    /\ stage \in Commands
    /\ cancelled
    /\ Untreated # {}
    /\ End("ok")

Leave ==
    /\ Go
    /\ stage \in PerPlan \cup PerSession \cup AllTogether
    /\ Untreated = {}
    /\ Advance
    /\ treated' = {}
    /\ UNCHANGED <<setting, cancelled, ended, surviving, failures, completed,
                   build_states, published>>

\* Mutant: the plans are not sorted after the RCC setup.
StageOver_SortedOnce ==
    /\ Leave
    /\ before' = IF Stages[at + 1] = "ManagedRobots" THEN ByGrouping ELSE before

StageOver ==
    /\ Leave
    /\ before' = IF EndsSetup THEN ByGrouping ELSE before

-----------------------------------------------------------------------------
(* Sections.                                                               *)

\* A write that fails, or whose wait for the lock is cancelled.
WriteFails ==
    /\ Go
    /\ stage \in Phases \cup {"setup failures", "build states", "build"}
    /\ End("error") \/ (cancelled /\ End("ok"))

WritePhase ==
    /\ Go /\ stage \in Phases
    /\ published' = [published EXCEPT !.phase = stage]
    /\ Advance
    /\ UNCHANGED <<setting, cancelled, ended, surviving, treated, before,
                   failures, completed, build_states>>

Reported == {p \in Plans : failures[p] > 0}

\* Mutant: the failures of the RCC setup alone are written.
WriteSetupFailures_RccOnly ==
    /\ Go /\ stage = "setup failures"
    /\ published' = [published EXCEPT !.setup_failures = Reported \cap Rcc]
    /\ Advance
    /\ UNCHANGED <<setting, cancelled, ended, surviving, treated, before,
                   failures, completed, build_states>>

WriteSetupFailures ==
    /\ Go /\ stage = "setup failures"
    /\ published' = [published EXCEPT !.setup_failures = Reported]
    /\ Advance
    /\ UNCHANGED <<setting, cancelled, ended, surviving, treated, before,
                   failures, completed, build_states>>

-----------------------------------------------------------------------------
(* Environment building.                                                   *)

Update(states) ==
    /\ build_states' = states
    /\ published' = [published EXCEPT !.builds = states]

ReporterNew ==
    /\ Go /\ stage = "build states"
    /\ Update([p \in surviving |-> "Pending"])
    /\ Advance
    /\ UNCHANGED <<setting, cancelled, ended, surviving, treated, before,
                   failures, completed>>

Unbuilt ==
    {p \in DOMAIN build_states : build_states[p] \in {"Pending", "InProgress"}}

\* The first in the list of those that are not built.
NextToBuild == {p \in Unbuilt : \A q \in Unbuilt \ {p} : <<p, q>> \in before}

BuildStep(p, build_stage) ==
    /\ Go /\ stage = "build"
    /\ Update([build_states EXCEPT ![p] = build_stage])
    /\ UNCHANGED <<setting, cancelled, at, ended, surviving, treated, before,
                   failures>>

BuildNotNeeded ==
    \E p \in NextToBuild \ Rcc :
        /\ BuildStep(p, "NotNeeded")
        /\ completed' = completed \cup {p}

BuildStarts ==
    \E p \in NextToBuild \cap Rcc :
        /\ build_states[p] = "Pending"
        /\ BuildStep(p, "InProgress")
        /\ UNCHANGED completed

\* Mutant: a build that timed out is taken for a success.
BuildEnds_KeepsTimedOut ==
    \E p \in NextToBuild \cap Rcc, outcome \in BuildOutcomes \ {"NotNeeded"} :
        /\ build_states[p] = "InProgress"
        /\ BuildStep(p, outcome)
        /\ completed' = IF outcome # "Error" THEN completed \cup {p} ELSE completed

BuildEnds ==
    \E p \in NextToBuild \cap Rcc, outcome \in BuildOutcomes \ {"NotNeeded"} :
        /\ build_states[p] = "InProgress"
        /\ BuildStep(p, outcome)
        /\ completed' = IF outcome = "Success" THEN completed \cup {p} ELSE completed

BuildCancelled ==
    /\ Go /\ stage = "build"
    /\ cancelled
    /\ \E p \in Unbuilt : build_states[p] = "InProgress"
    /\ End("ok")

BuildsOver == Go /\ stage = "build" /\ Unbuilt = {} /\ Succeeds

-----------------------------------------------------------------------------
Step ==
    \/ Check \/ Prepare \/ Sweep \/ AwaitGracePeriod
    \/ \E p \in Plans : UnitSucceeds(p) \/ UnitFails(p)
    \/ AllFail \/ UnitCancelled \/ StageOver
    \/ WriteFails \/ WritePhase \/ WriteSetupFailures
    \/ ReporterNew \/ BuildNotNeeded \/ BuildStarts \/ BuildEnds \/ BuildCancelled
    \/ BuildsOver

Over == ~Go \/ stage = "schedule"

Next == Cancel \/ Step \/ (Over /\ UNCHANGED vars)

Spec == Init /\ [][Next]_vars

\* Commands are supervised with a timeout (ProcessTree!SupervisionEnds), and the
\* waits for the lock end if plugins let go of it (SectionExchange!WaitsEnd).
FairSpec == Spec /\ WF_vars(Step)

-----------------------------------------------------------------------------
(* Properties                                                              *)

\* A plan survives without a failure, or is dropped and has exactly one.
Accounted ==
    \A p \in Plans : failures[p] = IF p \in surviving THEN 0 ELSE 1

(***************************************************************************)
(* As soon as there are build states, every configured plan is in exactly  *)
(* one of two sections: it failed the setup, or its build is reported.     *)
(***************************************************************************)
SectionsPartition ==
    published.builds # Absent =>
        /\ published.setup_failures # Absent
        /\ published.setup_failures = Plans \ DOMAIN published.builds

\* What is scheduled is what the build states show as ready, to the last plan.
SchedulesWhatWasBuilt ==
    published.phase = "Scheduling" =>
        /\ completed = {p \in DOMAIN published.builds :
                            published.builds[p] \in {"NotNeeded", "Success"}}
        /\ \A p \in DOMAIN published.builds : published.builds[p] \in BuildOutcomes

(***************************************************************************)
(* Environments are built one at a time in the order of the configuration, *)
(* whatever order the sessions were treated in.                            *)
(***************************************************************************)
BuildsInTurn ==
    published.builds # Absent =>
        \A p, q \in DOMAIN published.builds :
            Position[p] < Position[q] /\ published.builds[q] # "Pending" =>
                published.builds[p] \in BuildOutcomes

\* Whatever fails, the scheduler comes to schedule its plans or ends.
SetupEnds == <>Over
-----------------------------------------------------------------------------
(***************************************************************************)
(* What the sections tell of a plan, whichever of them it is in.           *)
(***************************************************************************)
FateOf(p) ==
    IF published.setup_failures = Absent THEN "Unknown"
    ELSE IF p \in published.setup_failures THEN "Failed"
    ELSE IF published.builds = Absent THEN "Passed"
    ELSE published.builds[p]

Fates == INSTANCE PlanFates WITH
    NotYet <- Absent,
    fate <- [p \in Plans |-> FateOf(p)],
    scheduled <- IF published.phase = "Scheduling" THEN completed ELSE Absent

(***************************************************************************)
(* A reader who follows the sections sees every plan go through one        *)
(* history, of which nothing is revised, to the last moment before plans   *)
(* are scheduled, although the sections are written one by one.            *)
(***************************************************************************)
ImplementsFates == Fates!FatesSpec
=============================================================================
