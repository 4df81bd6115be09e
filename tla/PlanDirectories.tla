-------------------------- MODULE PlanDirectories ---------------------------
(***************************************************************************)
(* What the setup does to the directories of plans and sessions on disk    *)
(* (general.rs, unpack_managed.rs, windows_permissions.rs), from one run   *)
(* of the scheduler to the next: runs end at any step, the configuration   *)
(* between them changes who has which plan, archives are replaced at any   *)
(* time, and executions survive the scheduler that started them.           *)
(* SetupPipeline has the same stages with the sections and without the     *)
(* disk.  On Unix all plans are of the current session.                    *)
(***************************************************************************)
EXTENDS Naturals

CONSTANTS
    Plans,
    Rcc,            \* plans with an RCC environment
    Managed,        \* plans whose robot comes in an archive
    Sessions,
    Current,        \* the session of the scheduler itself
    CustomProfile,  \* RCCProfileConfig::Custom
    TooLarge,       \* versions of archives that are over the size limit
    MaxStarts,      \* bound: runs of the scheduler
    MaxVersions     \* bound: versions of an archive

ASSUME PlansAreConfigured ==
    Rcc \subseteq Plans /\ Managed \subseteq Plans /\ Current \in Sessions
ASSUME ProfileIsBoolean == CustomProfile \in BOOLEAN
ASSUME BoundsAreNatural == MaxStarts \in Nat /\ MaxVersions \in Nat \ {0}

Starts == 1 .. MaxStarts
Versions == 1 .. MaxVersions
Part == 0       \* some of an archive, after its unpacking has failed

Directories == ({"working", "managed"} \X Plans) \cup ({"building", "rcc"} \X Sessions)
Files == {"binary"} \cup (IF CustomProfile THEN {"profile"} ELSE {})

VARIABLES
    at,         \* index of the stage under way, or 0: no scheduler runs
    starts,     \* how many there have been
    config,     \* plan -> session, for the configured plans
    surviving,
    todo,       \* what the stage is still to treat
    exists,     \* directories
    access,     \* directory -> users who were granted full access to it
    content,    \* directory -> runs, or versions of an archive, that left something
    readers,    \* <<file, user>>: RCC's binary and profile, and who may read them
    archive,    \* plan -> version that is deployed
    oldest,     \* plan -> version that was deployed when this run began
    checked,    \* plan -> version whose size was checked, or 0
    rcc_plans,  \* plans with RCC when its setup began
    survivors,  \* <<directory, run>>: processes there that survived their scheduler
    haunted,    \* directories into which such a one has written
    forgotten   \* plan -> the last run that came to schedule and did not have it

disk == <<exists, access, content, readers>>
outside == <<archive, survivors, haunted>>
run == <<starts, config, oldest>>
vars == <<at, surviving, todo, checked, rcc_plans, forgotten, disk, outside, run>>

-----------------------------------------------------------------------------
Stages ==
    <<"rcc_anew", "building_anew", "foreign", "managed_anew",
      "managed", "working", "building", "rcc", "long_paths",
      "unpack", "binary", "profile", "preparing", "scheduling">>

Removals == {"rcc_anew", "building_anew", "foreign", "managed_anew"}
SetUps == {"managed", "working", "building", "rcc", "long_paths"}
PerSession == {"building", "rcc"} \cup Files

Up == at # 0
stage == IF Up THEN Stages[at] ELSE "down"
Configured == DOMAIN config

Present(kind, S) == exists \cap ({kind} \X S)

\* Mutant: no directory of a plan is kept.
Foreign_All == Present("working", Plans)

\* Mutant: only empty directories are removed.
Foreign_Empty ==
    {d \in Present("working", Plans \ Configured) : content[d] = {}}

\* clean_up_file_system_entries, whose list is made once.
Foreign == Present("working", Plans \ Configured)

\* Mutant: the directory is made, and not removed before.
OfLastRun_Kept(kind, S) == {}

\* What a directory that is made anew holds from before.
OfLastRun(kind, S) == Present(kind, S)

Units(name) ==
    CASE name = "rcc_anew" -> OfLastRun("rcc", Sessions)
      [] name = "building_anew" -> OfLastRun("building", Sessions)
      [] name = "foreign" -> Foreign
      [] name = "managed_anew" -> OfLastRun("managed", Plans)
      [] name \in {"managed", "unpack"} -> {"managed"} \X (surviving \cap Managed)
      [] name = "working" -> {"working"} \X surviving
      [] name = "long_paths" -> {<<"rcc", Current>>}
      [] name \in PerSession -> {<<name, config[p]>> : p \in surviving \cap Rcc}
      [] OTHER -> {}

User(s) == {s} \ {Current}

\* The plans that are dropped when the treatment of u fails.
Concerned(u) ==
    CASE stage \in {"managed", "working", "unpack"} -> {u[2]}
      [] stage = "long_paths" -> surviving \cap Rcc
      [] OTHER -> {p \in surviving \cap Rcc : config[p] = u[2]}

-----------------------------------------------------------------------------
TypeOK ==
    /\ at \in 0 .. 14
    /\ starts \in 0 .. MaxStarts
    /\ config \in UNION {[S -> Sessions] : S \in SUBSET Plans}
    /\ surviving \in SUBSET Configured
    /\ todo \in SUBSET (Directories \cup (Files \X Sessions))
    /\ exists \in SUBSET Directories
    /\ access \in [Directories -> SUBSET (Sessions \ {Current})]
    /\ content \in [Directories -> SUBSET Nat]
    /\ readers \in SUBSET (Files \X (Sessions \ {Current}))
    /\ archive \in [Plans -> Versions]
    /\ oldest \in [Plans -> Versions]
    /\ checked \in [Plans -> Versions \cup {0}]
    /\ rcc_plans \in SUBSET Rcc
    /\ survivors \in SUBSET (Directories \X Starts)
    /\ haunted \in SUBSET Directories
    /\ forgotten \in [Plans -> 0 .. MaxStarts]

Init ==
    /\ at = 0
    /\ starts = 0
    /\ config = [p \in {} |-> Current]
    /\ surviving = {}
    /\ todo = {}
    /\ exists = {}
    /\ access = [d \in Directories |-> {}]
    /\ content = [d \in Directories |-> {}]
    /\ readers = {}
    /\ archive = [p \in Plans |-> 1]
    /\ oldest = archive
    /\ checked = [p \in Plans |-> 0]
    /\ rcc_plans = {}
    /\ survivors = {}
    /\ haunted = {}
    /\ forgotten = [p \in Plans |-> 0]

-----------------------------------------------------------------------------
(* The runs of the scheduler, and what goes on besides.                    *)

Boot(S, conf) ==
    /\ ~Up
    /\ starts < MaxStarts
    /\ at' = 1
    /\ starts' = starts + 1
    /\ config' = conf
    /\ surviving' = S
    /\ oldest' = archive
    /\ checked' = [p \in Plans |-> 0]
    /\ todo' = Units("rcc_anew")
    /\ UNCHANGED <<rcc_plans, forgotten, disk, outside>>

Stop ==
    /\ at' = 0
    /\ surviving' = {}
    /\ todo' = {}
    /\ rcc_plans' = {}

(***************************************************************************)
(* Where commands write while plans are prepared: those of RCC and the     *)
(* builds in the directories of the sessions of plans, and the one for     *)
(* long paths in that of the current session, whichever session the plans  *)
(* are of, even after the last of them has been dropped.                   *)
(***************************************************************************)
PreparedIn ==
    {"building", "rcc"} \X {config[p] : p \in surviving \cap Rcc}
        \cup (IF rcc_plans = {} THEN {} ELSE exists \cap {<<"rcc", Current>>})

\* Where commands are at work.
AtWork ==
    CASE stage = "scheduling" -> {"working"} \X surviving
      [] stage = "preparing" -> PreparedIn
      [] OTHER -> {}

\* The scheduler is told to end or dies; commands may go on without it.
End ==
    /\ Up
    /\ Stop
    /\ \E D \in SUBSET AtWork : survivors' = survivors \cup (D \X {starts})
    /\ UNCHANGED <<checked, forgotten, disk, archive, haunted, run>>

Deploy(p) ==
    /\ archive[p] < MaxVersions
    /\ archive' = [archive EXCEPT ![p] = @ + 1]
    /\ UNCHANGED <<at, surviving, todo, checked, rcc_plans, forgotten, disk,
                   survivors, haunted, run>>

LeaveIn(d, x) == content' = [content EXCEPT ![d] = @ \cup {x}]

\* Robot Framework makes its directory again if need be, other commands do not.
SurvivorWrites(d, n) ==
    /\ <<d, n>> \in survivors
    /\ d[1] = "working" \/ d \in exists
    /\ exists' = exists \cup {d}
    /\ LeaveIn(d, n)
    /\ haunted' = haunted \cup {d}
    /\ UNCHANGED <<at, surviving, todo, checked, rcc_plans, forgotten, access,
                   readers, archive, survivors, run>>

-----------------------------------------------------------------------------
(* From stage to stage.                                                    *)

NextStage ==
    /\ Up
    /\ at < 14
    /\ todo = {}
    /\ at' = at + 1
    /\ todo' = Units(Stages[at + 1])
    /\ forgotten' = IF Stages[at + 1] = "scheduling"
                    THEN [p \in Plans |-> IF p \in Configured THEN forgotten[p] ELSE starts]
                    ELSE forgotten
    /\ rcc_plans' = IF Stages[at + 1] = "binary" THEN surviving \cap Rcc ELSE rcc_plans
    /\ UNCHANGED <<surviving, checked, disk, outside, run>>

Treated(u) == todo' = todo \ {u}

Dropped(u) ==
    /\ surviving' = surviving \ Concerned(u)
    /\ Treated(u)

\* remove_dir_all of a directory, or of one within a directory that is made anew.
Remove(d) ==
    /\ stage \in Removals
    /\ d \in todo
    /\ Treated(d)
    /\ exists' = exists \ {d}
    /\ access' = [access EXCEPT ![d] = {}]
    /\ content' = [content EXCEPT ![d] = {}]
    /\ haunted' = haunted \ {d}
    /\ UNCHANGED <<at, surviving, checked, rcc_plans, forgotten, readers, archive,
                   survivors, run>>

\* Any failure of a removal is the end of the run.
RemovalFails(d) ==
    /\ stage \in Removals
    /\ d \in todo
    /\ Stop
    /\ \E rest \in SUBSET content[d] : content' = [content EXCEPT ![d] = rest]
    /\ UNCHANGED <<checked, forgotten, exists, access, readers, outside, run>>

-----------------------------------------------------------------------------
(* Directories are made and users are granted access.                      *)

\* Mutant: the permissions of the last run are not reset.
Kept_Unreset(d) == access[d]

\* reset_access, for the working directories of plans.
Kept(d) == IF stage = "working" THEN {} ELSE access[d]

UserOf(d) == User(IF d[1] \in {"working", "managed"} THEN config[d[2]] ELSE d[2])

SetUp(d) ==
    /\ stage \in SetUps
    /\ d \in todo
    /\ Treated(d)
    /\ exists' = exists \cup {d}
    /\ access' = [access EXCEPT ![d] = Kept(d) \cup UserOf(d)]
    /\ UNCHANGED <<at, surviving, checked, rcc_plans, forgotten, content, readers,
                   outside, run>>

\* It cannot be made, or be reset, or its user cannot be granted access.
SetUpFails(d) ==
    /\ stage \in SetUps
    /\ d \in todo
    /\ Dropped(d)
    /\ \/ UNCHANGED <<exists, access>>
       \/ /\ stage = "working" \/ UserOf(d) # {}
          /\ exists' = exists \cup {d}
          /\ access' \in {access} \cup {[access EXCEPT ![d] = Kept(d) \cup U] :
                                            U \in SUBSET UserOf(d)}
    /\ UNCHANGED <<at, checked, rcc_plans, forgotten, content, readers, outside,
                   run>>

\* The directory that is to hold those of the sessions cannot be made.
TargetFails ==
    /\ stage \in {"building", "rcc"}
    /\ todo = Units(stage)
    /\ todo' = {}
    /\ surviving' = surviving \ Rcc
    /\ UNCHANGED <<at, checked, rcc_plans, forgotten, disk, outside, run>>

GrantFile(g) ==
    /\ stage \in Files
    /\ g \in todo
    /\ Treated(g)
    /\ readers' = readers \cup ({g[1]} \X User(g[2]))
    /\ UNCHANGED <<at, surviving, checked, rcc_plans, forgotten, exists, access,
                   content, outside, run>>

\* Nothing is done, so nothing fails, for the current session.
GrantFileFails(g) ==
    /\ stage \in Files
    /\ g \in todo
    /\ g[2] # Current
    /\ Dropped(g)
    /\ UNCHANGED <<at, checked, rcc_plans, forgotten, disk, outside, run>>

-----------------------------------------------------------------------------
(* unpack_into: the archive is opened once to be measured and once to be   *)
(* unpacked.                                                               *)

\* Mutant: the size of the entries is not summed up.
IsSmall_Unsummed(v) == TRUE

IsSmall(v) == v \notin TooLarge

CheckSize(p) ==
    /\ stage = "unpack"
    /\ <<"managed", p>> \in todo
    /\ \A d \in todo : checked[d[2]] = 0
    /\ IsSmall(archive[p])
    /\ checked' = [checked EXCEPT ![p] = archive[p]]
    /\ UNCHANGED <<at, surviving, todo, rcc_plans, forgotten, disk, outside, run>>

Unpack(p) ==
    /\ stage = "unpack"
    /\ <<"managed", p>> \in todo
    /\ checked[p] # 0
    /\ Treated(<<"managed", p>>)
    /\ LeaveIn(<<"managed", p>>, archive[p])
    /\ UNCHANGED <<at, surviving, checked, rcc_plans, forgotten, exists, access,
                   readers, outside, run>>

\* It is missing, too large or broken, or it cannot be written.
UnpackFails(p) ==
    /\ stage = "unpack"
    /\ <<"managed", p>> \in todo
    /\ Dropped(<<"managed", p>>)
    /\ \/ UNCHANGED content
       \/ checked[p] # 0 /\ LeaveIn(<<"managed", p>>, Part)
    /\ UNCHANGED <<at, checked, rcc_plans, forgotten, exists, access, readers,
                   outside, run>>

-----------------------------------------------------------------------------
(* The directories are used.                                               *)

Prepares(d) ==
    /\ stage = "preparing"
    /\ d \in PreparedIn
    /\ LeaveIn(d, starts)
    /\ UNCHANGED <<at, surviving, todo, checked, rcc_plans, forgotten, exists,
                   access, readers, outside, run>>

GivesUp(p) ==
    /\ stage = "preparing"
    /\ p \in surviving \cap Rcc
    /\ surviving' = surviving \ {p}
    /\ UNCHANGED <<at, todo, checked, rcc_plans, forgotten, disk, outside, run>>

Executes(p) ==
    /\ stage = "scheduling"
    /\ p \in surviving
    /\ LeaveIn(<<"working", p>>, starts)
    /\ UNCHANGED <<at, surviving, todo, checked, rcc_plans, forgotten, exists,
                   access, readers, outside, run>>

\* The clean-up of a plan's working directory (Cleanup).
CleansUp(p) ==
    /\ stage = "scheduling"
    /\ p \in surviving
    /\ \E rest \in SUBSET content[<<"working", p>>] :
           content' = [content EXCEPT ![<<"working", p>>] = rest]
    /\ UNCHANGED <<at, surviving, todo, checked, rcc_plans, forgotten, exists,
                   access, readers, outside, run>>

\* The models end here.
BoundReached == ~Up /\ starts = MaxStarts /\ UNCHANGED vars

-----------------------------------------------------------------------------
Next ==
    \/ \E S \in SUBSET Plans : \E conf \in [S -> Sessions] : Boot(S, conf)
    \/ End \/ NextStage \/ TargetFails \/ BoundReached
    \/ \E u \in todo :
           \/ Remove(u) \/ RemovalFails(u) \/ SetUp(u) \/ SetUpFails(u)
           \/ GrantFile(u) \/ GrantFileFails(u)
    \/ \E p \in Plans :
           \/ Deploy(p) \/ CheckSize(p) \/ Unpack(p) \/ UnpackFails(p)
           \/ GivesUp(p) \/ Executes(p) \/ CleansUp(p)
    \/ \E d \in PreparedIn : Prepares(d)
    \/ \E d \in Directories, n \in Starts : SurvivorWrites(d, n)

Spec == Init /\ [][Next]_vars

-----------------------------------------------------------------------------
(* Properties                                                              *)

Ready == stage \in {"preparing", "scheduling"}

\* The directories a plan needs.
Own(p) ==
    {<<"working", p>>}
        \cup (IF p \in Managed THEN {<<"managed", p>>} ELSE {})
        \cup (IF p \in Rcc THEN {"building", "rcc"} \X {config[p]} ELSE {})

(***************************************************************************)
(* A plan that has come through the setup finds its directories in place,  *)
(* and of all plan users just its own has access to them: whatever the     *)
(* plan's user was before, and wherever earlier runs have failed or died.  *)
(***************************************************************************)
AccessFits ==
    Ready =>
        \A p \in surviving :
            /\ \A d \in Own(p) : d \in exists /\ access[d] = User(config[p])
            /\ p \in Rcc /\ config[p] # Current => Files \X {config[p]} \subseteq readers

(***************************************************************************)
(* When plans are prepared and scheduled, there is no directory of a plan  *)
(* that is no longer configured, and what is in the directories of RCC and *)
(* of the builds is of this run, except for what was written there by a    *)
(* command that has survived its scheduler.                                *)
(***************************************************************************)
NothingForeign ==
    Ready =>
        \A d \in exists \ haunted :
            CASE d[1] = "working" -> d[2] \in Configured
              [] d[1] = "managed" -> d[2] \in Configured \cap Managed
              [] OTHER -> content[d] \subseteq {starts}

(***************************************************************************)
(* A plan that is configured again after a run without it begins with an   *)
(* empty directory: no execution from before that run is found in it       *)
(* again, unless one that survived its scheduler has put it there.         *)
(***************************************************************************)
FormerPlansForgotten ==
    Ready =>
        \A p \in Configured :
            LET d == <<"working", p>> IN
            d \notin haunted => \A n \in content[d] : n > forgotten[p]

(***************************************************************************)
(* The setup leaves the executions of a plan alone for as long as the plan *)
(* is configured; only clean-ups take from them.                           *)
(***************************************************************************)
HistoryIsKept ==
    [][\A p \in DOMAIN config' :
           stage # "scheduling" =>
               content[<<"working", p>>] \subseteq content'[<<"working", p>>]]_vars

(***************************************************************************)
(* A plan that has come through the setup has one whole archive in its     *)
(* managed directory, a version that was deployed during this run or when  *)
(* it began, and one that is within the size limit unless it replaced the  *)
(* one that was measured.                                                  *)
(***************************************************************************)
ArchiveIsWhole ==
    Ready =>
        \A p \in surviving \cap Managed :
            \E v \in Versions :
                /\ content[<<"managed", p>>] = {v}
                /\ v >= oldest[p]
                /\ v \notin TooLarge \/ v # checked[p]
=============================================================================
