----------------------- MODULE PlanDirectories_proofs -----------------------
(***************************************************************************)
(* Proofs about PlanDirectories for any plans, sessions and archives, and  *)
(* any number of runs.                                                     *)
(***************************************************************************)
EXTENDS PlanDirectories, TLAPS

-----------------------------------------------------------------------------
(* The inductive invariant.                                                *)

\* What a stage has to treat.
TodoFits ==
    /\ at \in {0, 13, 14} => todo = {}
    /\ at = 1 => todo \subseteq {"rcc"} \X Sessions
    /\ at = 2 => todo \subseteq {"building"} \X Sessions
    /\ at = 3 => todo \subseteq {"working"} \X (Plans \ Configured)
    /\ at = 4 => todo \subseteq {"managed"} \X Plans
    /\ at \in {5, 10} => todo \subseteq {"managed"} \X (surviving \cap Managed)
    /\ at = 6 => todo \subseteq {"working"} \X surviving
    /\ at = 7 => todo \subseteq {"building"} \X Sessions
    /\ at = 8 => todo \subseteq {"rcc"} \X Sessions
    /\ at = 9 => todo \subseteq {<<"rcc", Current>>}
    /\ at = 11 => todo \subseteq {"binary"} \X Sessions
    /\ at = 12 => todo \subseteq {"profile"} \X Sessions

\* Survivors are of a run there has been, and never unpack archives.
SurvivorsFit ==
    \A s \in survivors : s[1][1] # "managed" /\ s[2] <= starts

\* Where there is no directory there is nothing in it, and no access to it.
Blank == \A d \in Directories \ exists : access[d] = {} /\ content[d] = {}

\* Directories that are made anew, or of plans that are gone: a stage has them
\* before it, or has removed them.
Anew ==
    /\ at = 1 => Present("rcc", Sessions) \subseteq todo
    /\ at = 2 => Present("building", Sessions) \subseteq todo
    /\ at = 3 => Foreign \subseteq todo \cup haunted
    /\ at = 4 => Present("managed", Plans) \subseteq todo

Fresh ==
    /\ at >= 2 => \A d \in Present("rcc", Sessions) \ haunted : content[d] \subseteq {starts}
    /\ at >= 3 => \A d \in Present("building", Sessions) \ haunted :
                      content[d] \subseteq {starts}
    /\ at >= 4 => Foreign \subseteq haunted
    /\ at >= 5 => Present("managed", Plans) \subseteq {"managed"} \X (Configured \cap Managed)

\* Nobody has access to what is not his.
SessionAccess ==
    \A d \in {"building", "rcc"} \X Sessions : access[d] \subseteq User(d[2])

ManagedAccess ==
    at >= 5 => \A p \in Configured : access[<<"managed", p>>] \subseteq User(config[p])

Place(kind) ==
    CASE kind = "managed" -> 5
      [] kind = "working" -> 6
      [] kind = "building" -> 7
      [] kind = "rcc" -> 8
      [] kind = "binary" -> 11
      [] kind = "profile" -> 12

Done(u) == at > Place(u[1]) \/ (at = Place(u[1]) /\ u \notin todo)

\* What is done for a plan is as the plan needs it.
OwnFits ==
    \A p \in surviving : \A d \in Own(p) :
        Done(d) => d \in exists /\ access[d] = User(config[p])

FilesFit ==
    \A p \in surviving \cap Rcc, f \in Files :
        config[p] # Current /\ Done(<<f, config[p]>>) => <<f, config[p]>> \in readers

\* The runs are counted, and what is older than the last without a plan is gone.
RunsFit ==
    /\ \A p \in Plans : forgotten[p] <= starts
    /\ Up => starts # 0 /\ \A p \in Configured : forgotten[p] < starts

Forgotten ==
    \A p \in Plans :
        <<"working", p>> \notin haunted =>
            \A n \in content[<<"working", p>>] : n > forgotten[p]

\* An archive that has been measured was small, and is unpacked into nothing.
ArchivesFit ==
    /\ \A p \in Plans : oldest[p] <= archive[p]
    /\ \A p \in Plans : checked[p] \notin TooLarge \/ checked[p] = 0
    /\ at \in 5 .. 10 => \A p \in Plans : at < 10 \/ <<"managed", p>> \in todo =>
                             content[<<"managed", p>>] = {}

Whole(p) ==
    \E v \in Versions :
        /\ content[<<"managed", p>>] = {v}
        /\ v >= oldest[p]
        /\ v \notin TooLarge \/ v # checked[p]

UnpackedFits ==
    \A p \in surviving \cap Managed :
        at > 10 \/ (at = 10 /\ <<"managed", p>> \notin todo) => Whole(p)

IInv ==
    /\ TypeOK
    /\ TodoFits
    /\ SurvivorsFit
    /\ Blank
    /\ Anew
    /\ Fresh
    /\ SessionAccess
    /\ ManagedAccess
    /\ OwnFits
    /\ FilesFit
    /\ RunsFit
    /\ Forgotten
    /\ ArchivesFit
    /\ UnpackedFits

-----------------------------------------------------------------------------
(* The stages, the directories and the steps.                              *)

LEMMA Names ==
    /\ Stages[1] = "rcc_anew" /\ Stages[2] = "building_anew" /\ Stages[3] = "foreign"
    /\ Stages[4] = "managed_anew" /\ Stages[5] = "managed" /\ Stages[6] = "working"
    /\ Stages[7] = "building" /\ Stages[8] = "rcc" /\ Stages[9] = "long_paths"
    /\ Stages[10] = "unpack" /\ Stages[11] = "binary" /\ Stages[12] = "profile"
    /\ Stages[13] = "preparing" /\ Stages[14] = "scheduling"
BY DEF Stages

LEMMA StageIs ==
    ASSUME at \in 0 .. 14
    PROVE  /\ stage \in Removals <=> at \in 1 .. 4
           /\ stage \in SetUps <=> at \in 5 .. 9
           /\ stage = "managed" <=> at = 5
           /\ stage = "working" <=> at = 6
           /\ stage = "building" <=> at = 7
           /\ stage = "rcc" <=> at = 8
           /\ stage = "long_paths" <=> at = 9
           /\ stage = "unpack" <=> at = 10
           /\ stage = "binary" <=> at = 11
           /\ stage = "profile" <=> at = 12
           /\ stage = "preparing" <=> at = 13
           /\ stage = "scheduling" <=> at = 14
<1>1. /\ at = 0 => stage = "down"
      /\ at = 1 => stage = "rcc_anew"
      /\ at = 2 => stage = "building_anew"
      /\ at = 3 => stage = "foreign"
      /\ at = 4 => stage = "managed_anew"
      /\ at = 5 => stage = "managed"
      /\ at = 6 => stage = "working"
      /\ at = 7 => stage = "building"
      /\ at = 8 => stage = "rcc"
      /\ at = 9 => stage = "long_paths"
      /\ at = 10 => stage = "unpack"
      /\ at = 11 => stage = "binary"
      /\ at = 12 => stage = "profile"
      /\ at = 13 => stage = "preparing"
      /\ at = 14 => stage = "scheduling"
  BY Names DEF stage, Up
<1>2. \/ at = 0 \/ at = 1 \/ at = 2 \/ at = 3 \/ at = 4 \/ at = 5 \/ at = 6 \/ at = 7
      \/ at = 8 \/ at = 9 \/ at = 10 \/ at = 11 \/ at = 12 \/ at = 13 \/ at = 14
  OBVIOUS
<1>3. CASE at \in 0 .. 7
  BY <1>1, <1>3 DEF Removals, SetUps
<1>4. CASE at \in 8 .. 14
  BY <1>1, <1>4 DEF Removals, SetUps
<1> QED
  BY <1>2, <1>3, <1>4

LEMMA UnitsAre ==
    /\ Units("rcc_anew") = Present("rcc", Sessions)
    /\ Units("building_anew") = Present("building", Sessions)
    /\ Units("foreign") = Foreign
    /\ Units("managed_anew") = Present("managed", Plans)
    /\ Units("managed") = {"managed"} \X (surviving \cap Managed)
    /\ Units("working") = {"working"} \X surviving
    /\ Units("building") = {<<"building", config[p]>> : p \in surviving \cap Rcc}
    /\ Units("rcc") = {<<"rcc", config[p]>> : p \in surviving \cap Rcc}
    /\ Units("long_paths") = {<<"rcc", Current>>}
    /\ Units("unpack") = {"managed"} \X (surviving \cap Managed)
    /\ Units("binary") = {<<"binary", config[p]>> : p \in surviving \cap Rcc}
    /\ Units("profile") = IF CustomProfile
                          THEN {<<"profile", config[p]>> : p \in surviving \cap Rcc}
                          ELSE {}
    /\ Units("preparing") = {}
    /\ Units("scheduling") = {}
BY DEF Units, OfLastRun, PerSession, Files

LEMMA ConfigIs ==
    ASSUME TypeOK, NEW p \in Configured
    PROVE  p \in Plans /\ config[p] \in Sessions
<1>1. PICK S \in SUBSET Plans : config \in [S -> Sessions]
  BY DEF TypeOK
<1> QED
  BY <1>1 DEF Configured

LEMMA SurvivingAre ==
    ASSUME TypeOK, NEW p \in surviving
    PROVE  p \in Plans /\ p \in Configured /\ config[p] \in Sessions
BY ConfigIs DEF TypeOK

LEMMA DirectoriesAre ==
    /\ \A d : d \in Directories <=>
           \/ d \in {"working", "managed"} \X Plans
           \/ d \in {"building", "rcc"} \X Sessions
    /\ \A p \in Plans : <<"working", p>> \in Directories /\ <<"managed", p>> \in Directories
    /\ \A s \in Sessions : <<"building", s>> \in Directories /\ <<"rcc", s>> \in Directories
BY DEF Directories

LEMMA PreparedAre ==
    ASSUME TypeOK, NEW d \in PreparedIn
    PROVE  d \in Directories /\ d[1] \in {"building", "rcc"}
<1>1. \A p \in surviving : config[p] \in Sessions
  BY SurvivingAre
<1>2. <<"rcc", Current>> \in Directories
  BY PlansAreConfigured, DirectoriesAre
<1> QED
  BY <1>1, <1>2 DEF PreparedIn, Directories

\* What is treated is a directory, or a file and a session.
LEMMA TodoIs ==
    ASSUME TypeOK, TodoFits, NEW u \in todo
    PROVE  /\ u = <<u[1], u[2]>>
           /\ at \in 1 .. 10 => u \in Directories
           /\ at \in {11, 12} => u[2] \in Sessions
           /\ at \in 1 .. 12
<1>1. \A p \in surviving : p \in Plans
  BY SurvivingAre
<1>2. Current \in Sessions
  BY PlansAreConfigured
<1> QED
  BY <1>1, <1>2 DEF TypeOK, TodoFits, Directories

LEMMA Steps ==
    ASSUME [Next]_vars
    PROVE  \/ UNCHANGED vars
           \/ \E S \in SUBSET Plans : \E conf \in [S -> Sessions] : Boot(S, conf)
           \/ End \/ NextStage \/ TargetFails
           \/ \E u \in todo :
                  \/ Remove(u) \/ RemovalFails(u) \/ SetUp(u) \/ SetUpFails(u)
                  \/ GrantFile(u) \/ GrantFileFails(u)
           \/ \E p \in Plans :
                  \/ Deploy(p) \/ CheckSize(p) \/ Unpack(p) \/ UnpackFails(p)
                  \/ GivesUp(p) \/ Executes(p) \/ CleansUp(p)
           \/ \E d \in PreparedIn : Prepares(d)
           \/ \E d \in Directories, n \in Starts : SurvivorWrites(d, n)
BY DEF Next, BoundReached

\* Which directories are set up, and for whom.
LEMMA SetUpIs ==
    ASSUME TypeOK, TodoFits, NEW d \in todo, stage \in SetUps
    PROVE  /\ d \in Directories /\ UserOf(d) \subseteq Sessions \ {Current}
           /\ \/ /\ at = 5 /\ d[1] = "managed" /\ d[2] \in surviving \cap Managed
                 /\ UserOf(d) = User(config[d[2]]) /\ Kept(d) = access[d]
              \/ /\ at = 6 /\ d[1] = "working" /\ d[2] \in surviving
                 /\ UserOf(d) = User(config[d[2]]) /\ Kept(d) = {}
              \/ /\ at = 7 => d[1] = "building"
                 /\ at # 7 => d[1] = "rcc"
                 /\ at \in 7 .. 9
                 /\ d[2] \in Sessions /\ UserOf(d) = User(d[2]) /\ Kept(d) = access[d]
                 /\ at = 9 => d[2] = Current
<1>1. at \in 5 .. 9
  BY StageIs DEF TypeOK
<1>2. d \in Directories /\ d = <<d[1], d[2]>>
  BY <1>1, TodoIs
<1>3. stage = "working" <=> at = 6
  BY StageIs DEF TypeOK
<1>4. CASE at = 5 \/ at = 6
  <2>1. d[2] \in surviving /\ (at = 5 => d[1] = "managed" /\ d[2] \in Managed)
        /\ (at = 6 => d[1] = "working")
    BY <1>4 DEF TodoFits
  <2>2. config[d[2]] \in Sessions
    BY <2>1, SurvivingAre
  <2>3. UserOf(d) = User(config[d[2]])
    BY <1>4, <2>1 DEF UserOf
  <2>4. Kept(d) = IF at = 6 THEN {} ELSE access[d]
    BY <1>3 DEF Kept
  <2> QED
    BY <1>2, <1>4, <2>1, <2>2, <2>3, <2>4 DEF User
<1>5. CASE at \in 7 .. 9
  <2>1. /\ d[2] \in Sessions
        /\ at = 7 => d[1] = "building"
        /\ at # 7 => d[1] = "rcc"
        /\ at = 9 => d[2] = Current
    BY <1>5, PlansAreConfigured DEF TodoFits
  <2>2. UserOf(d) = User(d[2])
    BY <1>5, <2>1 DEF UserOf
  <2>3. Kept(d) = access[d]
    BY <1>3, <1>5 DEF Kept
  <2> QED
    BY <1>2, <1>5, <2>1, <2>2, <2>3 DEF User
<1> QED
  BY <1>1, <1>4, <1>5

LEMMA InitInv == Init => IInv
<1> SUFFICES ASSUME Init PROVE IInv
  OBVIOUS
<1> USE DEF Init
<1>1. TypeOK
  <2>1. config \in [{} -> Sessions]
    OBVIOUS
  <2>2. config \in UNION {[S -> Sessions] : S \in SUBSET Plans}
    BY <2>1
  <2>3. surviving \in SUBSET Configured /\ todo \in SUBSET (Directories \cup (Files \X Sessions))
        /\ exists \in SUBSET Directories /\ readers \in SUBSET (Files \X (Sessions \ {Current}))
        /\ survivors \in SUBSET (Directories \X Starts) /\ haunted \in SUBSET Directories
        /\ rcc_plans \in SUBSET Rcc
    OBVIOUS
  <2>4. /\ access \in [Directories -> SUBSET (Sessions \ {Current})]
        /\ content \in [Directories -> SUBSET Nat]
    OBVIOUS
  <2>5. /\ archive \in [Plans -> Versions] /\ oldest \in [Plans -> Versions]
        /\ checked \in [Plans -> Versions \cup {0}]
        /\ starts \in 0 .. MaxStarts /\ forgotten \in [Plans -> 0 .. MaxStarts]
    BY BoundsAreNatural DEF Versions
  <2>6. at \in 0 .. 14
    OBVIOUS
  <2> HIDE DEF Init
  <2> QED
    BY <2>2, <2>3, <2>4, <2>5, <2>6 DEF TypeOK
<1>2. TodoFits /\ SurvivorsFit /\ Anew /\ Fresh
  BY DEF TodoFits, SurvivorsFit, Anew, Fresh
<1>3. Blank /\ SessionAccess /\ ManagedAccess
  BY DirectoriesAre DEF Blank, SessionAccess, ManagedAccess
<1>4. OwnFits /\ FilesFit /\ UnpackedFits
  BY DEF OwnFits, FilesFit, UnpackedFits
<1>5. RunsFit /\ Forgotten /\ ArchivesFit
  BY DirectoriesAre, BoundsAreNatural DEF RunsFit, Forgotten, ArchivesFit, Up, Versions
<1> QED
  BY <1>1, <1>2, <1>3, <1>4, <1>5 DEF IInv

LEMMA TypeStep ==
    ASSUME TypeOK, TodoFits, RunsFit, [Next]_vars
    PROVE  TypeOK'
<1> USE BoundsAreNatural DEF TypeOK, Starts, Versions
<1>1. ASSUME NEW S \in SUBSET Plans, NEW conf \in [S -> Sessions], Boot(S, conf)
      PROVE  TypeOK'
  <2>1. Units("rcc_anew") \subseteq Directories
    BY UnitsAre DEF Present
  <2>2. config' \in UNION {[T -> Sessions] : T \in SUBSET Plans} /\ surviving' = Configured'
    BY <1>1 DEF Boot, Configured
  <2> QED
    BY <1>1, <2>1, <2>2 DEF Boot, disk, outside
<1>2. CASE End
  <2>1. AtWork \subseteq Directories
    <3>1. \A p \in surviving : p \in Plans /\ config[p] \in Sessions
      BY SurvivingAre
    <3> QED
      BY <3>1, PreparedAre DEF AtWork, Directories
  <2>2. starts \in Starts
    BY <1>2 DEF End, RunsFit
  <2>3. survivors' \in SUBSET (Directories \X Starts)
    BY <1>2, <2>1, <2>2 DEF End
  <2> QED
    BY <1>2, <2>3 DEF End, Stop, disk, run, Configured
<1>3. CASE NextStage
  <2>1. \A p \in surviving : p \in Plans /\ config[p] \in Sessions
    BY SurvivingAre
  <2>2. \A n \in 1 .. 14 : Units(Stages[n]) \subseteq Directories \cup (Files \X Sessions)
    <3> TAKE n \in 1 .. 14
    <3>1. \A k \in {"working", "managed", "building", "rcc"} : \A T :
              Present(k, T) \subseteq Directories
      BY DEF Present
    <3>2. Foreign \subseteq Directories
      BY DEF Foreign, Present
    <3>3. Current \in Sessions
      BY PlansAreConfigured
    <3>4. CASE n \in 1 .. 6
      BY <2>1, <3>1, <3>2, <3>4, Names, UnitsAre, DirectoriesAre
    <3>5. CASE n \in 7 .. 10
      BY <2>1, <3>3, <3>5, Names, UnitsAre, DirectoriesAre
    <3>6. CASE n \in 11 .. 14
      BY <2>1, <3>6, Names, UnitsAre DEF Files
    <3> QED
      BY <3>4, <3>5, <3>6
  <2>3. at + 1 \in 1 .. 14 /\ todo' \in SUBSET (Directories \cup (Files \X Sessions))
    BY <1>3, <2>2 DEF NextStage
  <2>4. forgotten' \in [Plans -> 0 .. MaxStarts]
    BY <1>3 DEF NextStage
  <2> QED
    BY <1>3, <2>3, <2>4 DEF NextStage, disk, outside, run, Configured
<1>4. CASE TargetFails
  BY <1>4 DEF TargetFails, disk, outside, run, Configured
<1>5. ASSUME NEW u \in todo, Remove(u) \/ RemovalFails(u)
      PROVE  TypeOK'
  <2>1. content' \in [Directories -> SUBSET Nat]
    BY <1>5, TodoIs DEF Remove, RemovalFails
  <2>2. access' \in [Directories -> SUBSET (Sessions \ {Current})]
    BY <1>5 DEF Remove, RemovalFails
  <2>3. todo' \subseteq todo /\ at' \in 0 .. 14 /\ surviving' \subseteq surviving
        /\ rcc_plans' \subseteq rcc_plans
    BY <1>5 DEF Remove, RemovalFails, Stop, Treated
  <2> QED
    BY <1>5, <2>1, <2>2, <2>3 DEF Remove, RemovalFails, disk, outside, run, Configured
<1>6. ASSUME NEW u \in todo, SetUp(u) \/ SetUpFails(u)
      PROVE  TypeOK'
  <2>0. stage \in SetUps
    BY <1>6 DEF SetUp, SetUpFails
  <2>1. u \in Directories /\ UserOf(u) \subseteq Sessions \ {Current}
        /\ Kept(u) \subseteq Sessions \ {Current}
    BY <2>0, SetUpIs
  <2>2. access' \in [Directories -> SUBSET (Sessions \ {Current})]
        /\ exists' \subseteq Directories
    BY <1>6, <2>1 DEF SetUp, SetUpFails
  <2>3. todo' \subseteq todo /\ surviving' \subseteq surviving
    BY <1>6 DEF SetUp, SetUpFails, Treated, Dropped
  <2> QED
    BY <1>6, <2>2, <2>3 DEF SetUp, SetUpFails, outside, run, Configured
<1>7. ASSUME NEW u \in todo, GrantFile(u) \/ GrantFileFails(u)
      PROVE  TypeOK'
  <2>1. at \in {11, 12} => u[2] \in Sessions
    BY TodoIs
  <2>2. stage \in Files => at \in {11, 12}
    BY StageIs DEF Files
  <2>3. stage \in Files => u[1] \in Files
    BY <2>1, <2>2, StageIs DEF TodoFits, Files
  <2>4. readers' \in SUBSET (Files \X (Sessions \ {Current}))
    BY <1>7, <2>1, <2>2, <2>3 DEF GrantFile, GrantFileFails, User, disk
  <2>5. todo' \subseteq todo /\ surviving' \subseteq surviving
    BY <1>7 DEF GrantFile, GrantFileFails, Treated, Dropped
  <2> QED
    BY <1>7, <2>4, <2>5 DEF GrantFile, GrantFileFails, outside, run, disk, Configured
<1>8. ASSUME NEW p \in Plans, Deploy(p) \/ CheckSize(p) \/ GivesUp(p)
      PROVE  TypeOK'
  <2>1. archive' \in [Plans -> Versions] /\ checked' \in [Plans -> Versions \cup {0}]
    BY <1>8 DEF Deploy, CheckSize, GivesUp, outside
  <2>2. surviving' \subseteq surviving /\ UNCHANGED <<at, todo, survivors, haunted, forgotten>>
    BY <1>8 DEF Deploy, CheckSize, GivesUp, outside
  <2> QED
    BY <1>8, <2>1, <2>2 DEF Deploy, CheckSize, GivesUp, disk, run, Configured
<1>9. ASSUME NEW p \in Plans, Unpack(p) \/ UnpackFails(p)
      PROVE  TypeOK'
  <2>1. content' = content \/ \E x \in Nat : LeaveIn(<<"managed", p>>, x)
    BY <1>9 DEF Unpack, UnpackFails, Part
  <2>3. content' \in [Directories -> SUBSET Nat]
    BY <2>1 DEF LeaveIn
  <2>2. todo' \subseteq todo /\ surviving' \subseteq surviving
    BY <1>9 DEF Unpack, UnpackFails, Treated, Dropped
  <2> QED
    BY <1>9, <2>2, <2>3 DEF Unpack, UnpackFails, outside, run, Configured
<1>10. ASSUME NEW p \in Plans, Executes(p) \/ CleansUp(p)
       PROVE  TypeOK'
  <2> DEFINE Typed == content' \in [Directories -> SUBSET Nat]
  <2>1. ASSUME NEW d \in Directories, LeaveIn(d, starts) PROVE Typed
    <3>1. content[d] \cup {starts} \in SUBSET Nat
      OBVIOUS
    <3> QED
      BY <2>1, <3>1 DEF LeaveIn
  <2>4. Executes(p) => <<"working", p>> \in Directories
    BY DirectoriesAre
  <2>2. ASSUME CleansUp(p) PROVE Typed
    <3>1. <<"working", p>> \in Directories
      BY DirectoriesAre
    <3>2. PICK rest \in SUBSET content[<<"working", p>>] :
              content' = [content EXCEPT ![<<"working", p>>] = rest]
      BY <2>2 DEF CleansUp
    <3> QED
      BY <3>1, <3>2
  <2>3. Typed
    BY <1>10, <2>1, <2>2, <2>4 DEF Executes
  <2> QED
    BY <1>10, <2>3 DEF Executes, CleansUp, outside, run, Configured
<1>13. ASSUME NEW d \in PreparedIn, Prepares(d)
       PROVE  TypeOK'
  <2>1. d \in Directories
    BY PreparedAre
  <2>2. content' \in [Directories -> SUBSET Nat]
    BY <1>13, <2>1 DEF Prepares, LeaveIn
  <2> QED
    BY <1>13, <2>2 DEF Prepares, outside, run, Configured
<1>11. ASSUME NEW d \in Directories, NEW n \in Starts, SurvivorWrites(d, n)
       PROVE  TypeOK'
  <2>1. content' \in [Directories -> SUBSET Nat]
    BY <1>11 DEF SurvivorWrites, LeaveIn
  <2> QED
    BY <1>11, <2>1 DEF SurvivorWrites, run, Configured
<1>12. CASE UNCHANGED vars
  BY <1>12 DEF vars, disk, outside, run, Configured
<1> QED
  BY <1>1, <1>2, <1>3, <1>4, <1>5, <1>6, <1>7, <1>8, <1>9, <1>10, <1>11, <1>12, <1>13,
     Steps

-----------------------------------------------------------------------------
(* What the steps have in common.                                          *)

\* Within a run the configuration stays and stages follow each other.
Within ==
    /\ UNCHANGED run
    /\ surviving' \subseteq surviving
    /\ \/ at' = 0 /\ todo' = {}
       \/ at' = at /\ todo' \subseteq todo
       \/ NextStage

LEMMA Moves ==
    ASSUME [Next]_vars
    PROVE  Within \/ \E S \in SUBSET Plans : \E conf \in [S -> Sessions] : Boot(S, conf)
<1> USE DEF Within
<1>1. CASE End \/ NextStage \/ TargetFails \/ UNCHANGED vars
  BY <1>1 DEF End, Stop, NextStage, TargetFails, vars, run
<1>2. ASSUME NEW u \in todo, Remove(u) \/ RemovalFails(u) \/ SetUp(u) \/ SetUpFails(u)
      PROVE  Within
  BY <1>2 DEF Remove, RemovalFails, SetUp, SetUpFails, Stop, Treated, Dropped, run
<1>3. ASSUME NEW u \in todo, GrantFile(u) \/ GrantFileFails(u)
      PROVE  Within
  BY <1>3 DEF GrantFile, GrantFileFails, Treated, Dropped
<1>4. ASSUME NEW p \in Plans, Deploy(p) \/ CheckSize(p) \/ Unpack(p) \/ UnpackFails(p)
      PROVE  Within
  BY <1>4 DEF Deploy, CheckSize, Unpack, UnpackFails, Treated, Dropped
<1>5. ASSUME NEW p \in Plans, GivesUp(p) \/ Executes(p) \/ CleansUp(p)
      PROVE  Within
  BY <1>5 DEF GivesUp, Executes, CleansUp
<1>6. ASSUME NEW d \in Directories, NEW n \in Starts, SurvivorWrites(d, n)
      PROVE  Within
  BY <1>6 DEF SurvivorWrites
<1>7. ASSUME NEW d \in PreparedIn, Prepares(d)
      PROVE  Within
  BY <1>7 DEF Prepares
<1> QED
  BY <1>1, <1>2, <1>3, <1>4, <1>5, <1>6, <1>7, Steps

\* The steps that change directories.
LEMMA DiskMoves ==
    ASSUME [Next]_vars
    PROVE  \/ UNCHANGED <<exists, access, content>>
           \/ \E u \in todo : Remove(u) \/ RemovalFails(u) \/ SetUp(u) \/ SetUpFails(u)
           \/ \E p \in Plans :
                  Unpack(p) \/ UnpackFails(p) \/ Executes(p) \/ CleansUp(p)
           \/ \E d \in PreparedIn : Prepares(d)
           \/ \E d \in Directories, n \in Starts : SurvivorWrites(d, n)
<1> DEFINE Same == UNCHANGED <<exists, access, content>>
<1>1. ASSUME NEW S \in SUBSET Plans, NEW conf \in [S -> Sessions], Boot(S, conf)
      PROVE  Same
  BY <1>1 DEF Boot, disk
<1>2. CASE End \/ NextStage \/ TargetFails \/ UNCHANGED vars
  BY <1>2 DEF End, NextStage, TargetFails, vars, disk
<1>3. ASSUME NEW u \in todo, GrantFile(u) \/ GrantFileFails(u)
      PROVE  Same
  BY <1>3 DEF GrantFile, GrantFileFails, disk
<1>4. ASSUME NEW p \in Plans, Deploy(p) \/ CheckSize(p) \/ GivesUp(p)
      PROVE  Same
  BY <1>4 DEF Deploy, CheckSize, GivesUp, disk
<1> QED
  BY <1>1, <1>2, <1>3, <1>4, Steps

\* The steps that drop plans.
LEMMA Drops ==
    ASSUME TypeOK, [Next]_vars, Within
    PROVE  \/ surviving' = surviving
           \/ at' = 0
           \/ TargetFails
           \/ \E u \in todo : SetUpFails(u) \/ GrantFileFails(u)
           \/ \E p \in Plans : UnpackFails(p) \/ GivesUp(p)
<1> DEFINE Same == surviving' = surviving
<1>1. ASSUME NEW S \in SUBSET Plans, NEW conf \in [S -> Sessions], Boot(S, conf)
      PROVE  Same
  BY <1>1 DEF Boot, Within, run, TypeOK
<1>2. CASE End \/ NextStage \/ UNCHANGED vars
  BY <1>2 DEF End, Stop, NextStage, vars
<1>3. ASSUME NEW u \in todo, Remove(u) \/ RemovalFails(u) \/ SetUp(u) \/ GrantFile(u)
      PROVE  Same \/ at' = 0
  BY <1>3 DEF Remove, RemovalFails, Stop, SetUp, GrantFile
<1>4. ASSUME NEW p \in Plans, Deploy(p) \/ CheckSize(p) \/ Unpack(p)
      PROVE  Same
  BY <1>4 DEF Deploy, CheckSize, Unpack
<1>5. ASSUME NEW p \in Plans, Executes(p) \/ CleansUp(p)
      PROVE  Same
  BY <1>5 DEF Executes, CleansUp
<1>6. ASSUME NEW d \in Directories, NEW n \in Starts, SurvivorWrites(d, n)
      PROVE  Same
  BY <1>6 DEF SurvivorWrites
<1>7. ASSUME NEW d \in PreparedIn, Prepares(d)
      PROVE  Same
  BY <1>7 DEF Prepares
<1> QED
  BY <1>1, <1>2, <1>3, <1>4, <1>5, <1>6, <1>7, Steps

\* Access to files is not taken back, and runs are recorded from stage to stage.
LEMMA Records ==
    ASSUME [Next]_vars
    PROVE  readers \subseteq readers' /\ (NextStage \/ forgotten' = forgotten)
<1> DEFINE Same == readers \subseteq readers' /\ forgotten' = forgotten
<1>1. ASSUME NEW S \in SUBSET Plans, NEW conf \in [S -> Sessions], Boot(S, conf)
      PROVE  Same
  BY <1>1 DEF Boot, disk
<1>2. CASE End \/ TargetFails \/ UNCHANGED vars
  BY <1>2 DEF End, TargetFails, vars, disk
<1>3. ASSUME NEW u \in todo,
             \/ Remove(u) \/ RemovalFails(u) \/ SetUp(u) \/ SetUpFails(u)
             \/ GrantFile(u) \/ GrantFileFails(u)
      PROVE  Same
  BY <1>3 DEF Remove, RemovalFails, SetUp, SetUpFails, GrantFile, GrantFileFails, disk
<1>4. ASSUME NEW p \in Plans,
             \/ Deploy(p) \/ CheckSize(p) \/ Unpack(p) \/ UnpackFails(p)
             \/ GivesUp(p) \/ Executes(p) \/ CleansUp(p)
      PROVE  Same
  BY <1>4 DEF Deploy, CheckSize, Unpack, UnpackFails, GivesUp, Executes, CleansUp, disk
<1>5. ASSUME NEW d \in Directories, NEW n \in Starts, SurvivorWrites(d, n)
      PROVE  Same
  BY <1>5 DEF SurvivorWrites
<1>6. NextStage => readers' = readers
  BY DEF NextStage, disk
<1>7. ASSUME NEW d \in PreparedIn, Prepares(d)
      PROVE  Same
  BY <1>7 DEF Prepares
<1> QED
  BY <1>1, <1>2, <1>3, <1>4, <1>5, <1>6, <1>7, Steps

\* How a directory changes that is set up, or is not.
LEMMA SettingUp ==
    ASSUME TypeOK, TodoFits, NEW u \in todo, SetUp(u) \/ SetUpFails(u)
    PROVE  /\ u \in Directories /\ stage \in SetUps
           /\ UNCHANGED <<at, content, haunted, run>>
           /\ exists \subseteq exists' /\ exists' \subseteq exists \cup {u}
           /\ \/ UNCHANGED <<exists, access>>
              \/ /\ u \in exists'
                 /\ \A d \in Directories \ {u} : access'[d] = access[d]
                 /\ \/ access'[u] = access[u]
                    \/ access'[u] \subseteq Kept(u) \cup UserOf(u)
<1>1. u \in Directories /\ stage \in SetUps
  BY SetUpIs DEF SetUp, SetUpFails
<1>2. CASE SetUp(u)
  BY <1>1, <1>2 DEF SetUp, TypeOK, outside
<1>3. CASE SetUpFails(u)
  <2>1. CASE UNCHANGED <<exists, access>>
    BY <1>1, <1>3, <2>1 DEF SetUpFails, outside
  <2>2. CASE ~UNCHANGED <<exists, access>>
    <3>1. /\ exists' = exists \cup {u}
          /\ access' \in {access} \cup {[access EXCEPT ![u] = Kept(u) \cup U] :
                                            U \in SUBSET UserOf(u)}
      BY <1>3, <2>2 DEF SetUpFails
    <3> QED
      BY <1>1, <1>3, <3>1 DEF SetUpFails, TypeOK, outside
  <2> QED
    BY <2>1, <2>2
<1> QED
  BY <1>2, <1>3

-----------------------------------------------------------------------------
(* Each part of the invariant is preserved.                                *)

LEMMA RunsStep ==
    ASSUME TypeOK, RunsFit, SurvivorsFit, TypeOK', [Next]_vars
    PROVE  RunsFit' /\ SurvivorsFit'
<1>1. ASSUME NEW S \in SUBSET Plans, NEW conf \in [S -> Sessions], Boot(S, conf)
      PROVE  RunsFit' /\ SurvivorsFit'
  <2>1. starts' = starts + 1 /\ forgotten' = forgotten /\ survivors' = survivors
        /\ Configured' \subseteq Plans
    BY <1>1 DEF Boot, outside, Configured
  <2>2. RunsFit'
    BY <2>1 DEF RunsFit, TypeOK
  <2>3. SurvivorsFit'
    BY <2>1 DEF SurvivorsFit, TypeOK, Starts
  <2> QED
    BY <2>2, <2>3
<1>2. ASSUME Within PROVE RunsFit'
  <2>1. CASE NextStage
    <3>1. forgotten' = forgotten
          \/ forgotten' = [p \in Plans |-> IF p \in Configured THEN forgotten[p] ELSE starts]
      BY <2>1 DEF NextStage
    <3> QED
      BY <1>2, <2>1, <3>1 DEF Within, RunsFit, run, TypeOK, NextStage, Up, Configured
  <2>2. CASE ~NextStage
    <3>1. forgotten' = forgotten
      BY <1>2, <2>2, Steps DEF Within, run, vars, Boot, End, TargetFails, Remove,
         RemovalFails, SetUp, SetUpFails, GrantFile, GrantFileFails, Deploy, CheckSize,
         Unpack, UnpackFails, Prepares, GivesUp, Executes, CleansUp, SurvivorWrites
    <3> QED
      BY <1>2, <2>2, <3>1 DEF Within, RunsFit, run, Up, Configured
  <2> QED
    BY <2>1, <2>2
<1>3. ASSUME Within PROVE SurvivorsFit'
  <2>1. CASE End
    <3>1. \A d \in AtWork : d[1] # "managed"
      BY PreparedAre DEF AtWork
    <3> QED
      BY <1>3, <2>1, <3>1 DEF Within, SurvivorsFit, End, run, TypeOK
  <2>2. CASE ~End
    <3>1. survivors' = survivors
      BY <1>3, <2>2, Steps DEF Within, outside, vars, Boot, NextStage, TargetFails, Remove,
         RemovalFails, SetUp, SetUpFails, GrantFile, GrantFileFails, Deploy, CheckSize,
         Unpack, UnpackFails, Prepares, GivesUp, Executes, CleansUp, SurvivorWrites
    <3> QED
      BY <1>3, <3>1 DEF Within, SurvivorsFit, run
  <2> QED
    BY <2>1, <2>2
<1> QED
  BY <1>1, <1>2, <1>3, Moves

LEMMA TodoStep ==
    ASSUME TypeOK, TodoFits, TypeOK', [Next]_vars
    PROVE  TodoFits'
<1>1. ASSUME NEW S \in SUBSET Plans, NEW conf \in [S -> Sessions], Boot(S, conf)
      PROVE  TodoFits'
  <2>1. at' = 1 /\ todo' = Present("rcc", Sessions)
    BY <1>1, UnitsAre DEF Boot
  <2> QED
    BY <2>1 DEF TodoFits, Present
<1>2. CASE NextStage
  <2> DEFINE n == at + 1
  <2>1. n \in 1 .. 14 /\ at' = n /\ todo' = Units(Stages[n]) /\ UNCHANGED <<surviving, config>>
    BY <1>2 DEF NextStage, run, TypeOK
  <2>2. \A p \in surviving : p \in Plans /\ config[p] \in Sessions
    BY SurvivingAre
  <2> HIDE DEF n
  <2>3. CASE n \in 1 .. 6
    BY <2>1, <2>2, <2>3, Names, UnitsAre DEF TodoFits, Present, Foreign, Configured
  <2>4. CASE n \in 7 .. 10
    BY <2>1, <2>2, <2>4, Names, UnitsAre DEF TodoFits
  <2>5. CASE n \in 11 .. 14
    BY <2>1, <2>2, <2>5, Names, UnitsAre DEF TodoFits
  <2> QED
    BY <2>1, <2>3, <2>4, <2>5
<1>3. CASE Within /\ ~NextStage
  <2>1. CASE at' = 0 /\ todo' = {}
    BY <2>1 DEF TodoFits
  <2>2. CASE at' = at /\ todo' \subseteq todo
    <3>1. \A q \in surviving : at \in {5, 6, 10} /\ q \notin surviving' =>
              \A d \in todo' : d[2] # q
      <4> SUFFICES ASSUME NEW q \in surviving, at \in {5, 6, 10}, q \notin surviving'
                   PROVE  \A d \in todo' : d[2] # q
        OBVIOUS
      <4>1. ASSUME NEW u \in todo, SetUpFails(u)
            PROVE  /\ surviving' = surviving \ {u[2]} /\ todo' = todo \ {u}
                   /\ \A d \in todo : d[2] = u[2] => d = u
        BY <4>1, StageIs DEF SetUpFails, Dropped, Treated, Concerned, TodoFits, TypeOK
      <4>2. ASSUME NEW p \in Plans, UnpackFails(p)
            PROVE  /\ surviving' = surviving \ {p} /\ todo' = todo \ {<<"managed", p>>}
                   /\ \A d \in todo : d[2] = p => d = <<"managed", p>>
        BY <4>2, StageIs DEF UnpackFails, Dropped, Treated, Concerned, TodoFits, TypeOK
      <4>3. ~TargetFails /\ (\A u \in todo : ~GrantFileFails(u)) /\ \A p \in Plans : ~GivesUp(p)
        BY StageIs DEF TargetFails, GrantFileFails, GivesUp, Files, TypeOK
      <4> QED
        BY <1>3, <2>2, <4>1, <4>2, <4>3, Drops
    <3> QED
      BY <1>3, <2>2, <3>1 DEF TodoFits, Within, run, Configured
  <2> QED
    BY <1>3, <2>1, <2>2 DEF Within
<1> QED
  BY <1>1, <1>2, <1>3, Moves

LEMMA BlankStep ==
    ASSUME TypeOK, TodoFits, Blank, OwnFits, TypeOK', [Next]_vars
    PROVE  Blank'
<1>1. CASE UNCHANGED <<exists, access, content>>
  BY <1>1 DEF Blank
<1>2. ASSUME NEW u \in todo, Remove(u) \/ RemovalFails(u)
      PROVE  Blank'
  <2>1. u \in Directories
    BY <1>2, TodoIs, StageIs DEF Remove, RemovalFails, TypeOK
  <2> QED
    BY <1>2, <2>1 DEF Remove, RemovalFails, Blank, TypeOK
<1>3. ASSUME NEW u \in todo, SetUp(u) \/ SetUpFails(u)
      PROVE  Blank'
  BY <1>3, SettingUp DEF Blank
<1>4. ASSUME NEW d \in exists, NEW x, LeaveIn(d, x), UNCHANGED <<exists, access>>
      PROVE  Blank'
  BY <1>4 DEF Blank, LeaveIn, TypeOK
<1>5. ASSUME NEW p \in Plans, Unpack(p) \/ UnpackFails(p)
      PROVE  Blank'
  <2>1. at = 10 /\ p \in surviving \cap Managed
    BY <1>5, StageIs DEF Unpack, UnpackFails, TodoFits, TypeOK
  <2>2. <<"managed", p>> \in exists
    BY <2>1 DEF OwnFits, Own, Done, Place
  <2> QED
    BY <1>1, <1>4, <1>5, <2>2 DEF Unpack, UnpackFails
<1>6. ASSUME NEW d \in PreparedIn, Prepares(d)
      PROVE  Blank'
  <2>1. at = 13
    BY <1>6, StageIs DEF Prepares, TypeOK
  <2>2. ASSUME NEW p \in surviving \cap Rcc, NEW kind \in {"building", "rcc"}
        PROVE  <<kind, config[p]>> \in exists
    BY <2>1, <2>2 DEF OwnFits, Own, Done, Place
  <2>3. \/ \E kind \in {"building", "rcc"}, p \in surviving \cap Rcc : d = <<kind, config[p]>>
        \/ d \in exists
    BY DEF PreparedIn
  <2>4. d \in exists
    BY <2>2, <2>3
  <2> QED
    BY <1>4, <1>6, <2>4 DEF Prepares
<1>7. ASSUME NEW p \in Plans, Executes(p)
      PROVE  Blank'
  <2>1. at = 14 /\ p \in surviving
    BY <1>7, StageIs DEF Executes, TypeOK
  <2>2. <<"working", p>> \in exists
    BY <2>1 DEF OwnFits, Own, Done, Place
  <2> QED
    BY <1>4, <1>7, <2>2 DEF Executes
<1>8. ASSUME NEW p \in Plans, CleansUp(p)
      PROVE  Blank'
  <2>1. PICK rest \in SUBSET content[<<"working", p>>] :
            content' = [content EXCEPT ![<<"working", p>>] = rest]
    BY <1>8 DEF CleansUp
  <2>2. \A d \in Directories : content'[d] \subseteq content[d]
    BY <2>1 DEF TypeOK
  <2> QED
    BY <1>8, <2>2 DEF CleansUp, Blank
<1>9. ASSUME NEW d \in Directories, NEW n \in Starts, SurvivorWrites(d, n)
      PROVE  Blank'
  BY <1>9 DEF SurvivorWrites, LeaveIn, Blank, TypeOK
<1> QED
  BY <1>1, <1>2, <1>3, <1>5, <1>6, <1>7, <1>8, <1>9, DiskMoves

\* The steps that take something from what is to be treated.
LEMMA Treats ==
    ASSUME TypeOK, TodoFits, [Next]_vars, Within
    PROVE  \/ todo' = todo
           \/ at' = 0
           \/ NextStage
           \/ at \in {7, 8} /\ TargetFails
           \/ \E u \in todo : Remove(u) \/ SetUp(u) \/ SetUpFails(u)
           \/ at \in {11, 12} /\ \E u \in todo : GrantFile(u) \/ GrantFileFails(u)
           \/ at = 10 /\ \E p \in surviving \cap Managed : Unpack(p) \/ UnpackFails(p)
<1> DEFINE Same == todo' = todo \/ at' = 0
<1>1. ASSUME NEW S \in SUBSET Plans, NEW conf \in [S -> Sessions], Boot(S, conf)
      PROVE  Same
  BY <1>1 DEF Boot, Within, run, TypeOK
<1>2. CASE End \/ UNCHANGED vars
  BY <1>2 DEF End, Stop, vars
<1>3. ASSUME NEW u \in todo, RemovalFails(u)
      PROVE  Same
  BY <1>3 DEF RemovalFails, Stop
<1>4. ASSUME NEW p \in Plans,
             Deploy(p) \/ CheckSize(p) \/ GivesUp(p) \/ Executes(p) \/ CleansUp(p)
      PROVE  Same
  BY <1>4 DEF Deploy, CheckSize, GivesUp, Executes, CleansUp
<1>5. ASSUME NEW d \in Directories, NEW n \in Starts, SurvivorWrites(d, n)
      PROVE  Same
  BY <1>5 DEF SurvivorWrites
<1>6. ASSUME NEW p \in Plans, Unpack(p) \/ UnpackFails(p)
      PROVE  at = 10 /\ p \in surviving \cap Managed
  BY <1>6, StageIs DEF Unpack, UnpackFails, TodoFits, TypeOK
<1>7. TargetFails => at \in {7, 8}
  BY StageIs DEF TargetFails, TypeOK
<1>8. ASSUME NEW u \in todo, GrantFile(u) \/ GrantFileFails(u)
      PROVE  at \in {11, 12}
  BY <1>8, StageIs DEF GrantFile, GrantFileFails, Files, TypeOK
<1>9. ASSUME NEW d \in PreparedIn, Prepares(d)
      PROVE  Same
  BY <1>9 DEF Prepares
<1> QED
  BY <1>1, <1>2, <1>3, <1>4, <1>5, <1>6, <1>7, <1>8, <1>9, Steps

\* What commands, but those that have survived, do in the directories.
Uses ==
    /\ at' = at /\ at \in {13, 14}
    /\ UNCHANGED <<todo, exists, access, haunted, run>>
    /\ \A d \in Directories :
           /\ d[1] = "managed" => content'[d] = content[d]
           /\ at = 13 => content[d] \subseteq content'[d]
           /\ \/ content'[d] \subseteq content[d]
              \/ /\ content'[d] \subseteq content[d] \cup {starts}
                 /\ d[1] = "working" => at = 14 /\ d[2] \in Configured

\* The steps by what they do to directories.
LEMMA Leaving ==
    ASSUME TypeOK, TodoFits, [Next]_vars
    PROVE  \/ UNCHANGED <<exists, access, content, haunted>>
           \/ \E u \in todo : Remove(u) \/ RemovalFails(u)
           \/ \E u \in todo : SetUp(u) \/ SetUpFails(u)
           \/ at = 10 /\ \E p \in surviving \cap Managed : Unpack(p) \/ UnpackFails(p)
           \/ Uses
           \/ \E d \in Directories, n \in Starts : SurvivorWrites(d, n)
<1> DEFINE Same == UNCHANGED <<exists, access, content, haunted>>
<1>1. ASSUME NEW S \in SUBSET Plans, NEW conf \in [S -> Sessions], Boot(S, conf)
      PROVE  Same
  BY <1>1 DEF Boot, disk, outside
<1>2. CASE End \/ NextStage \/ TargetFails \/ UNCHANGED vars
  BY <1>2 DEF End, NextStage, TargetFails, vars, disk, outside
<1>3. ASSUME NEW u \in todo, GrantFile(u) \/ GrantFileFails(u)
      PROVE  Same
  BY <1>3 DEF GrantFile, GrantFileFails, disk, outside
<1>4. ASSUME NEW p \in Plans, Deploy(p) \/ CheckSize(p) \/ GivesUp(p)
      PROVE  Same
  BY <1>4 DEF Deploy, CheckSize, GivesUp, disk, outside
<1>5. ASSUME NEW p \in Plans, Unpack(p) \/ UnpackFails(p)
      PROVE  at = 10 /\ p \in surviving \cap Managed
  BY <1>5, StageIs DEF Unpack, UnpackFails, TodoFits, TypeOK
<1>6. ASSUME NEW d \in PreparedIn, Prepares(d)
      PROVE  Uses
  BY <1>6, StageIs, PreparedAre DEF Prepares, LeaveIn, TypeOK, outside, Uses
<1>7. ASSUME NEW p \in Plans, Executes(p)
      PROVE  Uses
  <2>1. at = 14 /\ p \in Configured
    BY <1>7, StageIs, SurvivingAre DEF Executes, TypeOK
  <2> QED
    BY <1>7, <2>1 DEF Executes, LeaveIn, TypeOK, outside, Uses
<1>8. ASSUME NEW p \in Plans, CleansUp(p)
      PROVE  Uses
  <2>1. PICK rest \in SUBSET content[<<"working", p>>] :
            content' = [content EXCEPT ![<<"working", p>>] = rest]
    BY <1>8 DEF CleansUp
  <2>2. \A d \in Directories : /\ content'[d] \subseteq content[d]
                               /\ d[1] = "managed" => content'[d] = content[d]
    BY <2>1 DEF TypeOK
  <2> QED
    BY <1>8, <2>2, StageIs DEF CleansUp, TypeOK, outside, Uses
<1> QED
  BY <1>1, <1>2, <1>3, <1>4, <1>5, <1>6, <1>7, <1>8, DiskMoves, Steps

LEMMA Removing ==
    ASSUME TypeOK, TodoFits, NEW u \in todo, Remove(u) \/ RemovalFails(u)
    PROVE  /\ u \in Directories /\ at \in 1 .. 4
           /\ exists' \subseteq exists
           /\ \A d \in Directories :
                  /\ content'[d] \subseteq content[d] /\ access'[d] \subseteq access[d]
                  /\ d # u => content'[d] = content[d]
           /\ UNCHANGED run
           /\ \/ at' = 0 /\ haunted' = haunted
              \/ /\ at' = at /\ todo' = todo \ {u} /\ surviving' = surviving
                 /\ exists' = exists \ {u} /\ haunted' = haunted \ {u}
                 /\ content'[u] = {}
<1>1. at \in 1 .. 4
  BY StageIs DEF Remove, RemovalFails, TypeOK
<1>2. u \in Directories
  BY <1>1, TodoIs
<1> QED
  BY <1>1, <1>2 DEF Remove, RemovalFails, Treated, Stop, TypeOK, outside

LEMMA AnewStep ==
    ASSUME TypeOK, TodoFits, SurvivorsFit, OwnFits, Anew, TypeOK', [Next]_vars
    PROVE  Anew'
<1>1. ASSUME NEW S \in SUBSET Plans, NEW conf \in [S -> Sessions], Boot(S, conf)
      PROVE  Anew'
  BY <1>1, UnitsAre DEF Boot, disk, Anew, Present
<1>2. CASE NextStage
  <2>1. /\ at + 1 \in 1 .. 14 /\ at' = at + 1
        /\ at + 1 = 1 => todo' = Present("rcc", Sessions)
        /\ at + 1 = 2 => todo' = Present("building", Sessions)
        /\ at + 1 = 3 => todo' = Foreign
        /\ at + 1 = 4 => todo' = Present("managed", Plans)
        /\ UNCHANGED <<exists, config>>
    BY <1>2, Names, UnitsAre DEF NextStage, TypeOK, disk, run
  <2> QED
    BY <2>1 DEF Anew, Present, Foreign, Configured
<1>3. CASE Within /\ at' = at /\ at \in 1 .. 4
  <2>1. ASSUME NEW u \in todo, Remove(u) \/ RemovalFails(u)
        PROVE  Anew'
    BY <1>3, <2>1, Removing DEF Anew, Present, Foreign, Configured, run
  <2>2. ASSUME NEW d \in Directories, NEW n \in Starts, SurvivorWrites(d, n)
        PROVE  Anew'
    <3>1. d[1] # "managed" /\ (d[1] # "working" => d \in exists)
      BY <2>2 DEF SurvivorWrites, SurvivorsFit
    <3>2. /\ exists' = exists \cup {d} /\ haunted' = haunted \cup {d}
          /\ UNCHANGED <<at, todo, config>>
      BY <2>2 DEF SurvivorWrites, run
    <3> QED
      BY <3>1, <3>2 DEF Anew, Present, Foreign, Configured
  <2>3. CASE todo' = todo /\ UNCHANGED <<exists, haunted, config>>
    BY <1>3, <2>3 DEF Anew, Present, Foreign, Configured
  <2>4. ASSUME NEW u \in todo PROVE ~(SetUp(u) \/ SetUpFails(u))
    BY <1>3, SettingUp, StageIs DEF TypeOK
  <2>5. \/ todo' = todo
        \/ \E u \in todo : Remove(u)
    BY <1>3, <2>4, Treats DEF NextStage, TypeOK
  <2>6. config' = config
    BY <1>3 DEF Within, run
  <2> QED
    BY <1>3, <2>1, <2>2, <2>3, <2>4, <2>5, <2>6, Leaving DEF Uses
<1> QED
  BY <1>1, <1>2, <1>3, Moves DEF Within, Anew

LEMMA FreshStep ==
    ASSUME TypeOK, TodoFits, SurvivorsFit, Blank, Anew, Fresh, TypeOK', [Next]_vars
    PROVE  Fresh'
<1>1. ASSUME NEW S \in SUBSET Plans, NEW conf \in [S -> Sessions], Boot(S, conf)
      PROVE  Fresh'
  BY <1>1 DEF Boot, Fresh
<1>2. CASE NextStage
  <2>1. /\ at' = at + 1 /\ todo = {}
        /\ UNCHANGED <<exists, content, haunted, starts, config>>
    BY <1>2 DEF NextStage, disk, outside, run
  <2> QED
    BY <2>1 DEF Anew, Fresh, TypeOK, Present, Foreign, Configured
<1>3. CASE Within /\ at' = at /\ ~NextStage
  <2>0. UNCHANGED <<at, starts, config>>
    BY <1>3 DEF Within, run
  <2>1. CASE UNCHANGED <<exists, content, haunted>>
    BY <2>0, <2>1 DEF Fresh, Present, Foreign, Configured
  <2>2. ASSUME NEW u \in todo, Remove(u) \/ RemovalFails(u)
        PROVE  Fresh'
    <3>1. CASE at' = 0
      BY <3>1 DEF Fresh
    <3>2. CASE at' # 0
      <4>1. /\ exists' = exists \ {u} /\ haunted' = haunted \ {u}
            /\ \A d \in Directories : content'[d] \subseteq content[d]
        BY <2>2, <3>2, Removing
      <4> QED
        BY <2>0, <4>1, DirectoriesAre DEF Fresh, Present, Foreign, Configured
    <3> QED
      BY <3>1, <3>2
  <2>3. ASSUME NEW u \in todo, SetUp(u) \/ SetUpFails(u)
        PROVE  Fresh'
    <3>1. /\ UNCHANGED <<content, haunted>> /\ at \in 5 .. 9
          /\ exists \subseteq exists' /\ exists' \subseteq exists \cup {u}
      BY <2>3, SettingUp, StageIs DEF TypeOK
    <3>2. /\ u[1] = "managed" => u[2] \in Configured \cap Managed
          /\ u[1] = "working" => u[2] \in Configured
          /\ u \in Directories
      BY <2>3, SettingUp, SetUpIs, SurvivingAre
    <3>3. u \notin exists => content[u] = {}
      BY <3>2 DEF Blank
    <3> QED
      BY <2>0, <3>1, <3>2, <3>3 DEF Fresh, Present, Foreign, Configured
  <2>4. ASSUME at = 10, NEW p \in surviving \cap Managed, Unpack(p) \/ UnpackFails(p)
        PROVE  Fresh'
    <3>1. UNCHANGED <<exists, haunted>>
      BY <2>4 DEF Unpack, UnpackFails, outside
    <3>2. \A d \in Directories : d[1] # "managed" => content'[d] = content[d]
      BY <2>4 DEF Unpack, UnpackFails, LeaveIn, TypeOK
    <3> QED
      BY <2>0, <3>1, <3>2, DirectoriesAre DEF Fresh, Present, Foreign, Configured
  <2>5. CASE Uses
    BY <2>0, <2>5, DirectoriesAre DEF Uses, Fresh, Present, Foreign, Configured
  <2>6. ASSUME NEW d \in Directories, NEW n \in Starts, SurvivorWrites(d, n)
        PROVE  Fresh'
    <3>1. d[1] # "managed"
      BY <2>6 DEF SurvivorWrites, SurvivorsFit
    <3>2. /\ exists' = exists \cup {d} /\ haunted' = haunted \cup {d}
          /\ \A e \in Directories \ {d} : content'[e] = content[e]
      BY <2>6 DEF SurvivorWrites, LeaveIn, TypeOK
    <3> QED
      BY <2>0, <3>1, <3>2, DirectoriesAre DEF Fresh, Present, Foreign, Configured
  <2> QED
    BY <2>1, <2>2, <2>3, <2>4, <2>5, <2>6, Leaving
<1> QED
  BY <1>1, <1>2, <1>3, Moves DEF Within, Fresh

LEMMA AccessStep ==
    ASSUME TypeOK, TodoFits, Blank, Anew, SessionAccess, ManagedAccess, TypeOK', [Next]_vars
    PROVE  SessionAccess' /\ ManagedAccess'
<1>1. ASSUME NEW u \in todo, SetUp(u) \/ SetUpFails(u)
      PROVE  SessionAccess' /\ ManagedAccess'
  <2>1. /\ u \in Directories /\ UNCHANGED <<at, config>>
        /\ \A d \in Directories \ {u} : access'[d] = access[d]
        /\ access'[u] = access[u] \/ access'[u] \subseteq Kept(u) \cup UserOf(u)
    BY <1>1, SettingUp DEF run
  <2>2. /\ u[1] = "managed" => UserOf(u) = User(config[u[2]]) /\ Kept(u) = access[u] /\ at = 5
        /\ u[1] \in {"building", "rcc"} => UserOf(u) = User(u[2]) /\ Kept(u) = access[u]
    BY <1>1, SettingUp, SetUpIs
  <2>3. \A p \in Configured : p \in Plans
    BY ConfigIs
  <2>4. SessionAccess'
    BY <2>1, <2>2, DirectoriesAre DEF SessionAccess, User
  <2>5. ASSUME at >= 5, NEW p \in Configured
        PROVE  access'[<<"managed", p>>] \subseteq User(config[p])
    <3>1. <<"managed", p>> \in Directories /\ access[<<"managed", p>>] \subseteq User(config[p])
      BY <2>3, <2>5, DirectoriesAre DEF ManagedAccess
    <3>2. CASE u = <<"managed", p>>
      <4>1. Kept(u) \cup UserOf(u) \subseteq User(config[p])
        BY <2>2, <3>1, <3>2
      <4> QED
        BY <2>1, <3>1, <3>2, <4>1
    <3>3. CASE u # <<"managed", p>>
      BY <2>1, <3>1, <3>3
    <3> QED
      BY <3>2, <3>3
  <2>6. ManagedAccess'
    BY <2>1, <2>5 DEF ManagedAccess, User, Configured
  <2> QED
    BY <2>4, <2>6
<1>2. ASSUME \A d \in Directories : access'[d] \subseteq access[d]
      PROVE  SessionAccess' /\ ManagedAccess'
  <2>1. SessionAccess'
    BY <1>2, DirectoriesAre DEF SessionAccess, User
  <2>2. CASE Within /\ ~NextStage
    <3>1. \A p \in Configured : p \in Plans
      BY ConfigIs
    <3> QED
      BY <1>2, <2>1, <2>2, <3>1, DirectoriesAre
      DEF Within, ManagedAccess, run, Configured, User
  <2>3. CASE NextStage
    <3>1. at' = at + 1 /\ todo = {} /\ UNCHANGED <<access, config>>
      BY <2>3 DEF NextStage, disk, run
    <3>2. \A p \in Configured : p \in Plans
      BY ConfigIs
    <3>3. at = 4 => \A p \in Plans : access[<<"managed", p>>] = {}
      <4>1. at = 4 => \A p \in Plans : <<"managed", p>> \notin exists
        BY <3>1 DEF Anew, Present
      <4> QED
        BY <4>1, DirectoriesAre DEF Blank
    <3>4. ManagedAccess'
      BY <3>1, <3>2, <3>3 DEF ManagedAccess, Configured, User, TypeOK
    <3> QED
      BY <2>1, <3>4
  <2>4. ASSUME NEW S \in SUBSET Plans, NEW conf \in [S -> Sessions], Boot(S, conf)
        PROVE  ManagedAccess'
    BY <2>4 DEF Boot, ManagedAccess
  <2> QED
    BY <2>1, <2>2, <2>3, <2>4, Moves
<1>3. ASSUME NEW p \in Plans, Unpack(p) \/ UnpackFails(p)
      PROVE  access' = access
  BY <1>3 DEF Unpack, UnpackFails
<1>4. ASSUME NEW d \in Directories, NEW n \in Starts, SurvivorWrites(d, n)
      PROVE  access' = access
  BY <1>4 DEF SurvivorWrites
<1>5. Uses => access' = access
  BY DEF Uses
<1>6. ASSUME NEW u \in todo, Remove(u) \/ RemovalFails(u)
      PROVE  \A d \in Directories : access'[d] \subseteq access[d]
  BY <1>6, Removing
<1> QED
  <2>1. surviving \subseteq Plans
    BY SurvivingAre
  <2> QED
    BY <1>1, <1>2, <1>3, <1>4, <1>5, <1>6, <2>1, Leaving

LEMMA OwnIs ==
    ASSUME TypeOK, NEW p \in surviving, NEW d \in Own(p)
    PROVE  /\ d \in Directories /\ d = <<d[1], d[2]>>
           /\ \/ d = <<"working", p>> /\ Place(d[1]) = 6
              \/ d = <<"managed", p>> /\ p \in Managed /\ Place(d[1]) = 5
              \/ d = <<"building", config[p]>> /\ p \in Rcc /\ Place(d[1]) = 7
              \/ d = <<"rcc", config[p]>> /\ p \in Rcc /\ Place(d[1]) = 8
BY SurvivingAre, DirectoriesAre DEF Own, Place

\* What is done for a plan was done before the step, or is done by it.
LEMMA DoneBefore ==
    ASSUME TypeOK, TodoFits, [Next]_vars, Within,
           NEW p \in surviving', NEW d \in Own(p), Done(d)'
    PROVE  p \in surviving /\ (Done(d) \/ SetUp(d))
<1>1. p \in surviving
  BY DEF Within
<1>2. Place(d[1]) \in 5 .. 8
  BY <1>1, OwnIs
<1>3. CASE NextStage
  <2>1. /\ at' = at + 1 /\ todo = {} /\ todo' = Units(Stages[at + 1])
    BY <1>3 DEF NextStage
  <2>2. CASE at + 1 = Place(d[1])
    <3>1. d \in Units(Stages[at + 1])
      BY <1>1, <2>2, OwnIs, Names, UnitsAre
    <3> QED
      BY <2>1, <2>2, <3>1 DEF Done
  <2>3. CASE at + 1 # Place(d[1])
    BY <1>1, <1>2, <2>1, <2>3 DEF Done, TypeOK
  <2> QED
    BY <2>2, <2>3
<1>4. CASE ~NextStage
  <2>1. at' = at /\ todo' \subseteq todo
    BY <1>2, <1>4 DEF Within, Done
  <2>2. CASE Done(d)
    BY <1>1, <2>2
  <2>3. CASE ~Done(d)
    <3>1. at = Place(d[1]) /\ d \in todo /\ d \notin todo'
      BY <1>2, <2>1, <2>3 DEF Done, TypeOK
    <3>2. ~TargetFails
      <4>1. at \in {7, 8} => p \in Rcc
        BY <1>1, <3>1, OwnIs
      <4>2. TargetFails => at \in {7, 8}
        BY StageIs DEF TargetFails, TypeOK
      <4> QED
        BY <4>1, <4>2 DEF TargetFails
    <3>3. ASSUME NEW u \in todo, SetUpFails(u)
          PROVE  u # d
      <4>1. SUFFICES ASSUME u = d PROVE p \in Concerned(u)
        BY <3>3 DEF SetUpFails, Dropped
      <4> QED
        BY <1>1, <3>1, <4>1, OwnIs, StageIs DEF Concerned, TypeOK
    <3>4. \A u \in todo : ~Remove(u)
      BY <1>2, <3>1, StageIs DEF Remove, TypeOK
    <3>5. PICK u \in todo : SetUp(u) \/ SetUpFails(u)
      BY <1>2, <1>4, <2>1, <3>1, <3>2, <3>4, Treats
    <3>6. todo' = todo \ {u}
      BY <3>5 DEF SetUp, SetUpFails, Treated, Dropped
    <3> QED
      BY <1>1, <3>1, <3>3, <3>5, <3>6
  <2> QED
    BY <2>2, <2>3
<1> QED
  BY <1>3, <1>4

\* What is set up for a plan is as the plan needs it.
LEMMA SetUpFits ==
    ASSUME TypeOK, TodoFits, SessionAccess, ManagedAccess,
           NEW p \in surviving, NEW d \in Own(p), d \in todo, SetUp(d)
    PROVE  d \in exists' /\ access'[d] = User(config[p])
<1>1. stage \in SetUps
  BY DEF SetUp
<1>2. d \in exists' /\ access'[d] = Kept(d) \cup UserOf(d)
  BY OwnIs DEF SetUp, TypeOK
<1>3. CASE d = <<"working", p>> \/ d = <<"managed", p>>
  <2>1. UserOf(d) = User(config[p])
    BY <1>3 DEF UserOf
  <2>2. Kept(d) \subseteq User(config[p])
    BY <1>1, <1>3, SetUpIs, SurvivingAre DEF ManagedAccess
  <2> QED
    BY <1>2, <2>1, <2>2
<1>4. CASE d = <<"building", config[p]>> \/ d = <<"rcc", config[p]>>
  <2>1. UserOf(d) = User(config[p])
    BY <1>4 DEF UserOf
  <2>2. Kept(d) \subseteq User(config[p])
    BY <1>1, <1>4, SetUpIs, SurvivingAre DEF SessionAccess
  <2> QED
    BY <1>2, <2>1, <2>2
<1> QED
  BY <1>3, <1>4, OwnIs

LEMMA OwnStep ==
    ASSUME TypeOK, TodoFits, SessionAccess, ManagedAccess, OwnFits, TypeOK', [Next]_vars
    PROVE  OwnFits'
<1>1. ASSUME NEW S \in SUBSET Plans, NEW conf \in [S -> Sessions], Boot(S, conf)
      PROVE  OwnFits'
  <2>1. at' = 1
    BY <1>1 DEF Boot
  <2>2. ASSUME NEW p \in surviving', NEW d \in Own(p)'
        PROVE  ~Done(d)'
    <3>1. Place(d[1]) \in 5 .. 8
      BY <2>2 DEF Own, Place
    <3> QED
      BY <2>1, <3>1 DEF Done
  <2> QED
    BY <2>2 DEF OwnFits
<1>2. ASSUME Within PROVE OwnFits'
  <2>1. config' = config
    BY <1>2 DEF Within, run
  <2>2. SUFFICES ASSUME NEW p \in surviving', NEW d \in Own(p), Done(d)'
                 PROVE  d \in exists' /\ access'[d] = User(config[p])
    BY <2>1 DEF OwnFits, Own, User
  <2>3. p \in surviving /\ (Done(d) \/ SetUp(d))
    BY <1>2, <2>2, DoneBefore
  <2>4. d \in Directories /\ Place(d[1]) \in 5 .. 8
    BY <2>3, OwnIs
  <2>5. CASE SetUp(d)
    BY <2>3, <2>5, SetUpFits DEF SetUp
  <2>6. CASE Done(d) /\ ~SetUp(d)
    <3>1. d \in exists /\ access[d] = User(config[p]) /\ at >= 5
      BY <2>3, <2>4, <2>6 DEF OwnFits, Done, TypeOK
    <3>2. CASE UNCHANGED <<exists, access>>
      BY <3>1, <3>2
    <3>3. ASSUME NEW u \in todo PROVE ~(Remove(u) \/ RemovalFails(u))
      BY <3>1, Removing
    <3>4. ASSUME NEW u \in todo, SetUp(u) \/ SetUpFails(u)
          PROVE  d \in exists' /\ access'[d] = access[d]
      <4>1. /\ exists \subseteq exists' /\ stage \in SetUps
            /\ \A e \in Directories \ {u} : access'[e] = access[e]
            /\ access'[u] = access[u] \/ access'[u] \subseteq Kept(u) \cup UserOf(u)
        BY <3>4, SettingUp
      <4>2. CASE d # u
        BY <2>4, <3>1, <4>1, <4>2
      <4>3. CASE d = u
        <5>1. at = 9
          BY <2>3, <2>6, <4>1, <4>3, OwnIs, SetUpIs DEF Done
        <5>2. d = <<"rcc", config[p]>> /\ config[p] = Current
          BY <2>3, <4>1, <4>3, <5>1, OwnIs, SetUpIs
        <5>3. Kept(u) \cup UserOf(u) = {} /\ access[u] = {}
          BY <3>1, <4>1, <4>3, <5>1, <5>2, SetUpIs DEF User
        <5> QED
          BY <3>1, <4>1, <4>3, <5>3
      <4> QED
        BY <4>2, <4>3
    <3>5. ASSUME NEW q \in surviving, Unpack(q) \/ UnpackFails(q)
          PROVE  UNCHANGED <<exists, access>>
      BY <3>5 DEF Unpack, UnpackFails
    <3>6. ASSUME NEW e \in Directories, NEW n \in Starts, SurvivorWrites(e, n)
          PROVE  exists \subseteq exists' /\ access' = access
      BY <3>6 DEF SurvivorWrites
    <3> QED
      BY <3>1, <3>2, <3>3, <3>4, <3>5, <3>6, Leaving DEF Uses
  <2> QED
    BY <2>3, <2>5, <2>6
<1> QED
  BY <1>1, <1>2, Moves

LEMMA FilesStep ==
    ASSUME TypeOK, TodoFits, FilesFit, TypeOK', [Next]_vars
    PROVE  FilesFit'
<1>1. ASSUME NEW S \in SUBSET Plans, NEW conf \in [S -> Sessions], Boot(S, conf)
      PROVE  FilesFit'
  <2>1. at' = 1
    BY <1>1 DEF Boot
  <2> QED
    BY <2>1 DEF FilesFit, Files, Done, Place
<1>2. ASSUME Within PROVE FilesFit'
  <2>1. config' = config
    BY <1>2 DEF Within, run
  <2>2. SUFFICES ASSUME NEW p \in surviving' \cap Rcc, NEW f \in Files, config[p] # Current,
                        Done(<<f, config[p]>>)'
                 PROVE  <<f, config[p]>> \in readers'
    BY <2>1 DEF FilesFit
  <2> DEFINE g == <<f, config[p]>>
  <2>3. p \in surviving /\ Place(f) \in {11, 12}
        /\ (f = "binary" => Place(f) = 11) /\ (f = "profile" => Place(f) = 12 /\ CustomProfile)
    BY <1>2, <2>2 DEF Within, Place, Files
  <2>4. /\ Done(g) <=> at > Place(f) \/ (at = Place(f) /\ g \notin todo)
        /\ Done(g)' <=> at' > Place(f) \/ (at' = Place(f) /\ g \notin todo')
    <3>1. g[1] = f
      OBVIOUS
    <3> QED
      BY <2>1, <3>1 DEF Done
  <2>5. at' >= 11
    BY <2>2, <2>3, <2>4 DEF TypeOK
  <2>6. Done(g) => g \in readers
    BY <2>2, <2>3 DEF FilesFit
  <2>7. CASE NextStage
    <3>1. at' = at + 1 /\ todo = {} /\ todo' = Units(Stages[at + 1]) /\ readers' = readers
      BY <2>7 DEF NextStage, disk
    <3>2. CASE at + 1 = Place(f)
      <4>1. g \in Units(Stages[at + 1])
        BY <2>2, <2>3, <3>2, Names, UnitsAre DEF Files
      <4> QED
        BY <2>2, <2>3, <2>4, <3>1, <3>2, <4>1
    <3>3. CASE at + 1 # Place(f)
      BY <2>2, <2>3, <2>6, <2>4, <3>1, <3>3 DEF TypeOK
    <3> QED
      BY <3>2, <3>3
  <2>8. CASE ~NextStage
    <3>1. at' = at /\ todo' \subseteq todo
      BY <1>2, <2>5, <2>8 DEF Within
    <3>2. readers \subseteq readers'
      BY Records
    <3>3. CASE Done(g)
      BY <2>6, <3>2, <3>3
    <3>4. CASE ~Done(g)
      <4>1. at = Place(f) /\ g \in todo /\ g \notin todo'
        BY <2>2, <2>3, <2>4, <3>1, <3>4 DEF TypeOK
      <4>2. ASSUME NEW u \in todo PROVE ~Remove(u) /\ ~SetUp(u) /\ ~SetUpFails(u)
        BY <2>3, <4>1, StageIs DEF Remove, SetUp, SetUpFails, TypeOK
      <4>3. PICK u \in todo : GrantFile(u) \/ GrantFileFails(u)
        BY <1>2, <2>3, <2>8, <3>1, <4>1, <4>2, Treats
      <4>4. u = g
        BY <4>1, <4>3 DEF GrantFile, GrantFileFails, Treated, Dropped
      <4>5. CASE GrantFile(u)
        BY <2>2, <4>4, <4>5, SurvivingAre DEF GrantFile, User
      <4>6. CASE GrantFileFails(u)
        <5>1. p \in Concerned(u)
          BY <2>2, <2>3, <4>1, <4>4, StageIs DEF Concerned, TypeOK
        <5> QED
          BY <2>2, <4>6, <5>1 DEF GrantFileFails, Dropped
      <4> QED
        BY <4>3, <4>5, <4>6
    <3> QED
      BY <3>3, <3>4
  <2> QED
    BY <2>7, <2>8
<1> QED
  BY <1>1, <1>2, Moves

LEMMA ForgottenStep ==
    ASSUME TypeOK, TodoFits, Blank, Fresh, RunsFit, Forgotten, TypeOK', [Next]_vars
    PROVE  Forgotten'
<1>1. CASE UNCHANGED <<exists, content, haunted>>
  <2>1. CASE forgotten' = forgotten
    BY <1>1, <2>1 DEF Forgotten
  <2>2. CASE NextStage
    <3>1. at + 1 = 14 \/ forgotten' = forgotten
      BY <2>2, Names DEF NextStage, TypeOK
    <3>2. CASE at + 1 = 14
      <4>1. forgotten' = [p \in Plans |-> IF p \in Configured THEN forgotten[p] ELSE starts]
        BY <2>2, <3>2, Names DEF NextStage
      <4>2. ASSUME NEW p \in Plans \ Configured, <<"working", p>> \notin haunted
            PROVE  content[<<"working", p>>] = {}
        BY <3>2, <4>2, DirectoriesAre DEF Fresh, Foreign, Present, Blank, TypeOK
      <4> QED
        BY <1>1, <4>1, <4>2 DEF Forgotten
    <3> QED
      BY <2>1, <3>1, <3>2
  <2>3. NextStage \/ forgotten' = forgotten
    BY Records
  <2> QED
    BY <2>1, <2>2, <2>3
<1>2. ASSUME NEW u \in todo, Remove(u) \/ RemovalFails(u)
      PROVE  Forgotten'
  <2>1. forgotten' = forgotten
    BY <1>2 DEF Remove, RemovalFails
  <2>2. /\ \A d \in Directories : content'[d] \subseteq content[d]
        /\ haunted' = haunted \/ (haunted' = haunted \ {u} /\ content'[u] = {})
    BY <1>2, Removing
  <2> QED
    BY <2>1, <2>2, DirectoriesAre DEF Forgotten
<1>3. ASSUME NEW u \in todo, SetUp(u) \/ SetUpFails(u)
      PROVE  Forgotten'
  <2>1. forgotten' = forgotten
    BY <1>3 DEF SetUp, SetUpFails
  <2> QED
    BY <1>3, <2>1, SettingUp DEF Forgotten
<1>4. ASSUME NEW p \in surviving \cap Managed, Unpack(p) \/ UnpackFails(p)
      PROVE  Forgotten'
  <2>1. forgotten' = forgotten /\ haunted' = haunted
    BY <1>4 DEF Unpack, UnpackFails, outside
  <2>2. \A q \in Plans : content'[<<"working", q>>] = content[<<"working", q>>]
    BY <1>4, DirectoriesAre DEF Unpack, UnpackFails, LeaveIn, TypeOK
  <2> QED
    BY <2>1, <2>2 DEF Forgotten
<1>5. ASSUME Uses, forgotten' = forgotten
      PROVE  Forgotten'
  <2>1. ASSUME NEW p \in Plans, <<"working", p>> \notin haunted,
               NEW n \in content'[<<"working", p>>]
        PROVE  n > forgotten[p]
    <3>1. CASE n \in content[<<"working", p>>]
      BY <2>1, <3>1 DEF Forgotten
    <3>2. CASE n \notin content[<<"working", p>>]
      <4>1. n = starts /\ p \in Configured /\ Up
        BY <1>5, <2>1, <3>2, DirectoriesAre DEF Uses, Up
      <4> QED
        BY <4>1 DEF RunsFit, TypeOK
    <3> QED
      BY <3>1, <3>2
  <2> QED
    BY <1>5, <2>1 DEF Forgotten, Uses
<1>6. ASSUME NEW d \in Directories, NEW n \in Starts, SurvivorWrites(d, n)
      PROVE  Forgotten'
  BY <1>6, DirectoriesAre DEF SurvivorWrites, LeaveIn, Forgotten, TypeOK
<1>7. Uses => forgotten' = forgotten
  BY Records DEF Uses, NextStage
<1> QED
  BY <1>1, <1>2, <1>3, <1>4, <1>5, <1>6, <1>7, Leaving

\* The steps that change what is known of archives.
LEMMA ArchiveMoves ==
    ASSUME [Next]_vars
    PROVE  \/ UNCHANGED <<archive, oldest, checked>>
           \/ \E S \in SUBSET Plans : \E conf \in [S -> Sessions] : Boot(S, conf)
           \/ \E p \in Plans : Deploy(p) \/ CheckSize(p)
<1> DEFINE Same == UNCHANGED <<archive, oldest, checked>>
<1>1. CASE End \/ NextStage \/ TargetFails \/ UNCHANGED vars
  BY <1>1 DEF End, NextStage, TargetFails, vars, outside, run
<1>2. ASSUME NEW u \in todo,
             \/ Remove(u) \/ RemovalFails(u) \/ SetUp(u) \/ SetUpFails(u)
             \/ GrantFile(u) \/ GrantFileFails(u)
      PROVE  Same
  BY <1>2 DEF Remove, RemovalFails, SetUp, SetUpFails, GrantFile, GrantFileFails, outside, run
<1>3. ASSUME NEW p \in Plans,
             \/ Unpack(p) \/ UnpackFails(p)
             \/ GivesUp(p) \/ Executes(p) \/ CleansUp(p)
      PROVE  Same
  BY <1>3 DEF Unpack, UnpackFails, GivesUp, Executes, CleansUp, outside, run
<1>4. ASSUME NEW d \in Directories, NEW n \in Starts, SurvivorWrites(d, n)
      PROVE  Same
  BY <1>4 DEF SurvivorWrites, run
<1>5. ASSUME NEW d \in PreparedIn, Prepares(d)
      PROVE  Same
  BY <1>5 DEF Prepares, outside, run
<1> QED
  BY <1>1, <1>2, <1>3, <1>4, <1>5, Steps

\* What is in managed directories changes as they are removed and unpacked into.
LEMMA ManagedContent ==
    ASSUME TypeOK, TodoFits, SurvivorsFit, TypeOK', [Next]_vars, NEW p \in Plans
    PROVE  \/ content'[<<"managed", p>>] = content[<<"managed", p>>]
           \/ at \in 1 .. 4
           \/ at = 10 /\ p \in surviving \cap Managed /\ (Unpack(p) \/ UnpackFails(p))
<1> DEFINE d == <<"managed", p>>
<1>1. d \in Directories
  BY DirectoriesAre
<1>2. ASSUME NEW u \in todo, Remove(u) \/ RemovalFails(u)
      PROVE  at \in 1 .. 4
  BY <1>2, Removing
<1>3. ASSUME NEW u \in todo, SetUp(u) \/ SetUpFails(u)
      PROVE  content' = content
  BY <1>3, SettingUp
<1>4. ASSUME NEW q \in surviving \cap Managed, Unpack(q) \/ UnpackFails(q), q # p
      PROVE  content'[d] = content[d]
  BY <1>1, <1>4 DEF Unpack, UnpackFails, LeaveIn, TypeOK
<1>5. Uses => content'[d] = content[d]
  BY <1>1 DEF Uses
<1>6. ASSUME NEW e \in Directories, NEW n \in Starts, SurvivorWrites(e, n)
      PROVE  content'[d] = content[d]
  <2>1. e # d
    BY <1>6 DEF SurvivorWrites, SurvivorsFit
  <2> QED
    BY <1>1, <1>6, <2>1 DEF SurvivorWrites, LeaveIn, TypeOK
<1> HIDE DEF d
<1> QED
  BY <1>2, <1>3, <1>4, <1>5, <1>6, Leaving DEF d

LEMMA ArchivesStep ==
    ASSUME TypeOK, TodoFits, SurvivorsFit, Blank, Anew, ArchivesFit, TypeOK', [Next]_vars
    PROVE  ArchivesFit'
<1>1. ASSUME NEW S \in SUBSET Plans, NEW conf \in [S -> Sessions], Boot(S, conf)
      PROVE  ArchivesFit'
  BY <1>1 DEF Boot, outside, ArchivesFit, TypeOK, Versions
<1>2. ASSUME Within PROVE ArchivesFit'
  <2>1. \A p \in Plans : oldest'[p] <= archive'[p]
    <3>1. CASE UNCHANGED <<archive, oldest>>
      BY <3>1 DEF ArchivesFit
    <3>2. ASSUME NEW p \in Plans, Deploy(p)
          PROVE  \A q \in Plans : oldest'[q] <= archive'[q]
      BY <3>2 DEF Deploy, run, ArchivesFit, TypeOK, Versions
    <3>3. ASSUME NEW p \in Plans, CheckSize(p)
          PROVE  UNCHANGED <<archive, oldest>>
      BY <3>3 DEF CheckSize, outside, run
    <3> QED
      BY <1>1, <3>1, <3>2, <3>3, ArchiveMoves DEF ArchivesFit
  <2>2. \A p \in Plans : checked'[p] \notin TooLarge \/ checked'[p] = 0
    <3>1. ASSUME NEW p \in Plans, CheckSize(p)
          PROVE  \A q \in Plans : checked'[q] \notin TooLarge \/ checked'[q] = 0
      BY <3>1 DEF CheckSize, IsSmall, ArchivesFit, TypeOK
    <3>2. ASSUME NEW p \in Plans, Deploy(p)
          PROVE  checked' = checked
      BY <3>2 DEF Deploy
    <3>3. CASE checked' = checked
      BY <3>3 DEF ArchivesFit
    <3> QED
      BY <1>1, <3>1, <3>2, <3>3, ArchiveMoves DEF ArchivesFit
  <2>3. ASSUME at' \in 5 .. 10, NEW p \in Plans, at' < 10 \/ <<"managed", p>> \in todo'
        PROVE  content'[<<"managed", p>>] = {}
    <3>1. CASE NextStage
      <4>1. at' = at + 1 /\ todo = {} /\ content' = content
        BY <3>1 DEF NextStage, disk
      <4>2. CASE at = 4
        BY <4>1, <4>2, DirectoriesAre DEF Anew, Present, Blank
      <4>3. CASE at # 4
        BY <2>3, <4>1, <4>3 DEF ArchivesFit, TypeOK
      <4> QED
        BY <4>2, <4>3
    <3>2. CASE ~NextStage
      <4>1. at' = at /\ todo' \subseteq todo
        BY <1>2, <2>3, <3>2 DEF Within
      <4>2. content[<<"managed", p>>] = {}
        BY <2>3, <4>1 DEF ArchivesFit
      <4>3. CASE at = 10 /\ (Unpack(p) \/ UnpackFails(p))
        BY <2>3, <4>1, <4>3 DEF Unpack, UnpackFails, Treated, Dropped
      <4> QED
        BY <2>3, <4>1, <4>2, <4>3, ManagedContent
    <3> QED
      BY <3>1, <3>2
  <2> QED
    BY <2>1, <2>2, <2>3 DEF ArchivesFit
<1> QED
  BY <1>1, <1>2, Moves

LEMMA UnpackedStep ==
    ASSUME TypeOK, TodoFits, SurvivorsFit, ArchivesFit, UnpackedFits, TypeOK', [Next]_vars
    PROVE  UnpackedFits'
<1>1. ASSUME NEW S \in SUBSET Plans, NEW conf \in [S -> Sessions], Boot(S, conf)
      PROVE  UnpackedFits'
  BY <1>1 DEF Boot, UnpackedFits
<1>2. ASSUME Within PROVE UnpackedFits'
  <2>1. SUFFICES ASSUME NEW p \in surviving' \cap Managed,
                        at' > 10 \/ (at' = 10 /\ <<"managed", p>> \notin todo')
                 PROVE  Whole(p)'
    BY DEF UnpackedFits
  <2> DEFINE d == <<"managed", p>>
             Was == at > 10 \/ (at = 10 /\ d \notin todo)
  <2>2. p \in surviving /\ p \in Plans /\ oldest' = oldest
    BY <1>2, SurvivingAre DEF Within, run
  <2>3. d \in Directories
    BY <2>2, DirectoriesAre
  <2>4. CASE Was
    <3>1. Whole(p) /\ at >= 10
      BY <2>1, <2>2, <2>4 DEF UnpackedFits, TypeOK
    <3>2. ~Unpack(p) /\ ~UnpackFails(p)
      BY <2>4, StageIs DEF Unpack, UnpackFails, TypeOK
    <3>3. content'[d] = content[d]
      BY <2>2, <3>1, <3>2, ManagedContent
    <3>4. checked'[p] = checked[p]
      <4>1. ASSUME NEW q \in Plans, CheckSize(q)
            PROVE  checked'[p] = checked[p]
        <5>1. q # p
          BY <2>4, <4>1, StageIs DEF CheckSize, TypeOK
        <5> QED
          BY <2>2, <4>1, <5>1 DEF CheckSize, TypeOK
      <4>2. \A q \in Plans : Deploy(q) => checked' = checked
        BY DEF Deploy
      <4>3. ASSUME NEW S \in SUBSET Plans, NEW conf \in [S -> Sessions]
            PROVE  ~Boot(S, conf)
        BY <3>1 DEF Boot, Up, TypeOK
      <4> QED
        BY <4>1, <4>2, <4>3, ArchiveMoves
    <3> QED
      BY <2>2, <3>1, <3>3, <3>4 DEF Whole
  <2>5. CASE ~Was
    <3>1. CASE NextStage
      <4>1. at' = at + 1 /\ todo = {} /\ todo' = Units(Stages[at + 1])
        BY <3>1 DEF NextStage
      <4>2. at = 9
        BY <2>1, <2>5, <4>1 DEF TypeOK
      <4>3. d \in todo'
        BY <2>1, <2>2, <4>1, <4>2, Names, UnitsAre
      <4> QED
        BY <2>1, <4>1, <4>2, <4>3
    <3>2. CASE ~NextStage
      <4>1. at' = at /\ at = 10 /\ d \in todo /\ d \notin todo'
        BY <1>2, <2>1, <2>5, <3>2 DEF Within, TypeOK
      <4>2. \A u \in todo : ~Remove(u) /\ ~SetUp(u) /\ ~SetUpFails(u)
        BY <4>1, StageIs DEF Remove, SetUp, SetUpFails, TypeOK
      <4>3. PICK q \in surviving \cap Managed : Unpack(q) \/ UnpackFails(q)
        BY <1>2, <3>2, <4>1, <4>2, Treats
      <4>4. q = p
        BY <4>1, <4>3 DEF Unpack, UnpackFails, Treated, Dropped
      <4>5. ~UnpackFails(p)
        BY <2>1, <4>1, StageIs DEF UnpackFails, Dropped, Concerned, TypeOK
      <4>6. Unpack(p) /\ content[d] = {}
        BY <2>2, <4>1, <4>3, <4>4, <4>5 DEF ArchivesFit
      <4>7. content'[d] = {archive[p]}
        BY <2>3, <4>6 DEF Unpack, LeaveIn, TypeOK
      <4>8. checked' = checked /\ checked[p] # 0 /\ checked[p] \notin TooLarge
        BY <2>2, <4>6 DEF Unpack, ArchivesFit
      <4>9. archive[p] \in Versions /\ archive[p] >= oldest[p]
        BY <2>2 DEF TypeOK, ArchivesFit, Versions
      <4> QED
        BY <2>2, <4>7, <4>8, <4>9 DEF Whole
    <3> QED
      BY <3>1, <3>2
  <2> QED
    BY <2>4, <2>5
<1> QED
  BY <1>1, <1>2, Moves

-----------------------------------------------------------------------------
(* The theorems.                                                           *)

LEMMA Invariance ==
    ASSUME IInv, [Next]_vars
    PROVE  IInv'
<1> USE DEF IInv
<1>1. TypeOK'
  BY TypeStep
<1>2. RunsFit' /\ SurvivorsFit'
  BY <1>1, RunsStep
<1>3. TodoFits' /\ Blank' /\ Anew' /\ Fresh'
  BY <1>1, TodoStep, BlankStep, AnewStep, FreshStep
<1>4. SessionAccess' /\ ManagedAccess' /\ OwnFits' /\ FilesFit'
  BY <1>1, AccessStep, OwnStep, FilesStep
<1>5. Forgotten' /\ ArchivesFit' /\ UnpackedFits'
  BY <1>1, ForgottenStep, ArchivesStep, UnpackedStep
<1> QED
  BY <1>1, <1>2, <1>3, <1>4, <1>5

LEMMA Inductive == Spec => []IInv
<1>1. IInv /\ [Next]_vars => IInv'
  BY Invariance
<1> QED
  BY InitInv, <1>1, PTL DEF Spec

\* The variables have their types, for any constants.
THEOREM Typing == Spec => []TypeOK
<1>1. IInv => TypeOK
  BY DEF IInv
<1> QED
  BY Inductive, <1>1, PTL

LEMMA ReadyIs ==
    ASSUME TypeOK, Ready
    PROVE  at \in {13, 14}
BY StageIs DEF Ready, TypeOK

(***************************************************************************)
(* Whatever is configured from run to run, a plan that has come through    *)
(* the setup has its directories, and only its user has access to them.    *)
(***************************************************************************)
THEOREM AccessFitsAlways == Spec => []AccessFits
<1>1. ASSUME IInv, Ready, NEW p \in surviving
      PROVE  /\ \A d \in Own(p) : d \in exists /\ access[d] = User(config[p])
             /\ p \in Rcc /\ config[p] # Current => Files \X {config[p]} \subseteq readers
  <2>1. at \in {13, 14} /\ TypeOK
    BY <1>1, ReadyIs DEF IInv
  <2>2. \A d \in Own(p) : d \in exists /\ access[d] = User(config[p])
    BY <1>1, <2>1, OwnIs DEF IInv, OwnFits, Done
  <2>3. \A f \in Files : Done(<<f, config[p]>>)
    BY <2>1 DEF Files, Done, Place
  <2> QED
    BY <1>1, <2>2, <2>3 DEF IInv, FilesFit
<1>2. IInv => AccessFits
  BY <1>1 DEF AccessFits
<1> QED
  BY Inductive, <1>2, PTL

(***************************************************************************)
(* No directory of a plan that is not configured outlives the setup, and   *)
(* nothing of an earlier run is in the directories of RCC and of builds.   *)
(***************************************************************************)
THEOREM NothingForeignEver == Spec => []NothingForeign
<1>1. ASSUME IInv, Ready, NEW d \in exists \ haunted
      PROVE  CASE d[1] = "working" -> d[2] \in Configured
               [] d[1] = "managed" -> d[2] \in Configured \cap Managed
               [] OTHER -> content[d] \subseteq {starts}
  <2>1. at \in {13, 14} /\ d \in Directories
    BY <1>1, ReadyIs DEF IInv, TypeOK
  <2> QED
    BY <1>1, <2>1, DirectoriesAre DEF IInv, Fresh, Present, Foreign
<1>2. IInv => NothingForeign
  BY <1>1 DEF NothingForeign
<1> QED
  BY Inductive, <1>2, PTL

(***************************************************************************)
(* A plan that is configured again finds no execution from before the last *)
(* run that did without it.                                                *)
(***************************************************************************)
THEOREM FormerPlansAreForgotten == Spec => []FormerPlansForgotten
<1>1. IInv => FormerPlansForgotten
  BY ConfigIs DEF IInv, Forgotten, FormerPlansForgotten
<1> QED
  BY Inductive, <1>1, PTL

(***************************************************************************)
(* A plan that has come through the setup has exactly one archive in its   *)
(* managed directory, and it is not from before the run.                   *)
(***************************************************************************)
THEOREM ArchiveIsAlwaysWhole == Spec => []ArchiveIsWhole
<1>1. ASSUME IInv, Ready, NEW p \in surviving \cap Managed
      PROVE  Whole(p)
  <2>1. at \in {13, 14}
    BY <1>1, ReadyIs DEF IInv
  <2> QED
    BY <1>1, <2>1 DEF IInv, UnpackedFits, Whole
<1>2. IInv => ArchiveIsWhole
  BY <1>1 DEF ArchiveIsWhole, Whole
<1> QED
  BY Inductive, <1>2, PTL

(***************************************************************************)
(* No step of the setup takes an execution from a plan that is configured. *)
(***************************************************************************)
THEOREM HistoryIsAlwaysKept == Spec => HistoryIsKept
<1> DEFINE Keeps == \A p \in DOMAIN config' :
                        stage # "scheduling" =>
                            content[<<"working", p>>] \subseteq content'[<<"working", p>>]
<1>1. ASSUME IInv, IInv', [Next]_vars PROVE Keeps
  <2> USE DEF IInv
  <2>1. SUFFICES ASSUME NEW p \in DOMAIN config', stage # "scheduling"
                 PROVE  content[<<"working", p>>] \subseteq content'[<<"working", p>>]
    OBVIOUS
  <2> DEFINE d == <<"working", p>>
  <2>2. p \in Plans
    <3>1. \A q \in Configured' : q \in Plans
      <4>1. PICK S \in SUBSET Plans : config' \in [S -> Sessions]
        BY <1>1 DEF TypeOK
      <4> QED
        BY <4>1 DEF Configured
    <3> QED
      BY <2>1, <3>1 DEF Configured
  <2>3. d \in Directories
    BY <2>2, DirectoriesAre
  <2>4. ASSUME NEW u \in todo, Remove(u) \/ RemovalFails(u)
        PROVE  content'[d] = content[d]
    <3>1. u # d
      <4>1. config' = config /\ at \in 1 .. 4
        BY <1>1, <2>4, Removing DEF run
      <4> QED
        BY <1>1, <2>1, <4>1 DEF TodoFits, Configured
    <3> QED
      BY <1>1, <2>3, <2>4, <3>1, Removing
  <2>5. ASSUME NEW u \in todo, SetUp(u) \/ SetUpFails(u)
        PROVE  content' = content
    BY <1>1, <2>5, SettingUp
  <2>6. ASSUME NEW q \in surviving \cap Managed, Unpack(q) \/ UnpackFails(q)
        PROVE  content'[d] = content[d]
    BY <1>1, <2>3, <2>6 DEF Unpack, UnpackFails, LeaveIn, TypeOK
  <2>7. Uses => content[d] \subseteq content'[d]
    BY <1>1, <2>1, <2>3, StageIs DEF Uses, TypeOK
  <2>8. ASSUME NEW e \in Directories, NEW n \in Starts, SurvivorWrites(e, n)
        PROVE  content[d] \subseteq content'[d]
    BY <1>1, <2>3, <2>8 DEF SurvivorWrites, LeaveIn, TypeOK
  <2> HIDE DEF d
  <2>9. content[d] \subseteq content'[d]
    BY <1>1, <2>4, <2>5, <2>6, <2>7, <2>8, Leaving
  <2> QED
    BY <2>9 DEF d
<1>2. IInv /\ IInv' /\ [Next]_vars => [Keeps]_vars
  BY <1>1
<1> QED
  BY Inductive, <1>2, PTL DEF Spec, HistoryIsKept
=============================================================================
