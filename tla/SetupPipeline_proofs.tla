------------------------ MODULE SetupPipeline_proofs ------------------------
(***************************************************************************)
(* Proofs about SetupPipeline for any plans, any assignment of sessions,   *)
(* either platform, and every way in which the stages may fail.            *)
(***************************************************************************)
EXTENDS SetupPipeline, TLAPS

EarlyStages ==
    {"check", "prepare", "sweep", "managed directories", "plan directories",
     "building directories", "rcc directories", "long path directory",
     "ManagedRobots", "unpack", "GracePeriod", "sleep", "RCCSetup",
     "binary permissions", "profile permissions", "telemetry", "profile import",
     "profile switch", "default profile", "long paths", "holotree"}

LateStages ==
    <<"setup failures", "EnvironmentBuilding", "build states", "build",
      "check", "Scheduling", "schedule">>

LateNames ==
    {"setup failures", "EnvironmentBuilding", "build states", "build", "check",
     "Scheduling", "schedule"}

\* How many stages follow the one under way.
Left == Len(Stages) - at

Ready == {"NotNeeded", "Success"}

Sections ==
    [phase : Phases \cup {Absent},
     setup_failures : (SUBSET Plans) \cup {Absent},
     builds : BuildStates \cup {Absent}]

\* A stage never leaves one plan of a unit behind.
UnitsTogether ==
    /\ treated \subseteq Concerned
    /\ \A q \in treated : Unit(q) \subseteq treated

\* The list of the failures is written when no more plan can be dropped.
FailuresAreFinal ==
    Left <= 5 => published.setup_failures = Plans \ surviving

\* The build states are those of the surviving plans, and they are published.
BuildsArePublished ==
    /\ Left >= 4 => published.builds = Absent /\ DOMAIN build_states = {}
    /\ Left <= 3 => published.builds = build_states /\ DOMAIN build_states = surviving
    /\ completed = {p \in DOMAIN build_states : build_states[p] \in Ready}
    /\ Left <= 2 => Unbuilt = {}
    /\ published.phase = "Scheduling" => Left = 0

InTurn ==
    \A p, q \in DOMAIN build_states :
        Position[p] < Position[q] /\ build_states[q] # "Pending" =>
            build_states[p] \in BuildOutcomes

\* The plans come out of the setup in the order of the configuration.
ListIsSorted == Left <= 6 => before = ByGrouping

IInv ==
    /\ TypeOK
    /\ published \in Sections
    /\ Accounted
    /\ UnitsTogether
    /\ FailuresAreFinal
    /\ BuildsArePublished
    /\ InTurn
    /\ ListIsSorted

-----------------------------------------------------------------------------
(* The order of the stages.                                                *)

LEMMA OnlyIsSeq ==
    ASSUME NEW S, NEW condition, NEW s \in Seq(S)
    PROVE  Only(condition, s) \in Seq(S)
BY DEF Only

LEMMA SixIsSeq ==
    ASSUME NEW S, NEW a \in S, NEW b \in S, NEW c \in S,
           NEW d \in S, NEW e \in S, NEW f \in S
    PROVE  <<a, b, c, d, e, f>> \in Seq(S)
OBVIOUS

LEMMA SevenIsSeq ==
    ASSUME NEW S, NEW a \in S, NEW b \in S, NEW c \in S,
           NEW d \in S, NEW e \in S, NEW f \in S, NEW g \in S
    PROVE  <<a, b, c, d, e, f, g>> \in Seq(S)
OBVIOUS

LEMMA Concatenation ==
    ASSUME NEW S, NEW T, NEW s \in Seq(S), NEW t \in Seq(T)
    PROVE  /\ Len(s \o t) = Len(s) + Len(t)
           /\ \A i \in 1 .. Len(s \o t) :
                (s \o t)[i] = IF i <= Len(s) THEN s[i] ELSE t[i - Len(s)]
<1>1. s \in Seq(S \cup T) /\ t \in Seq(S \cup T)
  OBVIOUS
<1> QED
  BY <1>1

LEMMA LastOfConcatenation ==
    ASSUME NEW S, NEW s \in Seq(S), NEW t \in Seq(S), Len(t) > 0
    PROVE  Len(s \o t) > 0 /\ (s \o t)[Len(s \o t)] = t[Len(t)]
<1>1. /\ Len(s \o t) = Len(s) + Len(t)
      /\ \A i \in 1 .. Len(s \o t) :
           (s \o t)[i] = IF i <= Len(s) THEN s[i] ELSE t[i - Len(s)]
  BY Concatenation
<1>2. Len(s) \in Nat /\ Len(t) \in Nat
  OBVIOUS
<1> QED
  BY <1>1, <1>2

LEMMA StagesSplit ==
    \E early \in Seq(EarlyStages) :
        /\ Stages = early \o LateStages
        /\ Len(early) > 0 /\ early[Len(early)] = "holotree"
<1> DEFINE start == <<"check">>
           windows == <<"long path directory">>
           robots == <<"ManagedRobots", "unpack">>
           grace == <<"GracePeriod", "sleep">>
           setup == <<"check", "RCCSetup">>
           directories == <<"prepare", "sweep", "managed directories",
                            "plan directories", "building directories",
                            "rcc directories">>
           general == directories \o Only(Platform = "windows", windows)
           until == start \o general \o robots
                        \o Only(grace_period, grace) \o setup
           early == until \o RccStages
<1>1. /\ start \in Seq(EarlyStages) /\ windows \in Seq(EarlyStages)
      /\ robots \in Seq(EarlyStages) /\ grace \in Seq(EarlyStages)
      /\ setup \in Seq(EarlyStages)
  BY DEF EarlyStages
<1>2. directories \in Seq(EarlyStages)
  <2>1. /\ "prepare" \in EarlyStages /\ "sweep" \in EarlyStages
        /\ "managed directories" \in EarlyStages
        /\ "plan directories" \in EarlyStages
        /\ "building directories" \in EarlyStages
        /\ "rcc directories" \in EarlyStages
    BY DEF EarlyStages
  <2> QED
    BY <2>1, SixIsSeq
<1>3. /\ RccStages \in Seq(EarlyStages) /\ Len(RccStages) > 0
      /\ RccStages[Len(RccStages)] = "holotree"
  <2> DEFINE permissions == <<"binary permissions">>
             profile == <<"profile permissions">>
             telemetry == <<"telemetry">>
             custom == <<"profile import", "profile switch">>
             default == <<"default profile">>
             paths == <<"long paths">>
             holotree == <<"holotree">>
  <2>1. /\ permissions \in Seq(EarlyStages) /\ profile \in Seq(EarlyStages)
        /\ telemetry \in Seq(EarlyStages) /\ custom \in Seq(EarlyStages)
        /\ default \in Seq(EarlyStages) /\ paths \in Seq(EarlyStages)
        /\ holotree \in Seq(EarlyStages)
    BY DEF EarlyStages
  <2> DEFINE first == Only(Platform = "windows", permissions)
                        \o Only(Platform = "windows" /\ custom_profile, profile)
                        \o telemetry
                        \o (IF custom_profile THEN custom ELSE default)
                        \o Only(Platform = "windows", paths)
  <2>2. /\ RccStages = first \o holotree
        /\ Len(holotree) = 1 /\ holotree[1] = "holotree"
    BY DEF RccStages
  <2> HIDE DEF permissions, profile, telemetry, custom, default, paths, holotree
  <2>3. /\ Only(Platform = "windows", permissions) \in Seq(EarlyStages)
        /\ Only(Platform = "windows" /\ custom_profile, profile) \in Seq(EarlyStages)
        /\ (IF custom_profile THEN custom ELSE default) \in Seq(EarlyStages)
        /\ Only(Platform = "windows", paths) \in Seq(EarlyStages)
    BY <2>1, OnlyIsSeq
  <2>4. first \in Seq(EarlyStages)
    BY <2>1, <2>3
  <2> HIDE DEF first
  <2>5. Len(holotree) > 0
    BY <2>2
  <2>6. /\ Len(first \o holotree) > 0
        /\ (first \o holotree)[Len(first \o holotree)] = holotree[Len(holotree)]
    BY <2>1, <2>4, <2>5, LastOfConcatenation
  <2>7. first \o holotree \in Seq(EarlyStages)
    BY <2>1, <2>4
  <2> QED
    BY <2>2, <2>6, <2>7
<1>4. Stages = early \o LateStages
  BY DEF Stages, GeneralStages, LateStages
<1> HIDE DEF start, windows, robots, grace, setup, directories
<1>5. Only(Platform = "windows", windows) \in Seq(EarlyStages)
  BY <1>1, OnlyIsSeq
<1>6. Only(grace_period, grace) \in Seq(EarlyStages)
  BY <1>1, OnlyIsSeq
<1>7. general \in Seq(EarlyStages)
  BY <1>2, <1>5
<1> HIDE DEF general
<1>8. until \in Seq(EarlyStages)
  BY <1>1, <1>6, <1>7
<1> HIDE DEF until
<1>9. early \in Seq(EarlyStages)
  BY <1>3, <1>8
<1>10. Len(early) > 0 /\ early[Len(early)] = "holotree"
  BY <1>3, <1>8, LastOfConcatenation
<1> QED
  BY <1>4, <1>9, <1>10

LEMMA LateStagesAre ==
    /\ LateStages \in Seq(LateNames) /\ Len(LateStages) = 7
    /\ LateStages[1] = "setup failures" /\ LateStages[2] = "EnvironmentBuilding"
    /\ LateStages[3] = "build states" /\ LateStages[4] = "build"
    /\ LateStages[5] = "check" /\ LateStages[6] = "Scheduling"
    /\ LateStages[7] = "schedule"
<1>1. LateStages \in Seq(LateNames)
  <2>1. /\ "setup failures" \in LateNames /\ "EnvironmentBuilding" \in LateNames
        /\ "build states" \in LateNames /\ "build" \in LateNames
        /\ "check" \in LateNames /\ "Scheduling" \in LateNames
        /\ "schedule" \in LateNames
    BY DEF LateNames
  <2> QED
    BY <2>1, SevenIsSeq DEF LateStages
<1>2. Len(LateStages) = 7
  BY DEF LateStages
<1>3. LateStages[1] = "setup failures" /\ LateStages[2] = "EnvironmentBuilding"
  BY DEF LateStages
<1>4. LateStages[3] = "build states" /\ LateStages[4] = "build"
  BY DEF LateStages
<1>5. LateStages[5] = "check" /\ LateStages[6] = "Scheduling"
  BY DEF LateStages
<1>6. LateStages[7] = "schedule"
  BY DEF LateStages
<1> QED
  BY <1>1, <1>2, <1>3, <1>4, <1>5, <1>6

LEMMA StagesAre ==
    /\ Len(Stages) \in Nat /\ Len(Stages) >= 7
    /\ \A i \in 1 .. Len(Stages) :
        /\ Len(Stages) - i = 0 => Stages[i] = "schedule"
        /\ Len(Stages) - i = 1 => Stages[i] = "Scheduling"
        /\ Len(Stages) - i = 2 => Stages[i] = "check"
        /\ Len(Stages) - i = 3 => Stages[i] = "build"
        /\ Len(Stages) - i = 4 => Stages[i] = "build states"
        /\ Len(Stages) - i = 5 => Stages[i] = "EnvironmentBuilding"
        /\ Len(Stages) - i = 6 => Stages[i] = "setup failures"
        /\ Len(Stages) - i = 7 => Stages[i] = "holotree"
        /\ Len(Stages) - i >= 7 => Stages[i] \in EarlyStages
<1>1. PICK early \in Seq(EarlyStages) :
          /\ Stages = early \o LateStages
          /\ Len(early) > 0 /\ early[Len(early)] = "holotree"
  BY StagesSplit
<1> DEFINE n == Len(early)
<1>2. n \in Nat /\ n > 0 /\ early[n] = "holotree"
  BY <1>1
<1>3. /\ Len(Stages) = n + 7
      /\ \A i \in 1 .. n + 7 :
           Stages[i] = IF i <= n THEN early[i] ELSE LateStages[i - n]
  <2>1. /\ Len(early \o LateStages) = n + Len(LateStages)
        /\ \A i \in 1 .. Len(early \o LateStages) :
             (early \o LateStages)[i] =
                 IF i <= n THEN early[i] ELSE LateStages[i - n]
    <3>1. early \in Seq(EarlyStages) /\ LateStages \in Seq(LateNames)
      BY LateStagesAre
    <3> QED
      BY <3>1, Concatenation
  <2> QED
    BY <1>1, <2>1, LateStagesAre
<1>4. \A i \in 1 .. n : early[i] \in EarlyStages
  BY <1>1
<1> HIDE DEF n
<1>5. Len(Stages) \in Nat /\ Len(Stages) >= 7
  BY <1>2, <1>3
<1>6. ASSUME NEW i \in 1 .. n + 7, i <= n
      PROVE  /\ n + 7 - i >= 7 /\ Stages[i] \in EarlyStages
             /\ n + 7 - i = 7 => Stages[i] = "holotree"
  BY <1>2, <1>3, <1>4, <1>6
<1>7. ASSUME NEW i \in 1 .. n + 7, i > n
      PROVE  Stages[i] = LateStages[i - n] /\ i - n \in 1 .. 7
  BY <1>2, <1>3, <1>7
<1>8. ASSUME NEW i \in 1 .. Len(Stages), NEW d, d = Len(Stages) - i
      PROVE  /\ d = 0 => Stages[i] = "schedule"
             /\ d = 1 => Stages[i] = "Scheduling"
             /\ d = 2 => Stages[i] = "check"
             /\ d = 3 => Stages[i] = "build"
             /\ d = 4 => Stages[i] = "build states"
             /\ d = 5 => Stages[i] = "EnvironmentBuilding"
             /\ d = 6 => Stages[i] = "setup failures"
             /\ d = 7 => Stages[i] = "holotree"
             /\ d >= 7 => Stages[i] \in EarlyStages
  <2>1. i \in 1 .. n + 7 /\ d = n + 7 - i
    BY <1>2, <1>3, <1>8
  <2>2. CASE i <= n
    <3>1. /\ d \in Nat /\ d >= 7 /\ Stages[i] \in EarlyStages
          /\ d = 7 => Stages[i] = "holotree"
      BY <1>2, <1>6, <2>1, <2>2
    <3>2. d # 0 /\ d # 1 /\ d # 2 /\ d # 3 /\ d # 4 /\ d # 5 /\ d # 6
      BY <3>1
    <3> QED
      BY <3>1, <3>2, Zenon
  <2>3. CASE i > n
    <3>1. /\ Stages[i] = LateStages[i - n]
          /\ i - n = 7 - d /\ d \in 0 .. 6
      BY <1>2, <1>7, <2>1, <2>3
    <3>2. Stages[i] = LateStages[7 - d]
      BY <3>1
    <3>3. /\ d = 0 => Stages[i] = LateStages[7]
          /\ d = 1 => Stages[i] = LateStages[6]
          /\ d = 2 => Stages[i] = LateStages[5]
          /\ d = 3 => Stages[i] = LateStages[4]
          /\ d = 4 => Stages[i] = LateStages[3]
          /\ d = 5 => Stages[i] = LateStages[2]
          /\ d = 6 => Stages[i] = LateStages[1]
      BY <3>1, <3>2
    <3>4. ~(d >= 7) /\ d # 7
      BY <3>1
    <3> QED
      BY <3>3, <3>4, LateStagesAre, Zenon
  <2>4. i <= n \/ i > n
    BY <1>2, <2>1
  <2> QED
    BY <2>2, <2>3, <2>4, Zenon
<1> QED
  BY <1>5, <1>8

LEMMA WhereStageIs ==
    ASSUME TypeOK
    PROVE  /\ Left \in Nat /\ at \in Nat
           /\ Left = 0 => stage = "schedule"
           /\ Left = 1 => stage = "Scheduling"
           /\ Left = 2 => stage = "check"
           /\ Left = 3 => stage = "build"
           /\ Left = 4 => stage = "build states"
           /\ Left = 5 => stage = "EnvironmentBuilding"
           /\ Left = 6 => stage = "setup failures"
           /\ Left = 7 => stage = "holotree"
           /\ Left >= 7 => stage \in EarlyStages
<1>1. /\ Len(Stages) \in Nat /\ at \in 1 .. Len(Stages)
  BY StagesAre DEF TypeOK
<1>2. Left \in Nat /\ at \in Nat /\ stage = Stages[at] /\ Left = Len(Stages) - at
  BY <1>1 DEF Left, stage
<1> QED
  BY <1>1, <1>2, StagesAre

Treating == PerPlan \cup PerSession \cup AllTogether

LEMMA WhatIsLeft ==
    ASSUME TypeOK
    PROVE  /\ stage = "schedule" => Left = 0
           /\ stage = "Scheduling" => Left = 1
           /\ stage = "build" => Left = 3
           /\ stage = "build states" => Left = 4
           /\ stage = "EnvironmentBuilding" => Left = 5
           /\ stage = "setup failures" => Left = 6
           /\ stage = "check" => Left = 2 \/ Left >= 7
           /\ stage \in Treating => Left >= 7
           /\ stage \in {"prepare", "sweep", "sleep", "ManagedRobots",
                         "GracePeriod", "RCCSetup"} => Left >= 7
<1>1. Left \in Nat
  BY WhereStageIs, Zenon
<1>2. \/ Left >= 7
      \/ Left = 0 \/ Left = 1 \/ Left = 2 \/ Left = 3 \/ Left = 4 \/ Left = 5
      \/ Left = 6
  BY <1>1
<1>3. CASE Left >= 7
  <2>1. stage \in EarlyStages
    BY <1>3, WhereStageIs, Zenon
  <2> QED
    BY <1>3, <2>1 DEF EarlyStages
<1>4. CASE \/ Left = 0 \/ Left = 1 \/ Left = 2 \/ Left = 3 \/ Left = 4 \/ Left = 5
           \/ Left = 6
  <2>1. \/ Left = 0 /\ stage = "schedule"
        \/ Left = 1 /\ stage = "Scheduling"
        \/ Left = 2 /\ stage = "check"
        \/ Left = 3 /\ stage = "build"
        \/ Left = 4 /\ stage = "build states"
        \/ Left = 5 /\ stage = "EnvironmentBuilding"
        \/ Left = 6 /\ stage = "setup failures"
    BY <1>4, WhereStageIs, Zenon
  <2>2. stage \notin Treating
    BY <2>1 DEF Treating, PerPlan, PerSession, AllTogether, Permissions, Commands
  <2> QED
    BY <2>1, <2>2
<1> QED
  BY <1>2, <1>3, <1>4, Zenon

\* The steps that stay in a stage, and those that go to the next one.
LEMMA Staying ==
    ASSUME UNCHANGED <<setting, at>>
    PROVE  Stages' = Stages /\ stage' = stage /\ Left' = Left
<1>1. Stages' = Stages
  BY DEF setting, Stages, GeneralStages, RccStages
<1> QED
  BY <1>1 DEF stage, Left

LEMMA Advancing ==
    ASSUME TypeOK, UNCHANGED setting, Advance, stage # "schedule"
    PROVE  /\ Stages' = Stages /\ at' \in 1 .. Len(Stages)
           /\ Left \in Nat /\ Left' = Left - 1 /\ Left' \in Nat
<1>1. Stages' = Stages
  BY DEF setting, Stages, GeneralStages, RccStages
<1>2. Left # 0 /\ Left \in Nat /\ Len(Stages) \in Nat /\ at \in 1 .. Len(Stages)
  BY WhereStageIs, StagesAre DEF TypeOK
<1> QED
  BY <1>1, <1>2 DEF Advance, Left

-----------------------------------------------------------------------------
(* Units.                                                                  *)

LEMMA UnitsPartition ==
    ASSUME TypeOK, NEW p \in Concerned
    PROVE  /\ p \in Unit(p) /\ Unit(p) \subseteq Concerned
           /\ \A q \in Unit(p) : Unit(q) = Unit(p)
<1>1. CASE stage \in PerPlan
  BY <1>1 DEF Unit
<1>2. CASE stage \in AllTogether
  BY <1>2 DEF Unit, AllTogether, PerPlan
<1>3. CASE stage \notin PerPlan \cup AllTogether
  <2>1. \A q \in Plans : Unit(q) = {r \in Concerned : Session[r] = Session[q]}
    BY <1>3 DEF Unit
  <2>2. Concerned \subseteq Plans
    BY DEF Concerned, TypeOK
  <2> QED
    BY <2>1, <2>2
<1> QED
  BY <1>1, <1>2, <1>3

LEMMA ConcernedAre ==
    ASSUME TypeOK
    PROVE  /\ Concerned \subseteq surviving
           /\ stage \notin Treating => Concerned = {}
BY DEF Concerned, Treating, PerPlan, PerSession, AllTogether, TypeOK

-----------------------------------------------------------------------------
(* The initial states, and the steps that move nothing or only forward.    *)

LEMMA InitHolds == Init => IInv
<1> SUFFICES ASSUME Init PROVE IInv
  OBVIOUS
<1>1. Len(Stages) \in Nat /\ Len(Stages) >= 7
  BY StagesAre
<1>2. build_states \in BuildStates /\ DOMAIN build_states = {}
  <2>1. build_states = [p \in {} |-> "Pending"]
    BY DEF Init
  <2>2. build_states \in [{} -> BuildStages]
    BY <2>1
  <2> QED
    BY <2>1, <2>2 DEF BuildStates
<1>3. published \in Sections
  BY DEF Init, Sections
<1>4. TypeOK
  <2>1. at \in 1 .. Len(Stages)
    BY <1>1 DEF Init
  <2>2. failures \in [Plans -> Nat] /\ before \in SUBSET (Plans \X Plans)
    BY DEF Init, ByGrouping
  <2> QED
    BY <1>2, <2>1, <2>2 DEF Init, TypeOK
<1>5. Accounted
  BY DEF Init, Accounted
<1>6. UnitsTogether
  BY DEF Init, UnitsTogether
<1>7. Left >= 6
  BY <1>1 DEF Init, Left
<1>8. published.phase # "Scheduling"
  BY AbsentIsNoSection DEF Init, Phases
<1>9. FailuresAreFinal /\ BuildsArePublished /\ InTurn
  BY <1>2, <1>7, <1>8, <1>1 DEF Init, Left, FailuresAreFinal, BuildsArePublished, InTurn
<1>10. ListIsSorted
  BY DEF Init, ListIsSorted
<1> QED
  BY <1>3, <1>4, <1>5, <1>6, <1>9, <1>10 DEF IInv

LEMMA IdleHolds ==
    ASSUME IInv,
           UNCHANGED <<setting, at, surviving, treated, before, failures,
                       completed, build_states, published>>,
           cancelled' \in BOOLEAN, ended' \in {"no", "ok", "error"}
    PROVE  IInv'
<1>1. Stages' = Stages /\ stage' = stage /\ Left' = Left
  BY Staying
<1>2. Concerned' = Concerned
  BY <1>1 DEF Concerned
<1>3. UnitsTogether'
  BY <1>1, <1>2 DEF IInv, UnitsTogether, Unit
<1>4. TypeOK'
  BY <1>1 DEF IInv, TypeOK, setting
<1> QED
  BY <1>1, <1>3, <1>4
     DEF IInv, Accounted, FailuresAreFinal, BuildsArePublished, InTurn, Unbuilt,
         ListIsSorted, ByGrouping


\* What the steps to the next stage have in common.
LEMMA ForwardHolds ==
    ASSUME IInv, Advance, stage # "schedule",
           UNCHANGED <<setting, cancelled, ended, surviving, failures, completed,
                       build_states>>,
           treated' = {}, before' \in {before, ByGrouping},
           Left = 7 => before' = ByGrouping,
           Left # 6, Left # 4, Left = 3 => Unbuilt = {},
           published' \in Sections,
           published'.setup_failures = published.setup_failures,
           published'.builds = published.builds,
           published'.phase = "Scheduling" => Left = 1
    PROVE  IInv'
<1>1. /\ Stages' = Stages /\ at' \in 1 .. Len(Stages)
      /\ Left \in Nat /\ Left' = Left - 1 /\ Left' \in Nat
  BY Advancing DEF IInv
<1>2. TypeOK'
  <2>1. /\ published'.phase \in Phases \cup {Absent}
        /\ published'.setup_failures = Absent
               \/ published'.setup_failures \subseteq Plans
        /\ published'.builds = Absent \/ published'.builds \in BuildStates
    BY DEF Sections
  <2> QED
    BY <1>1, <2>1 DEF IInv, TypeOK, setting, ByGrouping
<1>3. UnitsTogether'
  BY DEF UnitsTogether
<1>4. FailuresAreFinal'
  BY <1>1 DEF IInv, FailuresAreFinal
<1>5. BuildsArePublished'
  <2>1. Unbuilt' = Unbuilt
    BY DEF Unbuilt
  <2>2. /\ Left' >= 4 => Left >= 4
        /\ Left' <= 3 => Left <= 3
        /\ Left' <= 2 => Left <= 2 \/ Left = 3
        /\ Left = 1 => Left' = 0
    BY <1>1
  <2>3. /\ Left' >= 4 => published'.builds = Absent /\ DOMAIN build_states' = {}
        /\ Left' <= 3 => /\ published'.builds = build_states'
                         /\ DOMAIN build_states' = surviving'
        /\ Left' <= 2 => Unbuilt' = {}
    BY <2>1, <2>2 DEF IInv, BuildsArePublished
  <2>4. completed' = {p \in DOMAIN build_states' : build_states'[p] \in Ready}
    BY DEF IInv, BuildsArePublished
  <2> QED
    BY <2>2, <2>3, <2>4 DEF BuildsArePublished
<1>6. Accounted' /\ InTurn'
  BY DEF IInv, Accounted, InTurn
<1>7. ListIsSorted'
  <2>1. Left' <= 6 => Left <= 6 \/ Left = 7
    BY <1>1
  <2> QED
    BY <2>1 DEF IInv, ListIsSorted, ByGrouping
<1> QED
  BY <1>2, <1>3, <1>4, <1>5, <1>6, <1>7 DEF IInv

\* Between the stages that treat plans no unit is open.
LEMMA NothingTreated ==
    ASSUME IInv, stage \notin Treating
    PROVE  treated = {}
BY ConcernedAre DEF IInv, UnitsTogether

LEMMA PhaseIsEarlier ==
    ASSUME IInv, stage # "schedule"
    PROVE  published.phase # "Scheduling"
<1>1. Left # 0
  BY WhereStageIs DEF IInv
<1> QED
  BY <1>1 DEF IInv, BuildsArePublished

LEMMA SucceedsHolds ==
    ASSUME IInv, Succeeds,
           \/ stage \in {"check", "prepare", "sweep", "sleep"}
           \/ stage = "build" /\ Unbuilt = {}
    PROVE  IInv'
<1>1. stage # "schedule" /\ stage \notin Treating
  BY DEF Treating, PerPlan, PerSession, AllTogether, Permissions, Commands
<1>2. Left \in Nat
  BY WhereStageIs DEF IInv
<1>3. Left = 2 \/ Left >= 7 \/ (Left = 3 /\ Unbuilt = {})
  <2>1. CASE stage \in {"check", "prepare", "sweep", "sleep"}
    BY <2>1, WhatIsLeft, Zenon DEF IInv
  <2>2. CASE stage = "build" /\ Unbuilt = {}
    BY <2>2, WhatIsLeft, Zenon DEF IInv
  <2> QED
    BY <2>1, <2>2
<1>4. /\ Left # 6 /\ Left # 4 /\ (Left = 3 => Unbuilt = {})
      /\ stage # "holotree"
  BY <1>2, <1>3
<1>8. Left # 7
  BY <1>4, WhereStageIs DEF IInv
<1>5. treated = {}
  BY <1>1, NothingTreated
<1>6. published.phase # "Scheduling"
  BY <1>1, PhaseIsEarlier
<1>7. published \in Sections
  BY DEF IInv
<1> QED
  BY <1>1, <1>4, <1>5, <1>6, <1>7, <1>8, ForwardHolds DEF Succeeds

LEMMA StageOverHolds ==
    ASSUME IInv, StageOver
    PROVE  IInv'
<1>1. stage \in Treating /\ stage # "schedule"
  BY DEF StageOver, Leave, Treating, PerPlan, PerSession, AllTogether, Permissions,
         Commands
<1>2. Left \in Nat /\ Left >= 7
  BY <1>1, WhereStageIs, WhatIsLeft, Zenon DEF IInv
<1>3. Left # 6 /\ Left # 4 /\ Left # 3
  BY <1>2
<1>4. published.phase # "Scheduling" /\ published \in Sections
  BY <1>1, PhaseIsEarlier DEF IInv
<1>5. Left = 7 => EndsSetup
  <2>1. Len(Stages) \in Nat /\ at \in 1 .. Len(Stages)
    BY StagesAre DEF IInv, TypeOK
  <2>2. Left = 7 => at + 1 \in 1 .. Len(Stages) /\ Len(Stages) - (at + 1) = 6
    BY <2>1 DEF Left
  <2> QED
    BY <2>2, StagesAre DEF EndsSetup
<1>6. before' \in {before, ByGrouping} /\ (Left = 7 => before' = ByGrouping)
  BY <1>5 DEF StageOver
<1> QED
  BY <1>1, <1>3, <1>4, <1>6, ForwardHolds DEF StageOver, Leave

LEMMA WritePhaseHolds ==
    ASSUME IInv, WritePhase
    PROVE  IInv'
<1>1. /\ stage \in {"ManagedRobots", "GracePeriod", "RCCSetup",
                    "EnvironmentBuilding", "Scheduling"}
      /\ stage # "schedule" /\ stage \notin Treating
  BY DEF WritePhase, Phases, Treating, PerPlan, PerSession, AllTogether,
         Permissions, Commands
<1>2. Left \in Nat
  BY WhereStageIs DEF IInv
<1>3. /\ Left >= 7 \/ Left = 5 \/ Left = 1
      /\ stage = "Scheduling" => Left = 1
  BY <1>1, WhatIsLeft, Zenon DEF IInv
<1>4. Left # 6 /\ Left # 4 /\ Left # 3
  BY <1>2, <1>3
<1>7. Left # 7
  BY <1>1, WhereStageIs DEF IInv
<1>5. /\ published' \in Sections /\ published'.phase = stage
      /\ published'.setup_failures = published.setup_failures
      /\ published'.builds = published.builds
  BY DEF IInv, WritePhase, Sections
<1>6. treated' = {}
  BY <1>1, NothingTreated DEF WritePhase
<1> QED
  BY <1>1, <1>3, <1>4, <1>5, <1>6, <1>7, ForwardHolds DEF WritePhase

-----------------------------------------------------------------------------
(* The steps that treat plans.                                             *)

\* As long as plans are treated, no section depends on which ones survive.
LEMMA EarlyHolds ==
    ASSUME IInv, stage \in Treating,
           UNCHANGED <<setting, at, completed, build_states, published>>,
           surviving' \subseteq surviving
    PROVE  /\ Stages' = Stages /\ stage' = stage
           /\ completed = {}
           /\ FailuresAreFinal' /\ BuildsArePublished' /\ InTurn' /\ ListIsSorted'
<1>1. Stages' = Stages /\ stage' = stage /\ Left' = Left
  BY Staying
<1>2. Left \in Nat /\ Left >= 7
  BY WhereStageIs, WhatIsLeft, Zenon DEF IInv
<1>3. /\ Left >= 4 /\ ~(Left <= 6) /\ ~(Left <= 5) /\ ~(Left <= 3) /\ ~(Left <= 2)
      /\ Left # 0
  BY <1>2
<1>4. /\ published.builds = Absent /\ DOMAIN build_states = {}
      /\ completed = {} /\ published.phase # "Scheduling"
  BY <1>3 DEF IInv, BuildsArePublished
<1>5. FailuresAreFinal' /\ InTurn' /\ ListIsSorted'
  BY <1>1, <1>3, <1>4 DEF FailuresAreFinal, InTurn, ListIsSorted
<1>6. BuildsArePublished'
  BY <1>1, <1>3, <1>4 DEF BuildsArePublished
<1> QED
  BY <1>1, <1>4, <1>5, <1>6

LEMMA UnitSucceedsHolds ==
    ASSUME IInv, NEW p \in Plans, UnitSucceeds(p)
    PROVE  IInv'
<1>1. p \in Concerned /\ p \notin treated /\ stage \in Treating
  BY ConcernedAre DEF UnitSucceeds, Untreated, IInv
<1>2. /\ UNCHANGED <<setting, at, surviving, completed, build_states, published,
                     failures, cancelled, ended>>
      /\ treated' = treated \cup Unit(p)
  BY DEF UnitSucceeds
<1>3. /\ Stages' = Stages /\ stage' = stage
      /\ FailuresAreFinal' /\ BuildsArePublished' /\ InTurn' /\ ListIsSorted'
  BY <1>1, <1>2, EarlyHolds
<1>4. /\ p \in Unit(p) /\ Unit(p) \subseteq Concerned
      /\ \A q \in Unit(p) : Unit(q) = Unit(p)
  BY <1>1, UnitsPartition DEF IInv
<1>5. Concerned' = Concerned
  BY <1>2, <1>3 DEF Concerned
<1>6. \A q : Unit(q)' = Unit(q)
  BY <1>3, <1>5 DEF Unit
<1>7. UnitsTogether'
  BY <1>2, <1>4, <1>5, <1>6 DEF IInv, UnitsTogether
<1>10. before' \in SUBSET (Plans \X Plans)
  BY DEF UnitSucceeds, Extended, IInv, TypeOK
<1>8. TypeOK'
  BY <1>2, <1>3, <1>4, <1>10, ConcernedAre DEF IInv, TypeOK, setting
<1>9. Accounted' /\ published' \in Sections
  BY <1>2 DEF IInv, Accounted
<1> QED
  BY <1>3, <1>7, <1>8, <1>9 DEF IInv

\* The plans that are dropped are the only ones that concern a stage no more.
LEMMA ConcernedShrinks ==
    ASSUME UNCHANGED <<setting, at>>, NEW lost, surviving' = surviving \ lost
    PROVE  Concerned' = Concerned \ lost
<1> DEFINE sort == PerSession \cup AllTogether
<1>1. stage' = stage
  BY Staying
<1>2. CASE stage \in {"managed directories", "unpack"}
  <2>1. stage \notin sort /\ stage # "plan directories"
    BY <1>2 DEF PerSession, AllTogether, Permissions, Commands
  <2> QED
    BY <1>1, <1>2, <2>1 DEF Concerned
<1>3. CASE stage = "plan directories"
  <2>1. stage \notin sort
    BY <1>3 DEF PerSession, AllTogether, Permissions, Commands
  <2> QED
    BY <1>1, <1>3, <2>1 DEF Concerned
<1>4. CASE stage \in sort
  <2>1. stage \notin {"managed directories", "unpack", "plan directories"}
    BY <1>4 DEF PerSession, AllTogether, Permissions, Commands
  <2> QED
    BY <1>1, <1>4, <2>1 DEF Concerned
<1>5. CASE stage \notin sort \cup {"managed directories", "unpack",
                                   "plan directories"}
  BY <1>1, <1>5 DEF Concerned
<1> QED
  BY <1>2, <1>3, <1>4, <1>5

LEMMA DropHolds ==
    ASSUME IInv, stage \in Treating, NEW lost \in SUBSET Concerned, Drop(lost),
           lost \cap treated = {}
    PROVE  IInv'
<1>1. /\ UNCHANGED <<setting, cancelled, at, ended, treated, before, completed,
                     build_states, published>>
      /\ surviving' = surviving \ lost
      /\ failures' = [p \in Plans |-> failures[p] + (IF p \in lost THEN 1 ELSE 0)]
  BY DEF Drop
<1>2. /\ Stages' = Stages /\ stage' = stage /\ completed = {}
      /\ FailuresAreFinal' /\ BuildsArePublished' /\ InTurn' /\ ListIsSorted'
  BY <1>1, EarlyHolds
<1>3. /\ surviving \subseteq Plans /\ lost \subseteq surviving
      /\ failures \in [Plans -> Nat]
  BY ConcernedAre DEF IInv, TypeOK
<1>4. Accounted'
  <2> SUFFICES ASSUME NEW p \in Plans
               PROVE  failures'[p] = IF p \in surviving' THEN 0 ELSE 1
    BY DEF Accounted
  <2>1. /\ failures[p] = IF p \in surviving THEN 0 ELSE 1
        /\ failures'[p] = failures[p] + (IF p \in lost THEN 1 ELSE 0)
    BY <1>1 DEF IInv, Accounted
  <2>2. CASE p \in lost
    BY <1>1, <1>3, <2>1, <2>2
  <2>3. CASE p \notin lost
    BY <1>1, <1>3, <2>1, <2>3
  <2> QED
    BY <2>2, <2>3
<1>5. Concerned' = Concerned \ lost
  BY <1>1, ConcernedShrinks
<1>6. \A q \in treated : Unit(q)' \subseteq Unit(q)
  BY <1>2, <1>5 DEF Unit
<1>7. UnitsTogether'
  BY <1>1, <1>5, <1>6 DEF IInv, UnitsTogether
<1>8. failures' \in [Plans -> Nat]
  BY <1>1, <1>3
<1>9. treated \subseteq surviving'
  BY <1>1 DEF IInv, TypeOK
<1>10. TypeOK'
  <2>1. surviving' \in SUBSET Plans /\ treated' \in SUBSET surviving'
        /\ completed' \in SUBSET surviving'
    BY <1>1, <1>2, <1>3, <1>9
  <2> QED
    BY <1>1, <1>2, <1>8, <2>1 DEF IInv, TypeOK, setting
<1> QED
  BY <1>1, <1>2, <1>4, <1>7, <1>10 DEF IInv

LEMMA UnitFailsHolds ==
    ASSUME IInv, NEW p \in Plans, UnitFails(p)
    PROVE  IInv'
<1>1. p \in Concerned /\ p \notin treated /\ stage \in Treating /\ Drop(Unit(p))
  BY ConcernedAre DEF UnitFails, Untreated, IInv
<1>2. /\ p \in Unit(p) /\ Unit(p) \subseteq Concerned
      /\ \A q \in Unit(p) : Unit(q) = Unit(p)
  BY <1>1, UnitsPartition DEF IInv
<1>3. Unit(p) \cap treated = {}
  BY <1>1, <1>2 DEF IInv, UnitsTogether
<1> QED
  BY <1>1, <1>2, <1>3, DropHolds

LEMMA AllFailHolds ==
    ASSUME IInv, AllFail
    PROVE  IInv'
<1>1. stage \in Treating
  BY DEF AllFail, Treating, PerSession
<1>2. Drop(Concerned) /\ Concerned \cap treated = {}
  BY DEF AllFail
<1> QED
  BY <1>1, <1>2, DropHolds

-----------------------------------------------------------------------------
(* The sections.                                                           *)

LEMMA WriteSetupFailuresHolds ==
    ASSUME IInv, WriteSetupFailures
    PROVE  IInv'
<1>1. stage = "setup failures" /\ stage # "schedule" /\ stage \notin Treating
  BY DEF WriteSetupFailures, Treating, PerPlan, PerSession, AllTogether,
         Permissions, Commands
<1>2. /\ UNCHANGED <<setting, cancelled, ended, surviving, treated, before,
                     failures, completed, build_states>>
      /\ Advance
      /\ published' = [published EXCEPT !.setup_failures = Reported]
  BY DEF WriteSetupFailures
<1>3. /\ Stages' = Stages /\ at' \in 1 .. Len(Stages)
      /\ Left' = Left - 1 /\ Left = 6
  BY <1>1, <1>2, Advancing, WhatIsLeft DEF IInv
<1>4. Reported = Plans \ surviving
  BY DEF Reported, IInv, Accounted, TypeOK
<1>5. /\ published' \in Sections
      /\ published'.setup_failures = Plans \ surviving
      /\ published'.phase = published.phase /\ published'.builds = published.builds
  BY <1>2, <1>4 DEF IInv, Sections
<1>6. FailuresAreFinal'
  BY <1>2, <1>5 DEF FailuresAreFinal
<1>7. Left' = 5 /\ Left >= 4
  BY <1>3
<1>8. BuildsArePublished'
  <2>1. published.builds = Absent /\ DOMAIN build_states = {}
    BY <1>7 DEF IInv, BuildsArePublished
  <2>2. published.phase # "Scheduling"
    BY <1>1, PhaseIsEarlier
  <2>3. /\ ~(Left' <= 3) /\ ~(Left' <= 2)
    BY <1>7
  <2>4. completed' = {p \in DOMAIN build_states' : build_states'[p] \in Ready}
    BY <1>2 DEF IInv, BuildsArePublished
  <2> QED
    BY <1>2, <1>5, <2>1, <2>2, <2>3, <2>4 DEF BuildsArePublished
<1>9. treated' = {} /\ UnitsTogether'
  BY <1>1, <1>2, NothingTreated DEF UnitsTogether
<1>10. TypeOK'
  <2>1. /\ published'.phase \in Phases \cup {Absent}
        /\ published'.setup_failures \subseteq Plans
        /\ published'.builds = Absent \/ published'.builds \in BuildStates
    BY <1>5 DEF Sections
  <2> QED
    BY <1>2, <1>3, <2>1 DEF IInv, TypeOK, setting
<1>11. Accounted' /\ InTurn' /\ ListIsSorted'
  BY <1>2, <1>3 DEF IInv, Accounted, InTurn, ListIsSorted, ByGrouping
<1> QED
  BY <1>5, <1>6, <1>8, <1>9, <1>10, <1>11 DEF IInv

LEMMA ReporterNewHolds ==
    ASSUME IInv, ReporterNew
    PROVE  IInv'
<1>1. stage = "build states" /\ stage # "schedule" /\ stage \notin Treating
  BY DEF ReporterNew, Treating, PerPlan, PerSession, AllTogether,
         Permissions, Commands
<1>2. /\ UNCHANGED <<setting, cancelled, ended, surviving, treated, before,
                     failures, completed>>
      /\ Advance
      /\ build_states' = [p \in surviving |-> "Pending"]
      /\ published' = [published EXCEPT !.builds = build_states']
  BY DEF ReporterNew, Update
<1>3. /\ Stages' = Stages /\ at' \in 1 .. Len(Stages)
      /\ Left' = Left - 1 /\ Left = 4
  BY <1>1, <1>2, Advancing, WhatIsLeft DEF IInv
<1>4. Left' = 3 /\ Left >= 4 /\ Left <= 5
  BY <1>3
<1>5. surviving \in SUBSET Plans
  BY DEF IInv, TypeOK
<1>6. build_states' \in BuildStates
  <2>1. build_states' \in [surviving -> BuildStages]
    BY <1>2 DEF BuildStages
  <2> QED
    BY <1>5, <2>1 DEF BuildStates
<1>7. /\ published' \in Sections
      /\ published'.setup_failures = published.setup_failures
      /\ published'.phase = published.phase /\ published'.builds = build_states'
  BY <1>2, <1>6 DEF IInv, Sections
<1>8. FailuresAreFinal'
  BY <1>2, <1>4, <1>7 DEF IInv, FailuresAreFinal
<1>9. BuildsArePublished'
  <2>1. completed = {}
    BY <1>4 DEF IInv, BuildsArePublished
  <2>2. published.phase # "Scheduling"
    BY <1>1, PhaseIsEarlier
  <2>3. ~(Left' >= 4) /\ ~(Left' <= 2)
    BY <1>4
  <2>4. completed' = {p \in DOMAIN build_states' : build_states'[p] \in Ready}
    BY <1>2, <2>1 DEF Ready
  <2> QED
    BY <1>2, <1>7, <2>2, <2>3, <2>4 DEF BuildsArePublished
<1>10. treated' = {} /\ UnitsTogether'
  BY <1>1, <1>2, NothingTreated DEF UnitsTogether
<1>11. TypeOK'
  <2>1. /\ published'.phase \in Phases \cup {Absent}
        /\ published'.setup_failures = Absent
               \/ published'.setup_failures \subseteq Plans
        /\ published'.builds \in BuildStates
    BY <1>6, <1>7 DEF Sections
  <2> QED
    BY <1>2, <1>3, <1>6, <2>1 DEF IInv, TypeOK, setting
<1>12. Accounted' /\ InTurn' /\ ListIsSorted'
  BY <1>2, <1>3 DEF IInv, Accounted, InTurn, ListIsSorted, ByGrouping
<1> QED
  BY <1>7, <1>8, <1>9, <1>10, <1>11, <1>12 DEF IInv

-----------------------------------------------------------------------------
(* Environment building.                                                   *)

\* By then the list is sorted.
LEMMA NextIsFirst ==
    ASSUME IInv, stage = "build", NEW p \in NextToBuild
    PROVE  p \in Unbuilt /\ \A q \in Unbuilt : Position[p] <= Position[q]
<1>1. Left = 3
  BY WhatIsLeft, Zenon DEF IInv
<1>2. before = ByGrouping
  BY <1>1 DEF IInv, ListIsSorted
<1>3. Unbuilt \subseteq Plans
  BY DEF Unbuilt, IInv, TypeOK, BuildStates
<1>4. p \in Unbuilt /\ \A q \in Unbuilt \ {p} : Position[p] < Position[q]
  BY <1>2 DEF NextToBuild, ByGrouping
<1> QED
  BY <1>3, <1>4, PlansAreConfigured

LEMMA BuildStepHolds ==
    ASSUME IInv, NEW p \in NextToBuild, NEW value \in BuildStages \ {"Pending"},
           BuildStep(p, value),
           completed' = IF value \in Ready THEN completed \cup {p} ELSE completed
    PROVE  IInv'
<1>1. /\ UNCHANGED <<setting, cancelled, at, ended, surviving, treated, before,
                     failures>>
      /\ stage = "build"
      /\ build_states' = [build_states EXCEPT ![p] = value]
      /\ published' = [published EXCEPT !.builds = build_states']
  BY DEF BuildStep, Update
<1>2. /\ p \in DOMAIN build_states /\ p \in Unbuilt
      /\ build_states[p] \in {"Pending", "InProgress"}
      /\ \A q \in Unbuilt : Position[p] <= Position[q]
  BY <1>1, NextIsFirst DEF Unbuilt
<1>3. Stages' = Stages /\ stage' = stage /\ Left' = Left
  BY <1>1, Staying
<1>4. Left = 3
  BY <1>1, WhatIsLeft, Zenon DEF IInv
<1>5. /\ Left <= 3 /\ Left <= 5 /\ ~(Left >= 4) /\ ~(Left <= 2) /\ Left # 0
  BY <1>4
<1>6. /\ published.builds = build_states /\ DOMAIN build_states = surviving
      /\ completed = {q \in DOMAIN build_states : build_states[q] \in Ready}
      /\ published.phase # "Scheduling"
  BY <1>5 DEF IInv, BuildsArePublished
<1>7. build_states \in [surviving -> BuildStages] /\ surviving \subseteq Plans
  <2>1. build_states \in BuildStates /\ surviving \subseteq Plans
    BY DEF IInv, TypeOK
  <2>2. PICK S \in SUBSET Plans : build_states \in [S -> BuildStages]
    BY <2>1 DEF BuildStates
  <2>3. S = surviving
    BY <1>6, <2>2
  <2> QED
    BY <2>1, <2>2, <2>3
<1>8. /\ build_states' \in [surviving -> BuildStages]
      /\ DOMAIN build_states' = surviving
      /\ build_states'[p] = value
      /\ \A q \in surviving : q # p => build_states'[q] = build_states[q]
  BY <1>1, <1>2, <1>6, <1>7
<1>9. build_states' \in BuildStates
  BY <1>7, <1>8 DEF BuildStates
<1>10. /\ published' \in Sections
       /\ published'.setup_failures = published.setup_failures
       /\ published'.phase = published.phase /\ published'.builds = build_states'
  BY <1>1, <1>9 DEF IInv, Sections
<1>11. completed' = {q \in surviving : build_states'[q] \in Ready}
  <2>1. build_states[p] \notin Ready
    BY <1>2 DEF Ready
  <2>2. CASE value \in Ready
    BY <1>2, <1>6, <1>8, <2>2
  <2>3. CASE value \notin Ready
    BY <1>2, <1>6, <1>8, <2>1, <2>3
  <2> QED
    BY <2>2, <2>3
<1>12. BuildsArePublished'
  BY <1>1, <1>3, <1>5, <1>6, <1>8, <1>10, <1>11 DEF BuildsArePublished
<1>13. InTurn'
  <2> SUFFICES ASSUME NEW q \in surviving, NEW r \in surviving,
                      Position[q] < Position[r], build_states'[r] # "Pending"
               PROVE  build_states'[q] \in BuildOutcomes
    BY <1>8 DEF InTurn
  <2>1. /\ Position[p] \in Nat /\ Position[q] \in Nat /\ Position[r] \in Nat
    BY <1>2, <1>6, <1>7, PlansAreConfigured
  <2>2. CASE r = p
    <3>1. q \notin Unbuilt /\ q # p
      BY <1>2, <2>1, <2>2
    <3>2. build_states[q] \in BuildStages \ {"Pending", "InProgress"}
      BY <1>6, <1>7, <3>1 DEF Unbuilt
    <3> QED
      BY <1>8, <3>1, <3>2 DEF BuildStages
  <2>3. CASE r # p
    <3>1. build_states[q] \in BuildOutcomes
      BY <1>6, <1>8, <2>3 DEF IInv, InTurn
    <3>2. q # p
      BY <1>2, <3>1 DEF BuildOutcomes
    <3> QED
      BY <1>8, <3>1, <3>2
  <2> QED
    BY <2>2, <2>3
<1>14. treated' = {} /\ UnitsTogether'
  <2>1. stage \notin Treating
    BY <1>1 DEF Treating, PerPlan, PerSession, AllTogether, Permissions, Commands
  <2> QED
    BY <1>1, <2>1, NothingTreated DEF UnitsTogether
<1>15. TypeOK'
  <2>1. /\ published'.phase \in Phases \cup {Absent}
        /\ published'.setup_failures = Absent
               \/ published'.setup_failures \subseteq Plans
        /\ published'.builds \in BuildStates
    BY <1>9, <1>10 DEF Sections
  <2>2. completed' \in SUBSET surviving'
    BY <1>1, <1>11
  <2> QED
    BY <1>1, <1>3, <1>9, <2>1, <2>2 DEF IInv, TypeOK, setting
<1>16. Accounted' /\ FailuresAreFinal' /\ ListIsSorted'
  BY <1>1, <1>3, <1>10 DEF IInv, Accounted, FailuresAreFinal, ListIsSorted, ByGrouping
<1> QED
  BY <1>10, <1>12, <1>13, <1>14, <1>15, <1>16 DEF IInv

LEMMA BuildsHold ==
    ASSUME IInv, BuildNotNeeded \/ BuildStarts \/ BuildEnds
    PROVE  IInv'
<1>1. CASE BuildNotNeeded
  <2>1. PICK p \in NextToBuild : /\ BuildStep(p, "NotNeeded")
                                 /\ completed' = completed \cup {p}
    BY <1>1 DEF BuildNotNeeded
  <2>2. "NotNeeded" \in BuildStages \ {"Pending"} /\ "NotNeeded" \in Ready
    BY DEF BuildStages, BuildOutcomes, Ready
  <2> QED
    BY <2>1, <2>2, BuildStepHolds
<1>2. CASE BuildStarts
  <2>1. PICK p \in NextToBuild : /\ BuildStep(p, "InProgress")
                                 /\ completed' = completed
    BY <1>2 DEF BuildStarts
  <2>2. "InProgress" \in BuildStages \ {"Pending"} /\ "InProgress" \notin Ready
    BY DEF BuildStages, Ready
  <2> QED
    BY <2>1, <2>2, BuildStepHolds
<1>3. CASE BuildEnds
  <2>1. PICK p \in NextToBuild, outcome \in BuildOutcomes \ {"NotNeeded"} :
            /\ BuildStep(p, outcome)
            /\ completed' = IF outcome = "Success" THEN completed \cup {p}
                                                   ELSE completed
    BY <1>3 DEF BuildEnds
  <2>2. /\ outcome \in BuildStages \ {"Pending"}
        /\ outcome \in Ready <=> outcome = "Success"
    BY DEF BuildStages, BuildOutcomes, Ready
  <2>3. completed' = IF outcome \in Ready THEN completed \cup {p} ELSE completed
    BY <2>1, <2>2
  <2> QED
    BY <2>1, <2>2, <2>3, BuildStepHolds
<1> QED
  BY <1>1, <1>2, <1>3

-----------------------------------------------------------------------------
(* The invariant.                                                          *)

\* The steps that only end the program, or cancel it.
LEMMA EndsHold ==
    ASSUME IInv, Cancel \/ End("ok") \/ End("error") \/ UNCHANGED vars
    PROVE  IInv'
<1>1. UNCHANGED <<setting, at, surviving, treated, before, failures, completed,
                  build_states, published>>
  BY DEF Cancel, End, vars
<1>2. cancelled' \in BOOLEAN /\ ended' \in {"no", "ok", "error"}
  BY DEF IInv, TypeOK, Cancel, End, vars
<1> QED
  BY <1>1, <1>2, IdleHolds

LEMMA Invariance == IInv /\ [Next]_vars => IInv'
<1> SUFFICES ASSUME IInv, [Next]_vars PROVE IInv'
  OBVIOUS
<1>1. CASE Cancel \/ End("ok") \/ End("error") \/ UNCHANGED vars
  BY <1>1, EndsHold
<1>2. CASE Check
  <2>1. End("ok") \/ (stage = "check" /\ Succeeds)
    BY <1>2 DEF Check, Succeeds
  <2> QED
    BY <1>1, <2>1, SucceedsHolds
<1>3. CASE Prepare \/ Sweep \/ AwaitGracePeriod \/ BuildsOver
  <2>1. \/ End("error")
        \/ /\ Succeeds
           /\ \/ stage \in {"check", "prepare", "sweep", "sleep"}
              \/ stage = "build" /\ Unbuilt = {}
    BY <1>3 DEF Prepare, Sweep, AwaitGracePeriod, BuildsOver
  <2> QED
    BY <1>1, <2>1, SucceedsHolds
<1>4. CASE \E p \in Plans : UnitSucceeds(p) \/ UnitFails(p)
  BY <1>4, UnitSucceedsHolds, UnitFailsHolds
<1>5. CASE AllFail
  BY <1>5, AllFailHolds
<1>6. CASE StageOver
  BY <1>6, StageOverHolds
<1>7. CASE UnitCancelled \/ WriteFails \/ BuildCancelled
  BY <1>1, <1>7 DEF UnitCancelled, WriteFails, BuildCancelled
<1>8. CASE WritePhase
  BY <1>8, WritePhaseHolds
<1>9. CASE WriteSetupFailures
  BY <1>9, WriteSetupFailuresHolds
<1>10. CASE ReporterNew
  BY <1>10, ReporterNewHolds
<1>11. CASE BuildNotNeeded \/ BuildStarts \/ BuildEnds
  BY <1>11, BuildsHold
<1> QED
  BY <1>1, <1>2, <1>3, <1>4, <1>5, <1>6, <1>7, <1>8, <1>9, <1>10, <1>11
     DEF Next, Step

LEMMA AlwaysIInv == Spec => []IInv
BY InitHolds, Invariance, PTL DEF Spec

-----------------------------------------------------------------------------
(* The theorems.                                                           *)

\* Every variable keeps its type; above all, a plan is treated, or waits to be
\* returned by the builder, only while it survives, and there is always a next
\* stage until the plans are scheduled.
THEOREM Typing == Spec => []TypeOK
<1>1. IInv => TypeOK
  BY DEF IInv
<1> QED
  BY <1>1, AlwaysIInv, PTL

\* No plan is lost by a stage without a failure, none is given two of them.
THEOREM FailuresAccounted == Spec => []Accounted
<1>1. IInv => Accounted
  BY DEF IInv
<1> QED
  BY <1>1, AlwaysIInv, PTL

\* The two sections that the setup leaves behind name every configured plan
\* once, although they are written at different times.
THEOREM PartitionOfSections == Spec => []SectionsPartition
<1>1. IInv => SectionsPartition
  <2> SUFFICES ASSUME IInv, published.builds # Absent
               PROVE  /\ published.setup_failures # Absent
                      /\ published.setup_failures = Plans \ DOMAIN published.builds
    BY DEF SectionsPartition
  <2>1. Left \in Nat
    BY WhereStageIs, Zenon DEF IInv
  <2>2. ~(Left >= 4)
    BY DEF IInv, BuildsArePublished
  <2>3. Left <= 3 /\ Left <= 5
    BY <2>1, <2>2
  <2>4. /\ published.setup_failures = Plans \ surviving
        /\ DOMAIN published.builds = surviving
    BY <2>3 DEF IInv, FailuresAreFinal, BuildsArePublished
  <2>5. published.setup_failures \in SUBSET Plans
    BY <2>4
  <2>6. published.setup_failures # Absent
    BY <2>5, AbsentIsNoSection
  <2> QED
    BY <2>4, <2>6
<1> QED
  BY <1>1, AlwaysIInv, PTL

\* The scheduling phase is announced when every build is over, and the plans
\* that go into it are those whose build is shown as ready.
THEOREM BuiltIsScheduled == Spec => []SchedulesWhatWasBuilt
<1>1. IInv => SchedulesWhatWasBuilt
  <2> SUFFICES ASSUME IInv, published.phase = "Scheduling"
               PROVE  /\ completed = {p \in DOMAIN published.builds :
                                          published.builds[p] \in Ready}
                      /\ \A p \in DOMAIN published.builds :
                             published.builds[p] \in BuildOutcomes
    BY DEF SchedulesWhatWasBuilt, Ready
  <2>1. Left = 0
    BY DEF IInv, BuildsArePublished
  <2>2. Left <= 3 /\ Left <= 2
    BY <2>1
  <2>3. /\ published.builds = build_states /\ Unbuilt = {}
        /\ completed = {p \in DOMAIN build_states : build_states[p] \in Ready}
    BY <2>2 DEF IInv, BuildsArePublished
  <2>4. PICK S \in SUBSET Plans : build_states \in [S -> BuildStages]
    BY DEF IInv, TypeOK, BuildStates
  <2>5. \A p \in DOMAIN build_states : build_states[p] \in BuildOutcomes
    BY <2>3, <2>4 DEF Unbuilt, BuildStages
  <2> QED
    BY <2>3, <2>5
<1> QED
  BY <1>1, AlwaysIInv, PTL

\* Builds are published in the order of the configuration, one under way at a
\* time, for any order in which the sessions were treated before: the list is
\* sorted in between.
THEOREM OrderOfBuilds == Spec => []BuildsInTurn
<1>1. IInv => BuildsInTurn
  <2> SUFFICES ASSUME IInv, published.builds # Absent
               PROVE  \A p, q \in DOMAIN published.builds :
                        Position[p] < Position[q] /\ published.builds[q] # "Pending" =>
                            published.builds[p] \in BuildOutcomes
    BY DEF BuildsInTurn
  <2>1. Left \in Nat
    BY WhereStageIs, Zenon DEF IInv
  <2>2. ~(Left >= 4)
    BY DEF IInv, BuildsArePublished
  <2>3. Left <= 3
    BY <2>1, <2>2
  <2>4. published.builds = build_states
    BY <2>3 DEF IInv, BuildsArePublished
  <2> QED
    BY <2>4 DEF IInv, InTurn
<1> QED
  BY <1>1, AlwaysIInv, PTL

-----------------------------------------------------------------------------
(* The sections implement PlanFates, and the setup goes forward.            *)

\* A step that is about no section but the phase, and ends the stage.
MovesOn ==
    /\ Advance
    /\ UNCHANGED <<setting, ended, completed, build_states>>
    /\ published' = published \/ published' = [published EXCEPT !.phase = stage]
    /\ stage \notin {"setup failures", "build states", "schedule"}
    /\ stage = "build" => Unbuilt = {}

\* A step within a stage that is about no section at all.
StaysOn == UNCHANGED <<setting, at, completed, build_states, published>>

LEMMA KindsOfSteps ==
    ASSUME [Next]_vars
    PROVE  \/ StaysOn \/ MovesOn
           \/ WriteSetupFailures \/ ReporterNew
           \/ BuildNotNeeded \/ BuildStarts \/ BuildEnds
<1>1. CASE Succeeds /\ (stage \in {"check", "prepare", "sweep", "sleep"}
                            \/ (stage = "build" /\ Unbuilt = {}))
  BY <1>1 DEF Succeeds, MovesOn
<1>2. CASE Cancel \/ End("ok") \/ End("error") \/ UNCHANGED vars
  BY <1>2 DEF Cancel, End, vars, StaysOn
<1>3. CASE Check \/ Prepare \/ Sweep \/ AwaitGracePeriod \/ BuildsOver
  <2>1. Check => End("ok") \/ (stage = "check" /\ Succeeds)
    BY DEF Check, Succeeds
  <2> QED
    BY <1>1, <1>2, <1>3, <2>1
    DEF Prepare, Sweep, AwaitGracePeriod, BuildsOver
<1>4. CASE \E p \in Plans : UnitSucceeds(p) \/ UnitFails(p)
  BY <1>4 DEF UnitSucceeds, UnitFails, Drop, StaysOn
<1>5. CASE AllFail
  BY <1>5 DEF AllFail, Drop, StaysOn
<1>6. CASE StageOver
  BY <1>6 DEF StageOver, Leave, MovesOn, PerPlan, PerSession, AllTogether, Permissions,
      Commands
<1>7. CASE UnitCancelled \/ WriteFails \/ BuildCancelled
  BY <1>2, <1>7 DEF UnitCancelled, WriteFails, BuildCancelled
<1>8. CASE WritePhase
  BY <1>8 DEF WritePhase, MovesOn, Phases
<1> QED
  BY <1>2, <1>3, <1>4, <1>5, <1>6, <1>7, <1>8 DEF Next, Step

(***************************************************************************)
(* What the refinement needs besides IInv: no failure is told before the   *)
(* last of them is known, and only an environment is ever under way.       *)
(***************************************************************************)
FatesFit ==
    /\ Left >= 6 => published.setup_failures = Absent
    /\ \A p \in DOMAIN build_states : build_states[p] = "InProgress" => p \in Rcc

LEMMA FatesFitInit == Init => FatesFit
BY DEF Init, FatesFit

LEMMA FatesFitStep == IInv /\ FatesFit /\ [Next]_vars => FatesFit'
<1> SUFFICES ASSUME IInv, FatesFit, [Next]_vars PROVE FatesFit'
  OBVIOUS
<1>1. Left \in Nat
  BY WhereStageIs, Zenon DEF IInv
<1>2. CASE StaysOn
  BY <1>2, Staying DEF StaysOn, FatesFit
<1>3. CASE MovesOn
  <2>1. Left' = Left - 1
    BY <1>3, Advancing DEF MovesOn, IInv
  <2>2. published'.setup_failures = published.setup_failures
    BY <1>3 DEF MovesOn, IInv, Sections
  <2>3. Left' >= 6 => Left >= 6
    BY <1>1, <2>1
  <2>4. build_states' = build_states
    BY <1>3 DEF MovesOn
  <2> QED
    BY <2>2, <2>3, <2>4 DEF FatesFit
<1>4. CASE WriteSetupFailures
  <2>1. Left' = Left - 1 /\ Left = 6 /\ build_states' = build_states
    BY <1>4, Advancing, WhatIsLeft DEF WriteSetupFailures, IInv
  <2> QED
    BY <2>1 DEF FatesFit
<1>5. CASE ReporterNew
  <2>1. Left' = Left - 1 /\ Left = 4
    BY <1>5, Advancing, WhatIsLeft DEF ReporterNew, IInv
  <2>2. build_states' = [p \in surviving |-> "Pending"]
    BY <1>5 DEF ReporterNew, Update
  <2> QED
    BY <2>1, <2>2 DEF FatesFit
<1>6. ASSUME NEW p \in NextToBuild, NEW value, BuildStep(p, value),
             value = "InProgress" => p \in Rcc
      PROVE  FatesFit'
  <2>1. Left' = Left /\ Left = 3
    BY <1>6, Staying, WhatIsLeft DEF BuildStep, IInv
  <2>2. build_states' = [build_states EXCEPT ![p] = value]
    BY <1>6 DEF BuildStep, Update
  <2> QED
    BY <1>6, <2>1, <2>2 DEF FatesFit
<1>7. CASE BuildNotNeeded \/ BuildStarts \/ BuildEnds
  <2>1. "NotNeeded" # "InProgress" /\ "InProgress" \notin BuildOutcomes
    BY DEF BuildOutcomes
  <2> QED
    BY <1>6, <1>7, <2>1 DEF BuildNotNeeded, BuildStarts, BuildEnds
<1> QED
  BY <1>2, <1>3, <1>4, <1>5, <1>7, KindsOfSteps

Shown == [p \in Plans |-> FateOf(p)]

Given == IF published.phase = "Scheduling" THEN completed ELSE Absent

LEMMA BuildsAreNotAbsent == \A builds \in BuildStates : builds # Absent
BY AbsentIsNoSection

\* What is told at each place of the setup.
LEMMA FatesAre ==
    ASSUME IInv, FatesFit, NEW p \in Plans
    PROVE  /\ Left >= 6 => FateOf(p) = "Unknown"
           /\ Left \in {4, 5} =>
                FateOf(p) = IF p \in surviving THEN "Passed" ELSE "Failed"
           /\ Left <= 3 =>
                FateOf(p) = IF p \in surviving THEN build_states[p] ELSE "Failed"
<1>1. Left \in Nat
  BY WhereStageIs, Zenon DEF IInv
<1>2. Left <= 5 =>
        /\ published.setup_failures # Absent
        /\ p \in published.setup_failures <=> p \notin surviving
  <2> SUFFICES ASSUME Left <= 5
               PROVE  /\ published.setup_failures # Absent
                      /\ p \in published.setup_failures <=> p \notin surviving
    OBVIOUS
  <2>1. published.setup_failures = Plans \ surviving
    BY DEF IInv, FailuresAreFinal
  <2>2. Plans \ surviving \in SUBSET Plans
    OBVIOUS
  <2> QED
    BY <2>1, <2>2, AbsentIsNoSection
<1>3. CASE Left >= 6
  BY <1>1, <1>3 DEF FatesFit, FateOf
<1>4. CASE Left \in {4, 5}
  BY <1>1, <1>2, <1>4 DEF IInv, BuildsArePublished, FateOf
<1>5. CASE Left <= 3
  <2>1. published.builds = build_states
    BY <1>5 DEF IInv, BuildsArePublished
  <2>2. published.builds # Absent
    <3>1. build_states \in BuildStates
      BY DEF IInv, TypeOK
    <3> QED
      BY <2>1, <3>1, BuildsAreNotAbsent
  <2> QED
    BY <1>1, <1>2, <1>5, <2>1, <2>2 DEF FateOf
<1> QED
  BY <1>1, <1>3, <1>4, <1>5

\* Nothing is scheduled before the last section.
LEMMA NothingGiven ==
    ASSUME IInv, stage # "schedule"
    PROVE  Given = Absent
BY PhaseIsEarlier DEF Given

LEMMA FatesInitially == Init => Fates!FatesInit
<1> SUFFICES ASSUME Init PROVE Fates!FatesInit
  OBVIOUS
<1>1. \A p \in Plans : FateOf(p) = "Unknown"
  BY DEF Init, FateOf
<1>2. published.phase # "Scheduling"
  BY AbsentIsNoSection DEF Init, Phases
<1> QED
  BY <1>1, <1>2 DEF Fates!FatesInit

\* The steps that tell nothing new.
LEMMA StaysTellsNothing ==
    ASSUME StaysOn
    PROVE  UNCHANGED <<Shown, Given>>
BY DEF StaysOn, Shown, Given, FateOf

LEMMA PhaseTells ==
    ASSUME IInv, FatesFit, MovesOn
    PROVE  Fates!Schedule \/ UNCHANGED <<Shown, Given>>
<1>1. UNCHANGED Shown
  <2>1. /\ published'.setup_failures = published.setup_failures
        /\ published'.builds = published.builds
    BY DEF MovesOn, IInv, Sections
  <2> QED
    BY <2>1 DEF Shown, FateOf
<1>2. Given = Absent
  BY NothingGiven DEF MovesOn
<1>3. CASE published'.phase # "Scheduling"
  BY <1>1, <1>2, <1>3 DEF Given
<1>4. CASE published'.phase = "Scheduling"
  <2>1. stage = "Scheduling"
    <3>1. published.phase # "Scheduling"
      BY PhaseIsEarlier DEF MovesOn
    <3> QED
      BY <1>4, <3>1 DEF MovesOn, IInv, Sections
  <2>2. Left <= 3 /\ Left <= 2
    <3>1. Left = 1
      BY <2>1, WhatIsLeft, Zenon DEF IInv
    <3> QED
      BY <3>1
  <2>3. /\ \A p \in Plans :
             FateOf(p) = IF p \in surviving THEN build_states[p] ELSE "Failed"
        /\ Unbuilt = {} /\ DOMAIN build_states = surviving
        /\ completed = {p \in surviving : build_states[p] \in Ready}
    BY <2>2, FatesAre DEF IInv, BuildsArePublished
  <2>4. \A p \in surviving : build_states[p] \in BuildOutcomes
    <3>1. PICK S \in SUBSET Plans : build_states \in [S -> BuildStages]
      BY DEF IInv, TypeOK, BuildStates
    <3> QED
      BY <2>3, <3>1 DEF Unbuilt, BuildStages
  <2>5. \A p \in Plans : Shown[p] \in Fates!Final \cup {"Failed"}
    BY <2>3, <2>4 DEF Shown, Fates!Final, BuildOutcomes
  <2>6. completed = {p \in Plans : Shown[p] \in Fates!ReadyFates}
    <3>1. surviving \subseteq Plans
      BY DEF IInv, TypeOK
    <3>2. \A p \in Plans : Shown[p] \in Fates!ReadyFates <=>
                p \in surviving /\ build_states[p] \in Ready
      BY <2>3 DEF Shown, Fates!ReadyFates, Ready
    <3> QED
      BY <2>3, <3>1, <3>2
  <2>7. Given' = completed
    BY <1>4 DEF Given, MovesOn
  <2> QED
    BY <1>1, <1>2, <2>5, <2>6, <2>7 DEF Fates!Schedule, Shown, Given
<1> QED
  BY <1>3, <1>4

LEMMA FailuresAreTold ==
    ASSUME IInv, FatesFit, WriteSetupFailures
    PROVE  \E failed \in SUBSET Plans : Fates!ReportFailures(failed)
<1>1. IInv'
  BY WriteSetupFailuresHolds
<1>2. Left = 6 /\ Left' = 5 /\ surviving' = surviving
  <2>1. Left = 6
    BY WhatIsLeft, Zenon DEF WriteSetupFailures, IInv
  <2>2. Left' = Left - 1
    BY Advancing DEF WriteSetupFailures, IInv
  <2>3. surviving' = surviving
    BY DEF WriteSetupFailures
  <2> QED
    BY <2>1, <2>2, <2>3
<1>3. \A p \in Plans : Shown[p] = "Unknown"
  BY <1>2, FatesAre DEF Shown
<1>4. published'.setup_failures = Plans \ surviving
  BY <1>1, <1>2 DEF IInv, FailuresAreFinal
<1>5. published'.builds = Absent
  BY <1>1, <1>2 DEF IInv, BuildsArePublished
<1>6. Plans \ surviving \in SUBSET Plans
  OBVIOUS
<1>7. Shown' = [p \in Plans |-> IF p \in Plans \ surviving THEN "Failed"
                                ELSE "Passed"]
  BY <1>4, <1>5, <1>6, AbsentIsNoSection DEF Shown, FateOf
<1>8. Given = Absent /\ Given' = Absent
  <2>1. published.phase # "Scheduling"
    BY PhaseIsEarlier DEF WriteSetupFailures
  <2>2. published'.phase = published.phase
    BY DEF WriteSetupFailures, IInv, Sections
  <2> QED
    BY <2>1, <2>2 DEF Given
<1>9. Fates!ReportFailures(Plans \ surviving)
  BY <1>3, <1>7, <1>8 DEF Fates!ReportFailures, Shown, Given
<1> QED
  BY <1>6, <1>9

LEMMA QueueIsTold ==
    ASSUME IInv, FatesFit, ReporterNew
    PROVE  Fates!QueueBuilds
<1>1. IInv'
  BY ReporterNewHolds
<1>2. Left = 4 /\ Left' = 3 /\ surviving' = surviving
  <2>1. Left = 4
    BY WhatIsLeft, Zenon DEF ReporterNew, IInv
  <2>2. Left' = Left - 1
    BY Advancing DEF ReporterNew, IInv
  <2>3. surviving' = surviving
    BY DEF ReporterNew
  <2> QED
    BY <2>1, <2>2, <2>3
<1>3. \A p \in Plans : Shown[p] = IF p \in surviving THEN "Passed" ELSE "Failed"
  BY <1>2, FatesAre DEF Shown
<1>4. /\ published'.setup_failures = Plans \ surviving
      /\ published'.setup_failures # Absent
  <2>1. published'.setup_failures = Plans \ surviving
    BY <1>1, <1>2 DEF IInv, FailuresAreFinal
  <2>2. Plans \ surviving \in SUBSET Plans
    OBVIOUS
  <2> QED
    BY <2>1, <2>2, AbsentIsNoSection
<1>5. /\ published'.builds = [p \in surviving |-> "Pending"]
      /\ published'.builds # Absent
      /\ published'.phase = published.phase
  <2>1. published' = [published EXCEPT !.builds = [p \in surviving |-> "Pending"]]
    BY DEF ReporterNew, Update
  <2>2. [p \in surviving |-> "Pending"] \in BuildStates
    <3>1. surviving \in SUBSET Plans /\ "Pending" \in BuildStages
      BY DEF IInv, TypeOK, BuildStages
    <3>2. [p \in surviving |-> "Pending"] \in [surviving -> BuildStages]
      BY <3>1
    <3> QED
      BY <3>1, <3>2 DEF BuildStates
  <2>3. /\ published'.builds = [p \in surviving |-> "Pending"]
        /\ published'.phase = published.phase
    BY <2>1 DEF IInv, Sections
  <2> QED
    BY <2>2, <2>3, BuildsAreNotAbsent
<1>6. Shown' = [p \in Plans |-> IF Shown[p] = "Passed" THEN "Pending" ELSE "Failed"]
  <2>1. \A p \in Plans :
            FateOf(p)' = IF p \in surviving THEN "Pending" ELSE "Failed"
    BY <1>4, <1>5 DEF FateOf
  <2> QED
    BY <1>3, <2>1 DEF Shown
<1>7. Given = Absent /\ Given' = Absent
  <2>1. published.phase # "Scheduling"
    BY PhaseIsEarlier DEF ReporterNew
  <2> QED
    BY <1>5, <2>1 DEF Given
<1> QED
  BY <1>3, <1>6, <1>7 DEF Fates!QueueBuilds, Shown, Given

\* The next plan to be built is the one under way, if there is one.
LEMMA OneIsBuilt ==
    ASSUME IInv, stage = "build", NEW p \in NextToBuild,
           NEW q \in DOMAIN build_states, build_states[q] = "InProgress"
    PROVE  p = q
<1>1. p \in Unbuilt /\ q \in Unbuilt /\ Position[p] <= Position[q]
  BY NextIsFirst DEF Unbuilt
<1>2. p \in Plans /\ q \in Plans
  <2>1. PICK S \in SUBSET Plans : build_states \in [S -> BuildStages]
    BY DEF IInv, TypeOK, BuildStates
  <2> QED
    BY <1>1, <2>1 DEF Unbuilt
<1>3. ASSUME p # q
      PROVE  FALSE
  <2>1. Position[p] < Position[q]
    BY <1>1, <1>2, <1>3, PlansAreConfigured
  <2>2. build_states[p] \in BuildOutcomes
    BY <1>1, <2>1 DEF IInv, InTurn, Unbuilt
  <2> QED
    BY <1>1, <2>2 DEF Unbuilt, BuildOutcomes
<1> QED
  BY <1>3

LEMMA BuildStepTells ==
    ASSUME IInv, FatesFit, NEW p \in NextToBuild, NEW value \in BuildStages,
           BuildStep(p, value)
    PROVE  /\ p \in surviving /\ p \in Plans /\ p \in DOMAIN build_states
           /\ Shown[p] = build_states[p]
           /\ build_states[p] = "Pending" => Fates!NobodyIsBuilt
           /\ build_states[p] = "InProgress" => p \in Rcc
           /\ Fates!Tell(p, value)
<1>1. Left = 3 /\ Left <= 3
  <2>1. Left = 3
    BY WhatIsLeft, Zenon DEF BuildStep, IInv
  <2> QED
    BY <2>1
<1>2. /\ DOMAIN build_states = surviving /\ surviving \subseteq Plans
      /\ published.builds = build_states
      /\ published.phase # "Scheduling"
  BY <1>1 DEF IInv, BuildsArePublished, TypeOK
<1>3. /\ p \in surviving /\ p \in Plans /\ p \in DOMAIN build_states
      /\ build_states[p] = "InProgress" => p \in Rcc
  BY <1>2 DEF NextToBuild, Unbuilt, FatesFit
<1>4. \A q \in Plans :
          Shown[q] = IF q \in surviving THEN build_states[q] ELSE "Failed"
  BY <1>1, FatesAre DEF Shown
<1>5. build_states[p] = "Pending" => Fates!NobodyIsBuilt
  BY <1>2, <1>4, OneIsBuilt DEF Fates!NobodyIsBuilt, Shown, BuildStep
<1>6. /\ published'.setup_failures = Plans \ surviving
      /\ published'.setup_failures # Absent
      /\ published'.phase = published.phase
      /\ published'.builds = [build_states EXCEPT ![p] = value]
  <2>1. published' = [published EXCEPT !.builds = [build_states EXCEPT ![p] = value]]
    BY DEF BuildStep, Update
  <2>2. published.setup_failures = Plans \ surviving
    BY <1>1 DEF IInv, FailuresAreFinal
  <2>3. Plans \ surviving \in SUBSET Plans
    OBVIOUS
  <2> QED
    BY <2>1, <2>2, <2>3, AbsentIsNoSection DEF IInv, Sections
<1>7. Shown' = [Shown EXCEPT ![p] = value]
  <2>1. published'.builds # Absent
    <3>1. PICK S \in SUBSET Plans : build_states \in [S -> BuildStages]
      BY DEF IInv, TypeOK, BuildStates
    <3>2. [build_states EXCEPT ![p] = value] \in BuildStates
      BY <3>1 DEF BuildStates
    <3> QED
      BY <1>6, <3>2, BuildsAreNotAbsent
  <2>2. \A q \in Plans :
            FateOf(q)' = IF q \in surviving
                         THEN [build_states EXCEPT ![p] = value][q] ELSE "Failed"
    BY <1>6, <2>1 DEF FateOf
  <2> QED
    BY <1>2, <1>3, <1>4, <2>2 DEF Shown
<1>8. Given = Absent /\ Given' = Absent
  BY <1>2, <1>6 DEF Given
<1> QED
  BY <1>3, <1>4, <1>5, <1>7, <1>8 DEF Fates!Tell, Shown, Given

LEMMA BuildsAreTold ==
    ASSUME IInv, FatesFit, BuildNotNeeded \/ BuildStarts \/ BuildEnds
    PROVE  \E p \in Plans :
              Fates!NeedsNoBuild(p) \/ Fates!StartBuild(p) \/ Fates!EndBuild(p)
<1>1. CASE BuildNotNeeded
  <2>1. PICK p \in NextToBuild \ Rcc : BuildStep(p, "NotNeeded")
    BY <1>1 DEF BuildNotNeeded
  <2>2. "NotNeeded" \in BuildStages
    BY DEF BuildStages, BuildOutcomes
  <2>3. build_states[p] = "Pending"
    BY <2>1, <2>2, BuildStepTells DEF NextToBuild, Unbuilt
  <2>4. p \in Plans /\ Fates!NeedsNoBuild(p)
    BY <2>1, <2>2, <2>3, BuildStepTells DEF Fates!NeedsNoBuild, Shown
  <2> QED
    BY <2>4
<1>2. CASE BuildStarts
  <2>1. PICK p \in NextToBuild \cap Rcc :
            build_states[p] = "Pending" /\ BuildStep(p, "InProgress")
    BY <1>2 DEF BuildStarts
  <2>2. "InProgress" \in BuildStages
    BY DEF BuildStages
  <2>3. p \in Plans /\ Fates!StartBuild(p)
    BY <2>1, <2>2, BuildStepTells DEF Fates!StartBuild, Shown
  <2> QED
    BY <2>3
<1>3. CASE BuildEnds
  <2>1. PICK p \in NextToBuild \cap Rcc, outcome \in BuildOutcomes \ {"NotNeeded"} :
            build_states[p] = "InProgress" /\ BuildStep(p, outcome)
    BY <1>3 DEF BuildEnds
  <2>2. outcome \in BuildStages /\ outcome \in Fates!Final \ {"NotNeeded"}
    BY <2>1 DEF BuildStages, BuildOutcomes, Fates!Final
  <2>3. p \in Plans /\ Fates!EndBuild(p)
    BY <2>1, <2>2, BuildStepTells DEF Fates!EndBuild, Shown
  <2> QED
    BY <2>3
<1> QED
  BY <1>1, <1>2, <1>3

LEMMA FatesStep ==
    ASSUME IInv, FatesFit, [Next]_vars
    PROVE  [Fates!FatesNext]_(Fates!fateVars)
<1>1. CASE StaysOn
  BY <1>1, StaysTellsNothing DEF Fates!fateVars, Shown, Given
<1>2. CASE MovesOn
  BY <1>2, PhaseTells DEF Fates!FatesNext, Fates!fateVars, Shown, Given
<1>3. CASE WriteSetupFailures
  BY <1>3, FailuresAreTold DEF Fates!FatesNext
<1>4. CASE ReporterNew
  BY <1>4, QueueIsTold DEF Fates!FatesNext
<1>5. CASE BuildNotNeeded \/ BuildStarts \/ BuildEnds
  BY <1>5, BuildsAreTold DEF Fates!FatesNext
<1> QED
  BY <1>1, <1>2, <1>3, <1>4, <1>5, KindsOfSteps

\* The sections tell of every plan one history that is never revised, and the
\* plans that are scheduled are those it calls ready.
THEOREM FatesAreImplemented == Spec => ImplementsFates
<1>1. Init => Fates!FatesInit
  BY FatesInitially
<1>2. IInv /\ FatesFit /\ [Next]_vars => [Fates!FatesNext]_(Fates!fateVars)
  BY FatesStep
<1>3. Init => FatesFit
  BY FatesFitInit
<1>4. IInv /\ FatesFit /\ [Next]_vars => FatesFit'
  BY FatesFitStep
<1> QED
  BY <1>1, <1>2, <1>3, <1>4, AlwaysIInv, PTL
  DEF Spec, ImplementsFates, Fates!FatesSpec

-----------------------------------------------------------------------------
(* The setup goes forward.                                                 *)

\* What is left to do in the stage under way.
ToDo ==
    (Untreated \X {"treat"})
        \cup ({p \in Unbuilt : build_states[p] = "Pending"} \X {"start"})
        \cup (Unbuilt \X {"finish"})

(***************************************************************************)
(* No step of the setup is taken in vain: it ends the program, or goes to  *)
(* the next stage, or leaves less to do in this one.                       *)
(***************************************************************************)
Progress ==
    \/ Go /\ ~Go'
    \/ at' = at + 1 /\ at' \in 1 .. Len(Stages)
    \/ at' = at /\ ToDo' \subseteq ToDo /\ ToDo' # ToDo

LEMMA LessToTreat ==
    ASSUME UNCHANGED <<at, build_states>>,
           NEW p \in Untreated, p \notin Untreated', Untreated' \subseteq Untreated
    PROVE  Progress
<1>1. Unbuilt' = Unbuilt
  BY DEF Unbuilt
<1>2. ToDo' \subseteq ToDo
  BY <1>1 DEF ToDo
<1>3. <<p, "treat">> \in ToDo
  BY DEF ToDo
<1>4. <<p, "treat">> \notin ToDo'
  BY DEF ToDo
<1> QED
  BY <1>2, <1>3, <1>4 DEF Progress

LEMMA UnitsProgress ==
    ASSUME IInv, NEW p \in Plans, UnitSucceeds(p) \/ UnitFails(p)
    PROVE  Progress
<1>1. p \in Untreated /\ p \in Concerned /\ UNCHANGED <<setting, at,
                                                        build_states>>
  BY DEF UnitSucceeds, UnitFails, Drop, Untreated
<1>2. p \in Unit(p)
  BY <1>1, UnitsPartition DEF IInv
<1>3. CASE UnitSucceeds(p)
  <2>1. Concerned' = Concerned /\ treated' = treated \cup Unit(p)
    <3>1. surviving' = surviving \ {}
      BY <1>3 DEF UnitSucceeds
    <3> QED
      BY <1>1, <1>3, <3>1, ConcernedShrinks DEF UnitSucceeds
  <2> QED
    BY <1>1, <1>2, <2>1, LessToTreat DEF Untreated
<1>4. CASE UnitFails(p)
  <2>1. Concerned' = Concerned \ Unit(p) /\ treated' = treated
    BY <1>1, <1>4, ConcernedShrinks DEF UnitFails, Drop
  <2> QED
    BY <1>1, <1>2, <2>1, LessToTreat DEF Untreated
<1> QED
  BY <1>3, <1>4

LEMMA AllFailProgress ==
    ASSUME IInv, AllFail
    PROVE  Progress
<1>1. UNCHANGED <<setting, at, build_states>> /\ surviving' = surviving \ Concerned
  BY DEF AllFail, Drop
<1>2. Concerned' = {}
  BY <1>1, ConcernedShrinks
<1>3. PICK p : p \in Untreated
  BY DEF AllFail
<1> QED
  BY <1>1, <1>2, <1>3, LessToTreat DEF Untreated

LEMMA BuildsProgress ==
    ASSUME IInv, BuildNotNeeded \/ BuildStarts \/ BuildEnds
    PROVE  Progress
<1>1. /\ UNCHANGED <<setting, at, surviving, treated, before>>
      /\ stage = "build"
  BY DEF BuildNotNeeded, BuildStarts, BuildEnds, BuildStep
<1>2. Untreated' = Untreated
  <2>1. Concerned' = Concerned \ {}
    BY <1>1, ConcernedShrinks
  <2> QED
    BY <1>1, <2>1 DEF Untreated
<1>3. ASSUME NEW p \in Unbuilt, NEW value,
             build_states' = [build_states EXCEPT ![p] = value],
             value \in BuildOutcomes \/ (value = "InProgress" /\ build_states[p] = "Pending")
      PROVE  Progress
  <2>1. p \in DOMAIN build_states /\ DOMAIN build_states' = DOMAIN build_states
    BY <1>3 DEF Unbuilt
  <2>2. Unbuilt' = IF value = "InProgress" THEN Unbuilt ELSE Unbuilt \ {p}
    BY <1>3, <2>1 DEF Unbuilt, BuildOutcomes
  <2>3. \A q \in Unbuilt' : build_states'[q] = "Pending" =>
            q \in Unbuilt /\ build_states[q] = "Pending" /\ q # p
    BY <1>3, <2>1 DEF Unbuilt, BuildOutcomes
  <2>4. ToDo' \subseteq ToDo
    BY <1>2, <2>2, <2>3 DEF ToDo
  <2>5. ToDo' # ToDo
    <3>1. CASE value = "InProgress"
      <4>1. <<p, "start">> \in ToDo
        BY <1>3, <3>1 DEF ToDo, BuildOutcomes
      <4>2. <<p, "start">> \notin ToDo'
        BY <2>3 DEF ToDo
      <4> QED
        BY <4>1, <4>2
    <3>2. CASE value # "InProgress"
      <4>1. <<p, "finish">> \in ToDo
        BY <1>3 DEF ToDo
      <4>2. <<p, "finish">> \notin ToDo'
        BY <2>2, <3>2 DEF ToDo
      <4> QED
        BY <4>1, <4>2
    <3> QED
      BY <3>1, <3>2
  <2> QED
    BY <1>1, <2>4, <2>5 DEF Progress
<1>4. NextToBuild \subseteq Unbuilt /\ "NotNeeded" \in BuildOutcomes
  BY DEF NextToBuild, BuildOutcomes
<1> QED
  BY <1>3, <1>4 DEF BuildNotNeeded, BuildStarts, BuildEnds, BuildStep, Update

LEMMA StepsProgress ==
    ASSUME IInv, Step
    PROVE  Progress
<1>1. CASE Advance /\ stage # "schedule" /\ UNCHANGED setting
  BY <1>1, Advancing DEF Advance, Progress, IInv
<1>2. CASE Go /\ (End("ok") \/ End("error"))
  BY <1>2 DEF Go, End, Progress
<1>3. CASE Check \/ Prepare \/ Sweep \/ AwaitGracePeriod \/ BuildsOver
  BY <1>1, <1>2, <1>3
  DEF Check, Prepare, Sweep, AwaitGracePeriod, BuildsOver, Succeeds
<1>4. CASE \E p \in Plans : UnitSucceeds(p) \/ UnitFails(p)
  BY <1>4, UnitsProgress
<1>5. CASE AllFail
  BY <1>5, AllFailProgress
<1>6. CASE StageOver
  <2>1. stage # "schedule"
    BY <1>6 DEF StageOver, Leave, PerPlan, PerSession, AllTogether, Permissions,
        Commands
  <2> QED
    BY <1>1, <1>6, <2>1 DEF StageOver, Leave
<1>7. CASE UnitCancelled \/ WriteFails \/ BuildCancelled
  BY <1>2, <1>7 DEF UnitCancelled, WriteFails, BuildCancelled
<1>8. CASE WritePhase \/ WriteSetupFailures \/ ReporterNew
  <2>1. stage # "schedule"
    BY <1>8 DEF WritePhase, WriteSetupFailures, ReporterNew, Phases
  <2> QED
    BY <1>1, <1>8, <2>1 DEF WritePhase, WriteSetupFailures, ReporterNew
<1>9. CASE BuildNotNeeded \/ BuildStarts \/ BuildEnds
  BY <1>9, BuildsProgress
<1> QED
  BY <1>3, <1>4, <1>5, <1>6, <1>7, <1>8, <1>9 DEF Step

\* A cancellation by itself changes nothing of what is left to do.
LEMMA OthersWait ==
    ASSUME [Next]_vars, ~Step
    PROVE  UNCHANGED <<at, ended, ToDo>>
<1>1. UNCHANGED <<setting, at, ended, surviving, treated, before, build_states>>
  BY DEF Next, Cancel, vars
<1>2. Concerned' = Concerned
  <2>1. surviving' = surviving \ {}
    BY <1>1
  <2>2. Concerned' = Concerned \ {}
    BY <1>1, <2>1, ConcernedShrinks
  <2> QED
    BY <2>2
<1> QED
  BY <1>1, <1>2 DEF ToDo, Untreated, Unbuilt

\* Whatever fails, every step of the setup brings its end nearer, and nothing
\* else moves it: with finitely many plans it ends if it goes on.
THEOREM SetupGoesForward ==
    Spec => [][/\ Step => Progress
               /\ ~Step => UNCHANGED <<at, ended, ToDo>>]_vars
<1>1. IInv /\ [Next]_vars => /\ Step => Progress
                             /\ ~Step => UNCHANGED <<at, ended, ToDo>>
  BY StepsProgress, OthersWait
<1> QED
  BY <1>1, AlwaysIInv, PTL DEF Spec
=============================================================================
