------------------------ MODULE PlanScheduler_proofs ------------------------
(***************************************************************************)
(* Proofs about PlanScheduler for any number of groups and plans, and any  *)
(* bounds.                                                                 *)
(***************************************************************************)
EXTENDS PlanScheduler, Integers, TLAPS

\* A group has a task if a plan of it survived; todo and awaited belong to a
\* cycle, and what is at work is what its group awaits.
TasksFit ==
    /\ \A g \in Groups :
        /\ task[g] # "none" => g \in Spawned
        /\ todo[g] \subseteq Members(g)
        /\ awaited[g] \in Members(g) \cup {None}
        /\ awaited[g] \notin todo[g]
        /\ task[g] # "cycle" => todo[g] = {} /\ awaited[g] = None
    /\ \A p \in active : p \in surviving /\ awaited[Group[p]] = p

\* A plan has had one run in every cycle of its group, but for the present one
\* if it has yet to run or runs now.
RunsFit ==
    /\ \A g \in Groups : cycles[g] =< ticks[g]
    /\ \A p \in surviving :
        completed[p] + (IF p \in active \cup todo[Group[p]] THEN 1 ELSE 0)
            = cycles[Group[p]]

\* Who is after a plan that has yet to run, or that runs, has yet to run.
TurnsFit ==
    \A p, q \in surviving :
        /\ Group[p] = Group[q] /\ Position[p] < Position[q]
        /\ p \in todo[Group[p]] \/ awaited[Group[p]] = p
        => q \in todo[Group[q]]

\* The main thread goes on when all tasks have ended.
MainFits ==
    /\ main \in {"dropping", "ended"} =>
        /\ \A g \in Groups : task[g] \in {"none", "returned", "panicked"}
        /\ cleaner = "returned"
    /\ NothingOutlives

IInv ==
    /\ TypeOK
    /\ TasksFit
    /\ RunsFit
    /\ TurnsFit
    /\ MainFits

-----------------------------------------------------------------------------
(* Steps *)

\* The steps that do not concern the groups.
OtherStep ==
    \/ Cancel \/ CleanTick \/ StartCleanup \/ CleanupEnds \/ CleanerSeesCancel
    \/ MainStep \/ UNCHANGED vars

LEMMA Steps ==
    [Next]_vars <=>
        \/ OtherStep
        \/ \E g \in Groups :
            \/ Tick(g) \/ StartTask(g) \/ BeginCycle(g) \/ RunPlan(g)
            \/ Awaited(g) \/ EndCycle(g) \/ SeeCancel(g)
        \/ \E p \in Plans : PlanEnds(p)
BY DEF Next, TaskStep, OtherStep, Ended

LEMMA OtherSteps == OtherStep => UNCHANGED <<surviving, groupVars>>
BY DEF OtherStep, Cancel, CleanTick, StartCleanup, CleanupEnds, CleanerSeesCancel,
    MainStep, MainSeesCancel, JoinAll, DropRuntime, vars, groupVars

LEMMA SurvivingStays == [Next]_vars => surviving' = surviving
BY Steps, OtherSteps
DEF Tick, StartTask, BeginCycle, RunPlan, Awaited, EndCycle, SeeCancel, PlanEnds

-----------------------------------------------------------------------------
(* Types *)

LEMMA InvInit == Init => IInv
<1> SUFFICES ASSUME Init PROVE IInv
  OBVIOUS
<1> USE PlansAreGrouped, BoundsAreNumbers DEF Init
<1>1. TypeOK
  <2>1. 0 \in 0 .. MaxTicks /\ 0 \in 0 .. MaxCleanups
    OBVIOUS
  <2> QED
    BY <2>1 DEF TypeOK
<1>2. TasksFit
  BY NoneIsNoPlan DEF TasksFit
<1>3. RunsFit
  BY DEF RunsFit
<1>4. TurnsFit
  BY NoneIsNoPlan DEF TurnsFit
<1>5. MainFits
  BY DEF MainFits, NothingOutlives
<1> QED
  BY <1>1, <1>2, <1>3, <1>4, <1>5 DEF IInv

\* A plan that is at work has not had the run of this cycle.
LEMMA RunsAreBounded ==
    ASSUME TypeOK, TasksFit, RunsFit, NEW p \in active
    PROVE  completed[p] + 1 \in 0 .. MaxTicks
<1>1. p \in surviving /\ p \in Plans /\ Group[p] \in Groups
  BY PlansAreGrouped DEF TasksFit, TypeOK
<1>2. completed[p] + 1 = cycles[Group[p]]
  BY <1>1 DEF RunsFit
<1> QED
  BY <1>1, <1>2 DEF TypeOK

LEMMA TypeStep == TypeOK /\ TasksFit /\ RunsFit /\ [Next]_vars => TypeOK'
<1> SUFFICES ASSUME TypeOK, TasksFit, RunsFit, [Next]_vars PROVE TypeOK'
  OBVIOUS
<1> USE BoundsAreNumbers DEF TypeOK, cleanVars, groupVars
<1>1. CASE OtherStep
  <2>1. CASE CleanTick \/ StartCleanup \/ CleanupEnds \/ CleanerSeesCancel
    BY <2>1 DEF CleanTick, StartCleanup, CleanupEnds, CleanerSeesCancel
  <2>2. CASE Cancel \/ MainStep \/ UNCHANGED vars
    BY <2>2 DEF Cancel, MainStep, MainSeesCancel, JoinAll, DropRuntime, vars
  <2> QED
    BY <1>1, <2>1, <2>2 DEF OtherStep
<1>2. ASSUME NEW g \in Groups, Tick(g)
      PROVE  TypeOK'
  BY <1>2 DEF Tick
<1>3. ASSUME NEW g \in Groups,
             StartTask(g) \/ EndCycle(g) \/ SeeCancel(g) \/ Awaited(g)
      PROVE  TypeOK'
  BY <1>3 DEF StartTask, EndCycle, SeeCancel, Awaited
<1>4. ASSUME NEW g \in Groups, BeginCycle(g)
      PROVE  TypeOK'
  BY <1>4 DEF BeginCycle, Members
<1>5. ASSUME NEW g \in Groups, RunPlan(g)
      PROVE  TypeOK'
  BY <1>5 DEF RunPlan, First
<1>6. ASSUME NEW p \in Plans, PlanEnds(p)
      PROVE  TypeOK'
  BY <1>6, RunsAreBounded DEF PlanEnds
<1> QED
  BY <1>1, <1>2, <1>3, <1>4, <1>5, <1>6, Steps

-----------------------------------------------------------------------------
(* Tasks, runs and turns *)

LEMMA TasksStep == TypeOK /\ TasksFit /\ [Next]_vars => TasksFit'
<1> SUFFICES ASSUME TypeOK, TasksFit, [Next]_vars PROVE TasksFit'
  OBVIOUS
<1> USE PlansAreGrouped, NoneIsNoPlan, SurvivingStays
    DEF TypeOK, TasksFit, Members, Spawned
<1>1. CASE OtherStep
  BY <1>1, OtherSteps DEF groupVars
<1>2. ASSUME NEW g \in Groups,
             Tick(g) \/ StartTask(g) \/ EndCycle(g) \/ SeeCancel(g)
      PROVE  TasksFit'
  BY <1>2 DEF Tick, StartTask, EndCycle, SeeCancel
<1>3. ASSUME NEW g \in Groups, BeginCycle(g)
      PROVE  TasksFit'
  BY <1>3 DEF BeginCycle
<1>4. ASSUME NEW g \in Groups, RunPlan(g)
      PROVE  TasksFit'
  BY <1>4 DEF RunPlan, First
<1>5. ASSUME NEW g \in Groups, Awaited(g)
      PROVE  TasksFit'
  BY <1>5 DEF Awaited
<1>6. ASSUME NEW p \in Plans, PlanEnds(p)
      PROVE  TasksFit'
  BY <1>6 DEF PlanEnds
<1> QED
  BY <1>1, <1>2, <1>3, <1>4, <1>5, <1>6, Steps

LEMMA RunsStep == TypeOK /\ TasksFit /\ RunsFit /\ [Next]_vars => RunsFit'
<1> SUFFICES ASSUME TypeOK, TasksFit, RunsFit, [Next]_vars PROVE RunsFit'
  OBVIOUS
<1> USE PlansAreGrouped, SurvivingStays DEF TypeOK, TasksFit, RunsFit, Members
<1>1. CASE OtherStep
  BY <1>1, OtherSteps DEF groupVars
<1>2. ASSUME NEW g \in Groups, Tick(g)
      PROVE  RunsFit'
  BY <1>2 DEF Tick
<1>3. ASSUME NEW g \in Groups,
             StartTask(g) \/ EndCycle(g) \/ SeeCancel(g) \/ Awaited(g)
      PROVE  RunsFit'
  BY <1>3 DEF StartTask, EndCycle, SeeCancel, Awaited
<1>4. ASSUME NEW g \in Groups, BeginCycle(g)
      PROVE  RunsFit'
  <2>1. todo[g] = {} /\ awaited[g] = None
    BY <1>4 DEF BeginCycle
  <2>2. \A p \in surviving : Group[p] = g => p \notin active
    BY <2>1, NoneIsNoPlan
  <2> QED
    BY <1>4, <2>1, <2>2 DEF BeginCycle
<1>5. ASSUME NEW g \in Groups, RunPlan(g)
      PROVE  RunsFit'
  BY <1>5 DEF RunPlan, First
<1>6. ASSUME NEW p \in Plans, PlanEnds(p)
      PROVE  RunsFit'
  BY <1>6 DEF PlanEnds
<1> QED
  BY <1>1, <1>2, <1>3, <1>4, <1>5, <1>6, Steps

LEMMA TurnsStep == TypeOK /\ TasksFit /\ TurnsFit /\ [Next]_vars => TurnsFit'
<1> SUFFICES ASSUME TypeOK, TasksFit, TurnsFit, [Next]_vars PROVE TurnsFit'
  OBVIOUS
<1> USE PlansAreGrouped, NoneIsNoPlan, SurvivingStays
    DEF TypeOK, TasksFit, TurnsFit, Members
<1>1. CASE OtherStep
  BY <1>1, OtherSteps DEF groupVars
<1>2. ASSUME NEW g \in Groups,
             \/ Tick(g) \/ StartTask(g) \/ EndCycle(g) \/ SeeCancel(g) \/ Awaited(g)
      PROVE  TurnsFit'
  BY <1>2 DEF Tick, StartTask, EndCycle, SeeCancel, Awaited
<1>3. ASSUME NEW g \in Groups, BeginCycle(g)
      PROVE  TurnsFit'
  BY <1>3 DEF BeginCycle
<1>4. ASSUME NEW g \in Groups, RunPlan(g)
      PROVE  TurnsFit'
  BY <1>4 DEF RunPlan, First
<1>5. ASSUME NEW p \in Plans, PlanEnds(p)
      PROVE  TurnsFit'
  BY <1>5 DEF PlanEnds
<1> QED
  BY <1>1, <1>2, <1>3, <1>4, <1>5, Steps

LEMMA MainStays == TypeOK /\ TasksFit /\ MainFits /\ [Next]_vars => MainFits'
<1> SUFFICES ASSUME TypeOK, TasksFit, MainFits, [Next]_vars PROVE MainFits'
  OBVIOUS
<1> USE DEF TypeOK, MainFits, NothingOutlives, cleanVars, groupVars
<1>1. CASE OtherStep /\ ~JoinAll
  BY <1>1 DEF OtherStep, Cancel, CleanTick, StartCleanup, CleanupEnds,
      CleanerSeesCancel, MainStep, MainSeesCancel, DropRuntime, vars
<1>2. CASE JoinAll
  BY <1>2 DEF JoinAll, TasksFit
<1>3. ASSUME NEW g \in Groups,
             \/ Tick(g) \/ StartTask(g) \/ BeginCycle(g) \/ RunPlan(g)
             \/ Awaited(g) \/ EndCycle(g) \/ SeeCancel(g)
      PROVE  MainFits'
  BY <1>3 DEF Tick, StartTask, BeginCycle, RunPlan, Awaited, EndCycle, SeeCancel
<1>4. ASSUME NEW p \in Plans, PlanEnds(p)
      PROVE  MainFits'
  BY <1>4 DEF PlanEnds
<1> QED
  BY <1>1, <1>2, <1>3, <1>4, Steps

-----------------------------------------------------------------------------
(* Theorems *)

\* The invariant is established, and kept by every step.
THEOREM Invariance == Spec => []IInv
<1>1. Init => IInv
  BY InvInit
<1>2. IInv /\ [Next]_vars => IInv'
  BY TypeStep, TasksStep, RunsStep, TurnsStep, MainStays DEF IInv
<1> QED
  BY <1>1, <1>2, PTL DEF Spec

\* Every variable keeps its type; no plan has more runs than there were ticks.
THEOREM Typing == Spec => []TypeOK
<1>1. IInv => TypeOK
  BY DEF IInv
<1> QED
  BY <1>1, Invariance, PTL

\* Two plans of one group never run at the same time.
THEOREM Sequential == Spec => []OneAtATime
<1>1. IInv => OneAtATime
  BY DEF IInv, TasksFit, OneAtATime
<1> QED
  BY <1>1, Invariance, PTL

\* The plans of a group run in the order of their positions, cycle by cycle.
THEOREM InOrder == Spec => []TakeTurns
<1>1. IInv => TakeTurns
  <2> SUFFICES ASSUME IInv, NEW p \in surviving, NEW q \in surviving,
                      Group[p] = Group[q], Position[p] < Position[q]
               PROVE  /\ completed[q] =< completed[p]
                      /\ completed[p] =< completed[q] + 1
                      /\ q \in active => completed[p] = completed[q] + 1
    BY DEF TakeTurns
  <2>1. p \in Plans /\ q \in Plans /\ Group[p] \in Groups
    BY PlansAreGrouped DEF IInv, TypeOK
  <2>2. Position[p] \in Nat /\ Position[q] \in Nat /\ p # q
    BY <2>1, PlansAreGrouped
  <2>3. /\ completed[p] \in Nat /\ completed[q] \in Nat
        /\ cycles[Group[p]] \in Nat
    BY <2>1, BoundsAreNumbers DEF IInv, TypeOK
  <2>4. p \in active \cup todo[Group[p]] => q \in todo[Group[p]]
    BY <2>1 DEF IInv, TasksFit, TurnsFit
  <2>5. q \in active => p \notin active /\ q \notin todo[Group[p]]
    BY <2>1, <2>2 DEF IInv, TasksFit
  <2>6. \A r \in {p, q} :
            completed[r] + (IF r \in active \cup todo[Group[p]] THEN 1 ELSE 0)
                = cycles[Group[p]]
    BY DEF IInv, RunsFit
  <2> QED
    BY <2>3, <2>4, <2>5, <2>6
<1> QED
  BY <1>1, Invariance, PTL

\* No run begins before its tick.
THEOREM NotEarly == Spec => []NeverAhead
<1>1. IInv => NeverAhead
  <2> SUFFICES ASSUME IInv, NEW p \in surviving
               PROVE  completed[p] + (IF p \in active THEN 1 ELSE 0)
                        =< ticks[Group[p]]
    BY DEF NeverAhead
  <2>1. p \in Plans /\ Group[p] \in Groups
    BY PlansAreGrouped DEF IInv, TypeOK
  <2>2. /\ completed[p] \in Nat /\ cycles[Group[p]] \in Nat
        /\ ticks[Group[p]] \in Nat
    BY <2>1, BoundsAreNumbers DEF IInv, TypeOK
  <2> QED
    BY <2>1, <2>2 DEF IInv, RunsFit
<1> QED
  BY <1>1, Invariance, PTL

\* When the phase is over, no plan and no clean-up is still at work.
THEOREM NoneOutlives == Spec => []NothingOutlives
<1>1. IInv => NothingOutlives
  BY DEF IInv, MainFits
<1> QED
  BY <1>1, Invariance, PTL

-----------------------------------------------------------------------------
(* The plan groups implement Rota. *)

\* A plan of a group that has a companion to run yet, or now, is in a cycle.
LEMMA TurnIsNext ==
    ASSUME IInv, NEW g \in Groups, RunPlan(g),
           NEW p \in First(g), active' = active \cup {p}
    PROVE  Turns!RunBegins(p)
<1>1. p \in todo[g] /\ p \in surviving /\ p \in Plans /\ Group[p] = g
  BY DEF First, IInv, TypeOK, TasksFit, Members
<1>2. \A q \in surviving : Group[q] = g => q \notin active
  BY NoneIsNoPlan DEF RunPlan, IInv, TasksFit, TypeOK
<1>3. Turns!Companions(p) \cap active = {}
  BY <1>1, <1>2 DEF Turns!Companions
<1>4. completed[p] + 1 = cycles[g] /\ cycles[g] =< ticks[g]
      /\ completed[p] \in Nat /\ cycles[g] \in Nat /\ ticks[g] \in Nat
  <2>1. completed[p] + (IF p \in active \cup todo[Group[p]] THEN 1 ELSE 0)
            = cycles[Group[p]]
    BY <1>1 DEF IInv, RunsFit
  <2>2. cycles[g] =< ticks[g]
    BY DEF IInv, RunsFit
  <2> QED
    BY <1>1, <2>1, <2>2, BoundsAreNumbers DEF IInv, TypeOK
<1>5. ASSUME NEW q \in Turns!Companions(p)
      PROVE  completed[q]
                = completed[p] + (IF Position[q] < Position[p] THEN 1 ELSE 0)
  <2>1. /\ q \in surviving /\ q \in Plans /\ Group[q] = g /\ q \notin active
        /\ completed[q] \in Nat /\ Position[q] \in Nat /\ Position[p] \in Nat
    BY <1>1, <1>2, <1>5, BoundsAreNumbers, PlansAreGrouped
    DEF Turns!Companions, IInv, TypeOK
  <2>2. completed[q] + (IF q \in todo[g] THEN 1 ELSE 0) = cycles[g]
    <3>1. completed[q] + (IF q \in active \cup todo[Group[q]] THEN 1 ELSE 0)
              = cycles[Group[q]]
      BY <2>1 DEF IInv, RunsFit
    <3> QED
      BY <2>1, <3>1
  <2>3. q \in todo[g] <=> ~(Position[q] < Position[p])
    <3>1. q \in todo[g] => Position[p] =< Position[q]
      BY DEF First
    <3>2. Position[p] < Position[q] => q \in todo[g]
      BY <1>1, <2>1 DEF IInv, TurnsFit
    <3>3. Position[p] = Position[q] => p = q
      BY <1>1, <2>1, PlansAreGrouped
    <3> QED
      BY <1>1, <2>1, <3>1, <3>2, <3>3
  <2> QED
    BY <1>4, <2>1, <2>2, <2>3
<1>6. completed[p] < ticks[Group[p]]
  BY <1>1, <1>4
<1>7. UNCHANGED <<surviving, ticks, completed>>
  BY DEF RunPlan
<1> QED
  BY <1>1, <1>3, <1>5, <1>6, <1>7 DEF Turns!RunBegins, Turns!IsTurnOf

LEMMA RotaStep ==
    ASSUME IInv, [Next]_vars
    PROVE  [Turns!RotaNext]_(Turns!rotaVars)
<1> USE DEF Turns!RotaNext, Turns!rotaVars
<1>1. CASE OtherStep
  BY <1>1, OtherSteps DEF groupVars
<1>2. ASSUME NEW g \in Groups, Tick(g)
      PROVE  Turns!GroupTicks(g)
  BY <1>2 DEF Tick, Turns!GroupTicks
<1>3. ASSUME NEW g \in Groups,
             \/ StartTask(g) \/ BeginCycle(g) \/ Awaited(g) \/ EndCycle(g)
             \/ SeeCancel(g)
      PROVE  UNCHANGED Turns!rotaVars
  BY <1>3 DEF StartTask, BeginCycle, Awaited, EndCycle, SeeCancel
<1>4. ASSUME NEW g \in Groups, RunPlan(g)
      PROVE  \E p \in Plans : Turns!RunBegins(p)
  <2>1. PICK p \in First(g) : active' = active \cup {p}
    BY <1>4 DEF RunPlan
  <2>2. p \in Plans
    BY DEF First, IInv, TypeOK
  <2> QED
    BY <1>4, <2>1, <2>2, TurnIsNext
<1>5. ASSUME NEW p \in Plans, PlanEnds(p)
      PROVE  Turns!RunEnds(p)
  BY <1>5 DEF PlanEnds, Turns!RunEnds
<1> QED
  BY <1>1, <1>2, <1>3, <1>4, <1>5, Steps

\* scheduler.rs serves the ticks of all groups turn by turn: a plan runs for a
\* tick of its group, when it is its turn, and no other plan of the group runs.
THEOREM RotaIsImplemented == Spec => ImplementsRota
<1>1. Init => Turns!RotaInit
  BY DEF Init, Turns!RotaInit
<1>2. IInv /\ [Next]_vars => [Turns!RotaNext]_(Turns!rotaVars)
  BY RotaStep
<1> QED
  BY <1>1, <1>2, Invariance, PTL DEF Spec, ImplementsRota, Turns!RotaSpec

-----------------------------------------------------------------------------
(* What cannot begin any more. *)

\* No plan is at work, and nothing more is put to work.
NothingBegins ==
    main \in {"dropping", "ended"} =>
        active = {} /\ active' = {} /\ cleanups' =< cleanups

(***************************************************************************)
(* run_plans_and_cleanup: when its tasks are joined and its runtime is     *)
(* dropped, it waits for clean-ups alone: every plan is over, and nothing  *)
(* is put to work meanwhile.                                               *)
(***************************************************************************)
THEOREM DropOnlyWaits == Spec => [][NothingBegins]_vars
<1>1. IInv /\ [Next]_vars => NothingBegins
  <2> SUFFICES ASSUME IInv, [Next]_vars, main \in {"dropping", "ended"}
               PROVE  active = {} /\ active' = {} /\ cleanups' =< cleanups
    BY DEF NothingBegins
  <2>1. /\ \A g \in Groups : task[g] \in {"none", "returned", "panicked"}
        /\ cleaner = "returned"
        /\ cleanups \in Nat
    BY BoundsAreNumbers DEF IInv, MainFits, TypeOK
  <2>a. active = {}
    <3>1. SUFFICES ASSUME NEW p \in active PROVE FALSE
      OBVIOUS
    <3>2. p \in Plans /\ Group[p] \in Groups /\ awaited[Group[p]] = p
      BY PlansAreGrouped DEF IInv, TypeOK, TasksFit
    <3>3. awaited[Group[p]] = None
      BY <2>1, <3>2 DEF IInv, TasksFit
    <3> QED
      BY <3>2, <3>3, NoneIsNoPlan
  <2>2. ASSUME OtherStep PROVE active' = {} /\ cleanups' =< cleanups
    BY <2>1, <2>a, <2>2 DEF OtherStep, Cancel, CleanTick, StartCleanup, CleanupEnds,
        CleanerSeesCancel, MainStep, MainSeesCancel, JoinAll, DropRuntime, vars,
        groupVars, cleanVars
  <2>3. ASSUME NEW g \in Groups,
               \/ Tick(g) \/ StartTask(g) \/ BeginCycle(g) \/ RunPlan(g)
               \/ Awaited(g) \/ EndCycle(g) \/ SeeCancel(g)
        PROVE  active' = {} /\ cleanups' =< cleanups
    BY <2>1, <2>a, <2>3 DEF Tick, StartTask, BeginCycle, RunPlan, Awaited, EndCycle,
        SeeCancel, cleanVars
  <2>4. ASSUME NEW p \in Plans, PlanEnds(p)
        PROVE  active' = {} /\ cleanups' =< cleanups
    BY <2>1, <2>a, <2>4 DEF PlanEnds, cleanVars
  <2> QED
    BY <2>a, <2>2, <2>3, <2>4, Steps
<1> QED
  BY <1>1, Invariance, PTL DEF Spec

\* Plans of a group with an interval of 0 have no run.
ZeroIntervalNeverRuns ==
    \A p \in surviving :
        Group[p] \in ZeroInterval => completed[p] = 0 /\ p \notin active

\* The task of such a group takes no tick.
ZeroTasksFit ==
    \A g \in ZeroInterval :
        task[g] \in {"none", "spawned", "panicked"} /\ cycles[g] = 0

(***************************************************************************)
(* compute_start_time_offset_millis: the task of a group whose interval is *)
(* 0 panics before its first cycle, and the plans of that group never run. *)
(***************************************************************************)
THEOREM ZeroIntervals == Spec => []ZeroIntervalNeverRuns
<1>1. Init => ZeroTasksFit
  BY PlansAreGrouped DEF Init, ZeroTasksFit
<1>2. IInv /\ ZeroTasksFit /\ [Next]_vars => ZeroTasksFit'
  <2> SUFFICES ASSUME IInv, ZeroTasksFit, [Next]_vars PROVE ZeroTasksFit'
    OBVIOUS
  <2> USE PlansAreGrouped DEF ZeroTasksFit, IInv, TypeOK
  <2>1. CASE OtherStep
    BY <2>1, OtherSteps DEF groupVars
  <2>2. ASSUME NEW g \in Groups,
               \/ Tick(g) \/ StartTask(g) \/ BeginCycle(g) \/ RunPlan(g)
               \/ Awaited(g) \/ EndCycle(g) \/ SeeCancel(g)
        PROVE  ZeroTasksFit'
    BY <2>2 DEF Tick, StartTask, BeginCycle, RunPlan, Awaited, EndCycle, SeeCancel,
        TasksFit
  <2>3. ASSUME NEW p \in Plans, PlanEnds(p)
        PROVE  ZeroTasksFit'
    BY <2>3 DEF PlanEnds
  <2> QED
    BY <2>1, <2>2, <2>3, Steps
<1>3. IInv /\ ZeroTasksFit => ZeroIntervalNeverRuns
  <2> SUFFICES ASSUME IInv, ZeroTasksFit, NEW p \in surviving,
                      Group[p] \in ZeroInterval
               PROVE  completed[p] = 0 /\ p \notin active
    BY DEF ZeroIntervalNeverRuns
  <2>1. completed[p] \in Nat
    BY BoundsAreNumbers DEF IInv, TypeOK
  <2>2. completed[p] + (IF p \in active \cup todo[Group[p]] THEN 1 ELSE 0) = 0
    BY DEF IInv, RunsFit, ZeroTasksFit
  <2> QED
    BY <2>1, <2>2
<1> QED
  BY <1>1, <1>2, <1>3, Invariance, PTL DEF Spec

-----------------------------------------------------------------------------
(***************************************************************************)
(* A group with a positive interval starts within one interval, but not at *)
(* once, at a multiple of the interval: compute_start_time_offset_millis.  *)
(***************************************************************************)
THEOREM StartsOnTheBeat ==
    ASSUME NEW now \in Nat, NEW interval \in Nat \ {0}
    PROVE  LET offset == compute_start_time_offset_millis(now, interval)
           IN  /\ offset \in 1 .. interval
               /\ (now + offset) % interval = 0
<1> DEFINE cycle == now \div interval
           rest == now % interval
<1>1. cycle \in Nat /\ rest \in 0 .. interval - 1
  OBVIOUS
<1>2. now = interval * cycle + rest
  OBVIOUS
<1>3. now + (interval - rest) = interval * (cycle + 1)
  BY <1>1, <1>2
<1>4. (interval * (cycle + 1)) % interval = 0
  BY <1>1
<1> QED
  BY <1>1, <1>3, <1>4 DEF compute_start_time_offset_millis
=============================================================================
