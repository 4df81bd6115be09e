------------------------- MODULE ProcessTree_proofs -------------------------
(***************************************************************************)
(* Proofs about ProcessTree for any number of processes, on both           *)
(* platforms.                                                              *)
(***************************************************************************)
EXTENDS ProcessTree, FiniteSetTheorems, TLAPS

\* No process of the tree is there before the child, and a process that was
\* listed or killed has been started: its id is not free for a new one.
IdsFit ==
    /\ parent[Child] = Unborn => running = {}
    /\ supervisor = "spawn" => parent[Child] = Unborn
    /\ \A c \in Procs :
        processes[c] # Unborn \/ c \in pids_in_tree => parent[c] # Unborn

BeforeKill == {"spawn", "wait", "interrupt", "grace", "list", "kill top"}

\* What is in pids_in_tree has been killed, the child first.
KillFits ==
    /\ pids_in_tree \cap running = {}
    /\ supervisor \in BeforeKill => pids_in_tree = {}
    /\ supervisor = "kill children" => Child \in pids_in_tree
    /\ TreeWasKilled => Closed(pids_in_tree)

\* A child that the list does not show is dead.
ListFits ==
    supervisor = "kill top" /\ processes[Child] = Unborn => Child \notin running

\* Whatever wait_for_child returns, the child is dead.
ChildIsDead == supervisor = "returned" => Child \notin running

IInv ==
    /\ TypeOK
    /\ IdsFit
    /\ KillFits
    /\ ListFits
    /\ OnlyTreeIsKilled
    /\ ChildIsDead

-----------------------------------------------------------------------------
(* Steps *)

\* The steps of the supervisor and of the environment that neither start nor
\* end a process, nor change what is known of them.
Quiet ==
    \/ Cancel \/ SpawnFails \/ ChildCompletes \/ Interrupt \/ ChildGivesIn
    \/ WaitFails \/ TimesOut \/ SeesCancel \/ TenSecondsPass
    \/ TopIsGone \/ NoMoreChildren \/ Reap \/ Terminated

LEMMA Steps ==
    [Next]_vars <=>
        \/ Quiet
        \/ UNCHANGED vars
        \/ \E p \in Procs :
            LeaveGroup(p) \/ ProcessExits(p) \/ \E c \in Procs : Fork(p, c)
        \/ Spawn \/ RefreshProcesses \/ KillTop
        \/ \E c \in Procs : KillChild(c)
BY DEF Next, ProcessStep, SupervisorStep, Quiet, ObeysInterrupt

LEMMA QuietStep == Quiet => UNCHANGED <<parent, running, processes, pids_in_tree>>
BY DEF Quiet, Cancel, SpawnFails, ChildCompletes, Interrupt, ChildGivesIn,
    WaitFails, TimesOut, SeesCancel, TenSecondsPass, TopIsGone, NoMoreChildren,
    Reap, Terminated, Finish, Leave, tree, vars

\* A process that has been started keeps a parent when others die.
LEMMA Orphans ==
    ASSUME TypeOK, NEW dead \in SUBSET Procs
    PROVE  /\ Orphaned(dead) \in [Procs -> Parents]
           /\ \A c \in Procs : parent[c] # Unborn => Orphaned(dead)[c] # Unborn
           /\ Orphaned(dead)[Child] = Unborn => parent[Child] = Unborn
BY ChildIsProcess, MarksAreNoProcesses DEF TypeOK, Orphaned, Parents

-----------------------------------------------------------------------------
(* Types *)

LEMMA TypeInit == Init => TypeOK
BY DEF Init, TypeOK, Nobody, Parents

LEMMA TypeStep == TypeOK /\ [Next]_vars => TypeOK'
<1> SUFFICES ASSUME TypeOK, [Next]_vars PROVE TypeOK'
  OBVIOUS
<1> USE DEF TypeOK
<1>1. CASE Quiet
  BY <1>1 DEF Quiet, Cancel, SpawnFails, ChildCompletes, Interrupt, ChildGivesIn,
      WaitFails, TimesOut, SeesCancel, TenSecondsPass, TopIsGone, NoMoreChildren,
      Reap, Terminated, Finish, Leave, Stop, AfterKill, tree, vars
<1>2. CASE UNCHANGED vars
  BY <1>2 DEF vars, tree
<1>3. ASSUME NEW p \in Procs, LeaveGroup(p)
      PROVE  TypeOK'
  BY <1>3 DEF LeaveGroup
<1>4. ASSUME NEW p \in Procs, ProcessExits(p)
      PROVE  TypeOK'
  BY <1>4, Orphans DEF ProcessExits, Dies
<1>5. ASSUME NEW p \in Procs, NEW c \in Procs, Fork(p, c)
      PROVE  TypeOK'
  BY <1>5 DEF Fork, Parents
<1>6. CASE Spawn
  BY <1>6, ChildIsProcess DEF Spawn, Parents
<1>7. CASE RefreshProcesses
  BY <1>7 DEF RefreshProcesses, Parents, tree
<1>8. CASE KillTop
  BY <1>8, ChildIsProcess, Orphans DEF KillTop, Dies
<1>9. ASSUME NEW c \in Procs, KillChild(c)
      PROVE  TypeOK'
  BY <1>9, Orphans DEF KillChild, Dies
<1> QED
  BY <1>1, <1>2, <1>3, <1>4, <1>5, <1>6, <1>7, <1>8, <1>9, Steps

-----------------------------------------------------------------------------
(* Process ids *)

LEMMA OthersInit ==
    Init => IdsFit /\ KillFits /\ ListFits /\ OnlyTreeIsKilled /\ ChildIsDead
BY ChildIsProcess
DEF Init, IdsFit, KillFits, ListFits, OnlyTreeIsKilled, ChildIsDead, Nobody,
    BeforeKill, TreeWasKilled

LEMMA IdsStep == TypeOK /\ IdsFit /\ KillFits /\ [Next]_vars => IdsFit'
<1> SUFFICES ASSUME TypeOK, IdsFit, KillFits, [Next]_vars PROVE IdsFit'
  OBVIOUS
<1> USE ChildIsProcess, MarksAreNoProcesses DEF IdsFit, TypeOK
<1>1. CASE Quiet
  <2>1. supervisor' # "spawn" \/ supervisor' = supervisor
    BY <1>1 DEF Quiet, Cancel, SpawnFails, ChildCompletes, Interrupt, ChildGivesIn,
        WaitFails, TimesOut, SeesCancel, TenSecondsPass, TopIsGone, NoMoreChildren,
        Reap, Terminated, Finish, Leave, Stop, AfterKill, vars
  <2> QED
    BY <1>1, <2>1, QuietStep
<1>2. CASE UNCHANGED vars
  BY <1>2 DEF vars, tree
<1>3. ASSUME NEW p \in Procs, LeaveGroup(p)
      PROVE  IdsFit'
  BY <1>3 DEF LeaveGroup
<1>4. ASSUME NEW p \in Procs, ProcessExits(p)
      PROVE  IdsFit'
  BY <1>4, Orphans DEF ProcessExits, Dies
<1>5. ASSUME NEW p \in Procs, NEW c \in Procs, Fork(p, c)
      PROVE  IdsFit'
  BY <1>5 DEF Fork
<1>6. CASE Spawn
  BY <1>6 DEF Spawn, KillFits, BeforeKill
<1>7. CASE RefreshProcesses
  BY <1>7 DEF RefreshProcesses, tree
<1>8. CASE KillTop
  BY <1>8, Orphans DEF KillTop, Dies
<1>9. ASSUME NEW c \in Procs, KillChild(c)
      PROVE  IdsFit'
  <2>1. processes[c] # Unborn
    BY <1>9 DEF KillChild
  <2> QED
    BY <1>9, <2>1, Orphans DEF KillChild, Dies
<1> QED
  BY <1>1, <1>2, <1>3, <1>4, <1>5, <1>6, <1>7, <1>8, <1>9, Steps

\* No process that was killed, and no child that is dead, runs again.
LEMMA NobodyRises ==
    ASSUME TypeOK, IdsFit, [Next]_vars, NEW c \in Procs,
           c \notin running, parent[c] # Unborn
    PROVE  c \notin running'
<1> USE DEF TypeOK
<1>1. ASSUME NEW p \in Procs, NEW d \in Procs, Fork(p, d)
      PROVE  c \notin running'
  BY <1>1 DEF Fork
<1>2. CASE Spawn
  BY <1>2, ChildIsProcess DEF Spawn, IdsFit
<1> QED
  BY <1>1, <1>2, Steps, QuietStep
  DEF vars, tree, LeaveGroup, ProcessExits, Dies, RefreshProcesses, KillTop,
      KillChild

-----------------------------------------------------------------------------
(* The kill *)

LEMMA KillStep ==
    /\ TypeOK /\ IdsFit /\ KillFits /\ [Next]_vars
    => KillFits'
<1> SUFFICES ASSUME TypeOK, IdsFit, KillFits, [Next]_vars PROVE KillFits'
  OBVIOUS
<1> USE ChildIsProcess, MarksAreNoProcesses
    DEF KillFits, BeforeKill, TreeWasKilled, Closed
<1>1. CASE Quiet /\ ~NoMoreChildren
  <2>1. UNCHANGED <<running, processes, pids_in_tree>>
    BY <1>1, QuietStep
  <2>2. \/ supervisor' = supervisor
        \/ pids_in_tree = {} /\ supervisor' # "kill children"
        \/ supervisor = "reap" /\ supervisor' = "returned"
    BY <1>1 DEF Quiet, Cancel, SpawnFails, ChildCompletes, Interrupt, ChildGivesIn,
        WaitFails, TimesOut, SeesCancel, TenSecondsPass, TopIsGone,
        Reap, Terminated, Finish, Leave, Stop, AfterKill, vars
  <2> QED
    BY <2>1, <2>2
<1>2. CASE NoMoreChildren
  BY <1>2 DEF NoMoreChildren, AfterKill, tree
<1>3. CASE UNCHANGED vars
  BY <1>3 DEF vars, tree
<1>4. ASSUME NEW p \in Procs, LeaveGroup(p) \/ ProcessExits(p)
      PROVE  KillFits'
  BY <1>4 DEF LeaveGroup, ProcessExits, Dies
<1>5. ASSUME NEW p \in Procs, NEW c \in Procs, Fork(p, c)
      PROVE  KillFits'
  <2>1. c \notin pids_in_tree
    BY <1>5 DEF Fork, IdsFit
  <2> QED
    BY <1>5, <2>1 DEF Fork
<1>6. CASE Spawn \/ RefreshProcesses \/ KillTop
  BY <1>6 DEF Spawn, RefreshProcesses, KillTop, Dies, tree
<1>7. ASSUME NEW c \in Procs, KillChild(c)
      PROVE  KillFits'
  BY <1>7 DEF KillChild, Dies
<1> QED
  BY <1>1, <1>2, <1>3, <1>4, <1>5, <1>6, <1>7, Steps

LEMMA OnlyTreeStep ==
    TypeOK /\ KillFits /\ OnlyTreeIsKilled /\ [Next]_vars => OnlyTreeIsKilled'
<1> SUFFICES ASSUME TypeOK, KillFits, OnlyTreeIsKilled, [Next]_vars,
                    NEW S \in SUBSET Procs, Closed(S)'
             PROVE  pids_in_tree' \subseteq S
  BY DEF OnlyTreeIsKilled
<1> USE DEF Closed, OnlyTreeIsKilled
<1>1. CASE UNCHANGED <<processes, pids_in_tree>>
  BY <1>1
<1>2. CASE RefreshProcesses
  BY <1>2 DEF RefreshProcesses, KillFits, BeforeKill
<1>3. CASE KillTop
  BY <1>3 DEF KillTop
<1>4. ASSUME NEW c \in Procs, KillChild(c)
      PROVE  pids_in_tree' \subseteq S
  BY <1>4 DEF KillChild
<1> QED
  BY <1>1, <1>2, <1>3, <1>4, Steps, QuietStep
  DEF vars, LeaveGroup, ProcessExits, Fork, Spawn

\* Whatever list is made: a child that is not in it does not run.
LEMMA ListStep == TypeOK /\ IdsFit /\ ListFits /\ [Next]_vars => ListFits'
<1> SUFFICES ASSUME TypeOK, IdsFit, ListFits, [Next]_vars,
                    supervisor' = "kill top", processes'[Child] = Unborn
             PROVE  Child \notin running'
  BY DEF ListFits
<1>1. CASE RefreshProcesses
  BY <1>1, ChildIsProcess DEF RefreshProcesses, Listed, tree, IdsFit
<1>2. CASE supervisor = "kill top" /\ processes[Child] = Unborn
  <2>1. Child \notin running
    BY <1>2 DEF ListFits
  <2>2. CASE parent[Child] # Unborn
    BY <2>1, <2>2, ChildIsProcess, NobodyRises
  <2>3. CASE parent[Child] = Unborn
    <3>1. running = {}
      BY <2>3 DEF IdsFit
    <3> QED
      BY <1>2, <3>1, Steps, QuietStep
      DEF vars, tree, LeaveGroup, ProcessExits, Dies, Fork, Spawn,
          RefreshProcesses, KillTop, KillChild
  <2> QED
    BY <2>2, <2>3
<1>3. \/ supervisor = "kill top" /\ processes'[Child] = processes[Child]
      \/ RefreshProcesses
  BY Steps
  DEF Quiet, Cancel, SpawnFails, ChildCompletes, Interrupt, ChildGivesIn,
      WaitFails, TimesOut, SeesCancel, TenSecondsPass, TopIsGone, NoMoreChildren,
      Reap, Terminated, Finish, Leave, Stop, AfterKill, vars, LeaveGroup,
      ProcessExits, Fork, Spawn, KillTop, KillChild
<1> QED
  BY <1>1, <1>2, <1>3

\* A supervision that returns leaves no child, and none comes later.
LEMMA ChildStep ==
    /\ TypeOK /\ IdsFit /\ KillFits /\ ListFits /\ ChildIsDead /\ [Next]_vars
    => ChildIsDead'
<1> SUFFICES ASSUME TypeOK, IdsFit, KillFits, ListFits, ChildIsDead, [Next]_vars,
                    supervisor' = "returned"
             PROVE  Child \notin running'
  BY DEF ChildIsDead
<1>1. \/ supervisor = "returned"
      \/ SpawnFails \/ ChildCompletes \/ ChildGivesIn \/ TopIsGone
      \/ NoMoreChildren \/ Reap
  BY Steps
  DEF Quiet, Cancel, Interrupt, WaitFails, TimesOut, SeesCancel, TenSecondsPass,
      Terminated, Leave, Stop, vars, LeaveGroup, ProcessExits, Fork, Spawn,
      RefreshProcesses, KillTop, KillChild
<1>2. Child \notin running
  <2>1. CASE supervisor = "returned"
    BY <2>1 DEF ChildIsDead
  <2>2. CASE SpawnFails
    BY <2>2 DEF SpawnFails, IdsFit
  <2>3. CASE ChildCompletes \/ ChildGivesIn \/ Reap
    BY <2>3 DEF ChildCompletes, ChildGivesIn, Reap
  <2>4. CASE TopIsGone
    BY <2>4 DEF TopIsGone, ListFits
  <2>5. CASE NoMoreChildren
    BY <2>5 DEF NoMoreChildren, KillFits
  <2> QED
    BY <1>1, <2>1, <2>2, <2>3, <2>4, <2>5
<1>3. CASE parent[Child] # Unborn
  BY <1>2, <1>3, ChildIsProcess, NobodyRises
<1>4. CASE parent[Child] = Unborn
  <2>1. running = {}
    BY <1>4 DEF IdsFit
  <2> QED
    BY <2>1, Steps, QuietStep
    DEF vars, tree, LeaveGroup, ProcessExits, Dies, Fork, Spawn, RefreshProcesses,
        KillTop, KillChild
<1> QED
  BY <1>3, <1>4

-----------------------------------------------------------------------------
(* Theorems *)

\* The invariant is established, and kept by every step.
THEOREM Invariance == Spec => []IInv
<1>1. Init => IInv
  BY TypeInit, OthersInit DEF IInv
<1>2. IInv /\ [Next]_vars => IInv'
  BY TypeStep, IdsStep, KillStep, OnlyTreeStep, ListStep, ChildStep DEF IInv
<1> QED
  BY <1>1, <1>2, PTL DEF Spec

\* Every variable keeps its type.
THEOREM Typing == Spec => []TypeOK
<1>1. IInv => TypeOK
  BY DEF IInv
<1> QED
  BY <1>1, Invariance, PTL

\* When kill_process_tree is over, all the list shows below the child is dead,
\* and no process that was started meanwhile has taken its id.
THEOREM KillsTheTree == Spec => []TreeIsKilled
<1>1. IInv => TreeIsKilled
  BY DEF IInv, KillFits, TreeIsKilled
<1> QED
  BY <1>1, Invariance, PTL

\* kill_process_tree kills nothing but the child and its descendants in the list.
THEOREM KillsNothingElse == Spec => []OnlyTreeIsKilled
<1>1. IInv => OnlyTreeIsKilled
  BY DEF IInv
<1> QED
  BY <1>1, Invariance, PTL

\* Whatever wait_for_child returns, the child does not run any more.
THEOREM ChildDies == Spec => []ChildIsDead
<1>1. IInv => ChildIsDead
  BY DEF IInv
<1> QED
  BY <1>1, Invariance, PTL

-----------------------------------------------------------------------------
(* The contract of Session::run                                            *)

\* The outcome is chosen when the wait ends, and the child is there until then.
OutcomeFits ==
    /\ supervisor \notin {"spawn", "returned"} => parent[Child] # Unborn
    /\ supervisor \in {"spawn", "wait"} <=> outcome = "none"
    /\ outcome = "Completed" => supervisor = "returned"
    /\ outcome = "Cancel" => cancelled

LEMMA OutcomeStep ==
    ASSUME TypeOK, OutcomeFits, [Next]_vars
    PROVE  OutcomeFits'
<1> USE ChildIsProcess, MarksAreNoProcesses DEF TypeOK, OutcomeFits
<1>1. CASE Quiet
  <2>1. parent' = parent
    BY <1>1, QuietStep
  <2>2. CASE Cancel \/ Terminated
    BY <2>1, <2>2 DEF Cancel, Terminated, vars
  <2>3. CASE SpawnFails \/ ChildCompletes \/ ChildGivesIn \/ Reap
    BY <2>1, <2>3 DEF SpawnFails, ChildCompletes, ChildGivesIn, Reap, Finish
  <2>4. CASE WaitFails \/ TimesOut \/ SeesCancel
    BY <2>1, <2>4 DEF WaitFails, TimesOut, SeesCancel, Leave, Stop
  <2>5. CASE Interrupt \/ TenSecondsPass
    BY <2>1, <2>5 DEF Interrupt, TenSecondsPass
  <2>6. CASE TopIsGone \/ NoMoreChildren
    BY <2>1, <2>6 DEF TopIsGone, NoMoreChildren, AfterKill
  <2> QED
    BY <1>1, <2>2, <2>3, <2>4, <2>5, <2>6 DEF Quiet
<1>2. CASE UNCHANGED vars
  BY <1>2 DEF vars, tree
<1>3. ASSUME NEW p \in Procs, LeaveGroup(p) \/ ProcessExits(p) PROVE OutcomeFits'
  <2>1. CASE LeaveGroup(p)
    BY <2>1 DEF LeaveGroup
  <2>2. CASE ProcessExits(p)
    <3>1. parent' = Orphaned({p}) /\ UNCHANGED <<cancelled, supervisor, outcome>>
      BY <2>2 DEF ProcessExits, Dies
    <3>2. parent'[Child] = Unborn => parent[Child] = Unborn
      BY <3>1, Orphans, {p} \in SUBSET Procs
    <3> QED
      BY <3>1, <3>2
  <2> QED
    BY <1>3, <2>1, <2>2
<1>4. ASSUME NEW p \in Procs, NEW c \in Procs, Fork(p, c) PROVE OutcomeFits'
  BY <1>4 DEF Fork
<1>5. CASE Spawn \/ RefreshProcesses
  BY <1>5 DEF Spawn, RefreshProcesses, tree
<1>6. CASE KillTop
  BY <1>6, Orphans DEF KillTop, Dies
<1>7. ASSUME NEW c \in Procs, KillChild(c) PROVE OutcomeFits'
  BY <1>7, Orphans DEF KillChild, Dies
<1> QED
  BY <1>1, <1>2, <1>3, <1>4, <1>5, <1>6, <1>7, Steps

\* A death is the end of the command, or none of its business.
LEMMA DeathsFit ==
    ASSUME TypeOK, IdsFit, NEW p \in Procs, p \in running \/ parent[p] # Unborn,
           Dies(p), UNCHANGED <<cancelled, outcome>>,
           supervisor = "returned" <=> supervisor' = "returned"
    PROVE  Contract!End \/ UNCHANGED Contract!vars
<1> USE ChildIsProcess, MarksAreNoProcesses DEF TypeOK, Dies
<1>1. parent'[Child] = Unborn <=> parent[Child] = Unborn
  BY Orphans DEF Orphaned
<1> QED
  BY <1>1 DEF Contract!End, Contract!vars

(***************************************************************************)
(* wait_for_child keeps the promise of Session::run, without exception:    *)
(* every step of it is one of SessionRun or changes nothing there.         *)
(***************************************************************************)
THEOREM TreeKeepsContract == Spec => KeepsContract
<1>1. Init => Contract!Init /\ OutcomeFits
  BY ChildIsProcess DEF Init, Nobody, Contract!Init, OutcomeFits
<1>2. ASSUME IInv, IInv', OutcomeFits, [Next]_vars
      PROVE  [Contract!Next]_(Contract!vars)
  <2> USE <1>2, ChildIsProcess, MarksAreNoProcesses
      DEF IInv, TypeOK, Contract!vars, Contract!Next
  <2>1. CASE Cancel
    BY <2>1 DEF Cancel, tree, Contract!Cancel
  <2>2. ASSUME NEW result \in Contract!Outcomes, Finish(result),
               supervisor # "returned",
               Child \notin running,
               result = "Completed" => parent[Child] # Unborn,
               result = "Cancel" => cancelled
        PROVE  Contract!Return(result)
    BY <2>2 DEF Finish, tree, Contract!Return
  <2>3. CASE SpawnFails \/ ChildCompletes
    BY <2>2, <2>3
    DEF SpawnFails, ChildCompletes, OutcomeFits, IdsFit, Contract!Outcomes
  <2>4. CASE ChildGivesIn \/ Reap
    BY <2>2, <2>4
    DEF ChildGivesIn, Reap, OutcomeFits, Contract!Outcomes
  <2>5. CASE TopIsGone \/ NoMoreChildren
    <3>1. Child \notin running /\ outcome \in {"Timeout", "Cancel", "Error"}
      BY <2>5 DEF TopIsGone, NoMoreChildren, ListFits, KillFits, OutcomeFits
    <3>2. CASE supervisor' = "returned"
      BY <2>5, <3>1, <3>2 DEF TopIsGone, NoMoreChildren, tree, OutcomeFits,
          Contract!Return, Contract!Outcomes
    <3>3. CASE supervisor' # "returned"
      BY <2>5, <3>3 DEF TopIsGone, NoMoreChildren, tree
    <3> QED
      BY <3>2, <3>3
  <2>6. CASE \/ Interrupt \/ WaitFails \/ TimesOut \/ SeesCancel
             \/ TenSecondsPass \/ RefreshProcesses
    BY <2>6
    DEF Interrupt, WaitFails, TimesOut, SeesCancel, Leave, Stop, TenSecondsPass,
        RefreshProcesses, tree
  <2>7. CASE Terminated \/ UNCHANGED vars
    BY <2>7 DEF Terminated, vars, tree
  <2>8. ASSUME NEW p \in Procs, LeaveGroup(p) PROVE UNCHANGED Contract!vars
    BY <2>8 DEF LeaveGroup
  <2>9. ASSUME NEW p \in Procs, ProcessExits(p)
        PROVE  Contract!End \/ UNCHANGED Contract!vars
    BY <2>9, DeathsFit DEF ProcessExits
  <2>10. ASSUME NEW p \in Procs, NEW c \in Procs, Fork(p, c)
         PROVE  UNCHANGED Contract!vars
    BY <2>10 DEF Fork, IdsFit
  <2>11. CASE Spawn
    BY <2>11 DEF Spawn, IdsFit, OutcomeFits, Contract!Start
  <2>12. CASE KillTop
    BY <2>12, DeathsFit DEF KillTop, OutcomeFits
  <2>13. ASSUME NEW c \in Procs, KillChild(c)
         PROVE  Contract!End \/ UNCHANGED Contract!vars
    BY <2>13, DeathsFit DEF KillChild, IdsFit
  <2> QED
    BY <2>1, <2>3, <2>4, <2>5, <2>6, <2>7, <2>8, <2>9, <2>10, <2>11, <2>12, <2>13,
       Steps DEF Quiet
<1>3. ASSUME IInv, OutcomeFits, [Next]_vars PROVE OutcomeFits'
  BY <1>3, OutcomeStep DEF IInv
<1> QED
  BY <1>1, <1>2, <1>3, Invariance, PTL DEF Spec, KeepsContract, Contract!Spec

-----------------------------------------------------------------------------
(* The interrupt.                                                          *)

\* wait_for_child has sent its signal, because of the time or the token.
AfterInterrupt ==
    /\ platform = "unix"
    /\ supervisor \notin {"spawn", "wait", "interrupt"}
    /\ outcome \in {"Timeout", "Cancel"}

\* Processes of the group have been started, so none of them is started again.
MembersFit == \A c \in group : parent[c] # Unborn

GroupIsReached ==
    AfterInterrupt /\ stubborn = {} => running \cap group \subseteq interrupted

\* A group in which everyone obeys loses members from then on, and gets none.
GroupEnds ==
    AfterInterrupt /\ stubborn = {} =>
        /\ running \cap group \subseteq interrupted
        /\ (running \cap group)' \subseteq running \cap group

LEMMA MembersStep ==
    ASSUME TypeOK, MembersFit, [Next]_vars
    PROVE  MembersFit'
<1> USE MarksAreNoProcesses, ChildIsProcess DEF TypeOK, MembersFit
<1>1. CASE Quiet
  <2>1. UNCHANGED <<parent, group>>
    BY <1>1 DEF Quiet, Cancel, SpawnFails, ChildCompletes, Interrupt, ChildGivesIn,
        WaitFails, TimesOut, SeesCancel, TenSecondsPass, TopIsGone, NoMoreChildren,
        Reap, Terminated, Finish, Leave, tree, vars
  <2> QED
    BY <2>1
<1>2. CASE UNCHANGED vars \/ RefreshProcesses
  BY <1>2 DEF vars, RefreshProcesses, tree
<1>3. ASSUME NEW p \in Procs, LeaveGroup(p) PROVE MembersFit'
  BY <1>3 DEF LeaveGroup
<1>6. ASSUME NEW p \in Procs, NEW c \in Procs, Fork(p, c) PROVE MembersFit'
  <2>1. \A q \in Procs : parent[q] # Unborn => parent'[q] # Unborn
    BY <1>6 DEF Fork
  <2>2. parent'[c] # Unborn /\ group' \subseteq group \cup {c}
    BY <1>6 DEF Fork
  <2> QED
    BY <2>1, <2>2
<1>4. ASSUME NEW p \in Procs, Dies(p) PROVE MembersFit'
  <2>1. UNCHANGED group /\ parent' = Orphaned({p})
    BY <1>4 DEF Dies
  <2> QED
    BY <2>1, Orphans
<1>5. CASE Spawn
  BY <1>5 DEF Spawn
<1> QED
  BY <1>1, <1>2, <1>3, <1>4, <1>5, <1>6, Steps DEF ProcessExits, KillTop, KillChild

LEMMA ReachedStep ==
    ASSUME TypeOK, MembersFit, GroupIsReached, [Next]_vars
    PROVE  GroupIsReached' /\ GroupEnds
<1> USE DEF TypeOK, GroupIsReached, GroupEnds, AfterInterrupt
<1>1. CASE UNCHANGED vars \/ Cancel \/ Terminated
  BY <1>1 DEF Cancel, Terminated, vars, tree
<1>2. CASE Interrupt
  BY <1>2 DEF Interrupt
<1>3. CASE Spawn \/ SpawnFails \/ ChildCompletes
  BY <1>3 DEF Spawn, SpawnFails, ChildCompletes, Finish, tree
<1>4. CASE WaitFails \/ TimesOut \/ SeesCancel
  BY <1>4 DEF WaitFails, TimesOut, SeesCancel, Leave, Stop, tree
<1>5. CASE \/ ChildGivesIn \/ TenSecondsPass \/ TopIsGone \/ NoMoreChildren
           \/ Reap \/ RefreshProcesses
  BY <1>5 DEF ChildGivesIn, TenSecondsPass, TopIsGone, NoMoreChildren, Reap,
              RefreshProcesses, Finish, tree
<1>6. ASSUME NEW p \in Procs, Dies(p), UNCHANGED outcome,
             supervisor' = supervisor \/ supervisor = "kill top"
      PROVE  GroupIsReached' /\ GroupEnds
  BY <1>6 DEF Dies
<1>7. ASSUME NEW p \in Procs, LeaveGroup(p)
      PROVE  GroupIsReached' /\ GroupEnds
  BY <1>7 DEF LeaveGroup
<1>8. ASSUME NEW p \in Procs, NEW c \in Procs, Fork(p, c)
      PROVE  GroupIsReached' /\ GroupEnds
  <2>1. /\ p \in running /\ (p \in interrupted => p \in stubborn)
        /\ parent[c] = Unborn
        /\ running' = running \cup {c}
        /\ group' = IF p \in group THEN group \cup {c} ELSE group
        /\ UNCHANGED <<platform, supervisor, outcome, stubborn, interrupted>>
    BY <1>8 DEF Fork
  <2>2. CASE AfterInterrupt /\ stubborn = {}
    <3>1. p \notin group
      BY <2>1, <2>2
    <3>2. c \notin group
      BY <2>1 DEF MembersFit
    <3> QED
      BY <2>1, <2>2, <3>1, <3>2
  <2> QED
    BY <2>1, <2>2
<1> QED
  BY <1>1, <1>2, <1>3, <1>4, <1>5, <1>6, <1>7, <1>8, Steps, ChildIsProcess
     DEF Quiet, ProcessExits, KillTop, KillChild

(***************************************************************************)
(* wait_for_child, on Unix: when the signal has been sent, it has reached  *)
(* every process that is in the group of the child, and a group that       *)
(* obeys gets no new member and loses those that exit, whoever forks or    *)
(* leaves meanwhile, in the group or out of it.  This is the part of       *)
(* CooperativeTreeEnds that is no matter of fairness.                      *)
(***************************************************************************)
THEOREM InterruptReachesGroup == Spec => [][GroupEnds]_vars
<1>1. Init => MembersFit /\ GroupIsReached
  BY DEF Init, MembersFit, GroupIsReached, AfterInterrupt
<1>2. TypeOK /\ MembersFit /\ [Next]_vars => MembersFit'
  BY MembersStep
<1>3. TypeOK /\ MembersFit /\ GroupIsReached /\ [Next]_vars
        => GroupIsReached' /\ GroupEnds
  BY ReachedStep
<1> QED
  BY <1>1, <1>2, <1>3, Typing, PTL DEF Spec

-----------------------------------------------------------------------------
(* The end of the supervision.                                             *)

Supervises ==
    SupervisorStep \/ WaitFails \/ TimesOut \/ SeesCancel \/ TenSecondsPass

\* What is still to come of wait_for_child and kill_process_tree.
Phase ==
    CASE supervisor = "spawn" -> 8
      [] supervisor = "wait" -> 7
      [] supervisor = "interrupt" -> 6
      [] supervisor = "grace" -> 5
      [] supervisor = "list" -> 4
      [] supervisor = "kill top" -> 3
      [] supervisor = "kill children" -> 2
      [] supervisor = "reap" -> 1
      [] OTHER -> 0

\* Each phase is left once, but the kill goes on for as long as it finds someone.
Remaining == Phase + Cardinality(Procs \ pids_in_tree)

ComesToAnEnd ==
    /\ Remaining \in 0 .. 8 + Cardinality(Procs)
    /\ Supervises => Remaining' < Remaining
    /\ ~Supervises => UNCHANGED <<supervisor, pids_in_tree, Remaining>>

\* What the phase is, before and after a step.
LEMMA Phases ==
    /\ supervisor = "spawn" => Phase = 8
    /\ supervisor = "wait" => Phase = 7
    /\ supervisor = "interrupt" => Phase = 6
    /\ supervisor = "grace" => Phase = 5
    /\ supervisor = "list" => Phase = 4
    /\ supervisor = "kill top" => Phase = 3
    /\ supervisor = "kill children" => Phase = 2
    /\ supervisor = "reap" => Phase = 1
    /\ supervisor = "returned" => Phase = 0
BY Zenon DEF Phase

LEMMA PhasesAfter ==
    /\ supervisor' = "wait" => Phase' = 7
    /\ supervisor' = "interrupt" => Phase' = 6
    /\ supervisor' = "grace" => Phase' = 5
    /\ supervisor' = "list" => Phase' = 4
    /\ supervisor' = "kill top" => Phase' = 3
    /\ supervisor' = "kill children" => Phase' = 2
    /\ supervisor' = "reap" => Phase' = 1
    /\ supervisor' = "returned" => Phase' = 0
BY Zenon DEF Phase

\* Every step of the supervisor leaves the phase it is in, except for a kill.
LEMMA PhaseFalls ==
    /\ Supervises =>
        \/ \E c \in Procs : KillChild(c) /\ UNCHANGED Phase
        \/ Phase' < Phase
    /\ Phase \in Int /\ Phase >= 0
<1>1. Spawn \/ SpawnFails => Phase = 8 /\ (Phase' = 7 \/ Phase' = 0)
  BY Phases, PhasesAfter, Zenon DEF Spawn, SpawnFails, Finish
<1>2. ChildCompletes \/ WaitFails => Phase = 7 /\ (Phase' = 4 \/ Phase' = 0)
  BY Phases, PhasesAfter, Zenon DEF ChildCompletes, WaitFails, Leave, Finish
<1>3. TimesOut \/ SeesCancel => Phase = 7 /\ (Phase' = 6 \/ Phase' = 4)
  <2>1. Stop = "interrupt" \/ Stop = "list"
    BY Zenon DEF Stop
  <2> QED
    BY <2>1, Phases, PhasesAfter, Zenon DEF TimesOut, SeesCancel, Leave
<1>4. Interrupt => Phase = 6 /\ Phase' = 5
  BY Phases, PhasesAfter, Zenon DEF Interrupt
<1>5. ChildGivesIn \/ TenSecondsPass => Phase = 5 /\ (Phase' = 4 \/ Phase' = 0)
  BY Phases, PhasesAfter, Zenon DEF ChildGivesIn, TenSecondsPass, Finish
<1>6. RefreshProcesses => Phase = 4 /\ Phase' = 3
  BY Phases, PhasesAfter, Zenon DEF RefreshProcesses
<1>7. KillTop => Phase = 3 /\ Phase' = 2
  BY Phases, PhasesAfter, Zenon DEF KillTop
<1>8. AfterKill = "reap" \/ AfterKill = "returned"
  BY Zenon DEF AfterKill
<1>9. TopIsGone => Phase = 3 /\ (Phase' = 1 \/ Phase' = 0)
  BY <1>8, Phases, PhasesAfter, Zenon DEF TopIsGone
<1>10. NoMoreChildren => Phase = 2 /\ (Phase' = 1 \/ Phase' = 0)
  BY <1>8, Phases, PhasesAfter, Zenon DEF NoMoreChildren
<1>11. Reap => Phase = 1 /\ Phase' = 0
  BY Phases, PhasesAfter, Zenon DEF Reap, Finish
<1>12. \A c \in Procs : KillChild(c) => KillChild(c) /\ UNCHANGED Phase
  <2>1. ASSUME NEW c \in Procs, KillChild(c) PROVE UNCHANGED supervisor
    BY <2>1 DEF KillChild
  <2>2. UNCHANGED supervisor => UNCHANGED Phase
    BY Zenon DEF Phase
  <2> QED
    BY <2>1, <2>2
<1>13. Phase \in 0 .. 8
  BY DEF Phase
<1> QED
  BY <1>1, <1>2, <1>3, <1>4, <1>5, <1>6, <1>7, <1>9, <1>10, <1>11, <1>12, <1>13
     DEF Supervises, SupervisorStep

LEMMA OneIsKilled ==
    ASSUME IsFiniteSet(Procs), NEW S \in SUBSET Procs, NEW c \in Procs \ S
    PROVE  /\ Cardinality(Procs \ S) \in Nat
           /\ Cardinality(Procs \ (S \cup {c})) = Cardinality(Procs \ S) - 1
<1>1. IsFiniteSet(Procs \ S)
  BY FS_Difference
<1>2. Procs \ (S \cup {c}) = (Procs \ S) \ {c}
  OBVIOUS
<1>3. Cardinality(Procs \ S) \in Nat
  BY <1>1, FS_CardinalityType
<1>4. Cardinality((Procs \ S) \ {c}) = Cardinality(Procs \ S) - 1
  <2>1. c \in Procs \ S
    OBVIOUS
  <2> QED
    BY <1>1, <2>1, FS_RemoveElement
<1> QED
  BY <1>2, <1>3, <1>4

LEMMA SupervisionStep ==
    ASSUME IsFiniteSet(Procs), pids_in_tree \in SUBSET Procs, KillFits, Next
    PROVE  ComesToAnEnd
<1>1. Cardinality(Procs \ pids_in_tree) \in Nat
  BY FS_Difference, FS_CardinalityType
<1>2. ASSUME NEW c \in Procs \ pids_in_tree, pids_in_tree' = pids_in_tree \cup {c}
      PROVE  Cardinality(Procs \ pids_in_tree') = Cardinality(Procs \ pids_in_tree) - 1
  BY <1>2, OneIsKilled
<1>3. ASSUME Supervises PROVE Remaining' < Remaining
  <2>1. ASSUME NEW c \in Procs, KillChild(c) PROVE Remaining' < Remaining
    <3>1. /\ c \in Procs \ pids_in_tree
          /\ pids_in_tree' = pids_in_tree \cup {c}
      BY <2>1, Zenon DEF KillChild
    <3>2. UNCHANGED supervisor
      BY <2>1 DEF KillChild
    <3>3. UNCHANGED Phase
      BY <3>2, Zenon DEF Phase
    <3>4. Phase \in Int
      BY PhaseFalls
    <3>5. Cardinality(Procs \ pids_in_tree') = Cardinality(Procs \ pids_in_tree) - 1
      BY <1>2, <3>1
    <3> QED
      BY <1>1, <3>3, <3>4, <3>5 DEF Remaining
  <2>2. CASE KillTop
    <3>1. pids_in_tree = {} /\ pids_in_tree' = {Child}
      BY <2>2 DEF KillTop, KillFits, BeforeKill
    <3>2. Phase = 3 /\ Phase' = 2
      BY <2>2, Phases, PhasesAfter, Zenon DEF KillTop
    <3>3. Cardinality(Procs \ pids_in_tree') = Cardinality(Procs \ pids_in_tree) - 1
      BY <1>2, <3>1, ChildIsProcess
    <3> QED
      BY <1>1, <3>2, <3>3 DEF Remaining
  <2>3. CASE ~KillTop /\ ~(\E c \in Procs : KillChild(c))
    <3>1. UNCHANGED pids_in_tree
      BY <1>3, <2>3, Zenon
         DEF Supervises, SupervisorStep, Spawn, SpawnFails, ChildCompletes, WaitFails,
             TimesOut, SeesCancel, Interrupt, ChildGivesIn, TenSecondsPass,
             RefreshProcesses, TopIsGone, NoMoreChildren, Reap, Finish, Leave
    <3>2. Phase' < Phase /\ Phase \in Int
      BY <1>3, <2>3, PhaseFalls
    <3>3. Phase' \in Int
      BY DEF Phase
    <3> QED
      BY <1>1, <3>1, <3>2, <3>3 DEF Remaining
  <2> QED
    BY <2>1, <2>2, <2>3
<1>4. ASSUME ~Supervises PROVE UNCHANGED <<supervisor, pids_in_tree, Remaining>>
  <2>1. UNCHANGED <<supervisor, pids_in_tree>>
    BY <1>4 DEF Next, ProcessStep, Supervises, Cancel, LeaveGroup, ProcessExits,
                ObeysInterrupt, Fork, Terminated, vars
  <2>2. UNCHANGED Phase
    BY <2>1, Zenon DEF Phase
  <2> QED
    BY <2>1, <2>2 DEF Remaining
<1>5. Remaining \in 0 .. 8 + Cardinality(Procs)
  <2>1. Phase \in 0 .. 8
    BY DEF Phase
  <2>2. Cardinality(Procs) \in Nat
    BY FS_CardinalityType
  <2>3. Cardinality(Procs \ pids_in_tree) \leq Cardinality(Procs)
    BY FS_Subset
  <2> QED
    BY <1>1, <2>1, <2>2, <2>3 DEF Remaining
<1> QED
  BY <1>3, <1>4, <1>5 DEF ComesToAnEnd

(***************************************************************************)
(* With finitely many processes, wait_for_child and kill_process_tree are  *)
(* over after no more steps than eight and the number of processes: the    *)
(* passes over the list end because each adds a process to those that have *)
(* been killed, and what the processes do meanwhile takes nothing from     *)
(* them.  With the fairness of the clocks this is why SupervisionEnds.     *)
(***************************************************************************)
THEOREM SupervisionComesToAnEnd ==
    ASSUME IsFiniteSet(Procs)
    PROVE  Spec => [][ComesToAnEnd]_vars
<1>1. IInv /\ Next => ComesToAnEnd
  <2>1. TypeOK => pids_in_tree \in SUBSET Procs
    BY DEF TypeOK
  <2> QED
    BY <2>1, SupervisionStep DEF IInv
<1> QED
  BY <1>1, Invariance, PTL DEF Spec
=============================================================================
