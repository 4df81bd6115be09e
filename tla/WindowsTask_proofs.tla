------------------------- MODULE WindowsTask_proofs -------------------------
(***************************************************************************)
(* Proofs about WindowsTask for any set of exit codes.                     *)
(***************************************************************************)
EXTENDS WindowsTask, TLAPS

\* Nothing runs before the task does, and nothing is returned before the end.
PhasesFit ==
    /\ supervisor \in {"session", "prepare", "start"} => script = "none"
    /\ supervisor \in {"session", "prepare", "start", "wait"} => waited = "none"
    /\ supervisor \in {"session", "prepare", "start", "wait", "kill"} => engine = "none"
    /\ supervisor # "returned" => outcome = Nothing
    /\ supervisor = "returned" => outcome.is # "none"
    /\ supervisor \in {"kill", "kill_tree", "delete", "report"} => waited # "none"
    /\ supervisor = "returned" /\ waited = "none" => script = "none"

\* The file has a code only when the script is over, and it is the command's.
ScriptFits ==
    /\ exit_code \in Codes => script = "over" /\ exit_code = result
    /\ script = "echo" => result \in Codes
    /\ waited = "Completed" => script \in {"dropped", "over"}

\* Whatever is left when the wait is over, is left because its process was not
\* found or a call was refused.
CleanedUp ==
    /\ waited = "Cancel" \/ outcome.is = "Cancel" => cancelled
    /\ waited = "Completed" => supervisor \notin {"kill", "kill_tree"}
    /\ engine = "script" => script \in {"command", "echo", "over"}
    /\ /\ supervisor \in {"delete", "report", "returned"}
       /\ script \in {"queued", "command", "echo"}
       => engine = "none"
    /\ supervisor = "report" => task = "absent" \/ refused = "deletion"
    /\ CompletedIsTrue
    /\ TaskIsDeleted

IInv == TypeOK /\ PhasesFit /\ ScriptFits /\ CleanedUp

LEMMA Steps ==
    [Next]_vars <=>
        \/ Cancel
        \/ ScriptStarts \/ ScriptEnds \/ UserInterferes
        \/ \E code \in Codes : CommandEnds(code)
        \/ AssertSession \/ PreparationFails \/ CreateTask \/ Run \/ RunFails
        \/ SeesNoInstance \/ RefreshFails \/ TimesOut \/ SeesCancel
        \/ KillFails \/ FindEngine \/ KillTree \/ DeleteTask \/ DeleteFails
        \/ ReadExitCode \/ ReportOutcome
        \/ UNCHANGED vars
BY DEF Next, ScriptStep, SupervisorStep, Terminated

LEMMA InvInit == Init => IInv
BY MarksAreNoCodes
DEF Init, IInv, TypeOK, PhasesFit, ScriptFits, CleanedUp, CompletedIsTrue,
    TaskIsDeleted, Nothing

LEMMA FinishTypes ==
    ASSUME TypeOK, NEW is \in {"Completed", "Timeout", "Cancel", "Error"},
           NEW code \in Codes \cup {NoCode}, Finish(is, code)
    PROVE  TypeOK'
<1>1. outcome' \in [is : {"none", "Completed", "Timeout", "Cancel", "Error"},
                    code : Codes \cup {NoCode}]
  BY DEF Finish
<1> QED
  BY <1>1 DEF TypeOK, Finish, running

LEMMA TypeStep ==
    ASSUME TypeOK, ScriptFits, PhasesFit, [Next]_vars
    PROVE  TypeOK'
<1> USE DEF TypeOK, running
<1>1. CASE Cancel \/ ScriptStarts \/ ScriptEnds \/ UserInterferes
  BY <1>1 DEF Cancel, ScriptStarts, ScriptEnds, UserInterferes, ScriptFits
<1>6. ASSUME NEW code \in Codes, CommandEnds(code) PROVE TypeOK'
  BY <1>6 DEF CommandEnds
<1>2. CASE \/ AssertSession \/ PreparationFails \/ CreateTask \/ Run \/ RunFails
  BY <1>2, FinishTypes DEF AssertSession, PreparationFails, CreateTask, Run, RunFails
<1>3. CASE \/ SeesNoInstance \/ RefreshFails \/ TimesOut \/ SeesCancel
           \/ KillFails \/ FindEngine \/ KillTree \/ DeleteTask \/ DeleteFails
  BY <1>3 DEF SeesNoInstance, RefreshFails, TimesOut, SeesCancel, Leave, KillFails,
      FindEngine, KillTree, DeleteTask, DeleteFails
<1>4. CASE ReadExitCode \/ ReportOutcome
  BY <1>4, FinishTypes DEF ReadExitCode, ReportOutcome, PhasesFit
<1>5. CASE UNCHANGED vars
  BY <1>5 DEF vars
<1> QED
  BY <1>1, <1>2, <1>3, <1>4, <1>5, <1>6, Steps

LEMMA PhasesStep ==
    ASSUME PhasesFit, [Next]_vars
    PROVE  PhasesFit'
<1> USE DEF PhasesFit, Nothing, running
<1>1. CASE Cancel
  BY <1>1 DEF Cancel
<1>2. CASE ScriptStarts \/ ScriptEnds \/ UserInterferes
  BY <1>2 DEF ScriptStarts, ScriptEnds, UserInterferes
<1>3. ASSUME NEW code \in Codes, CommandEnds(code) PROVE PhasesFit'
  BY <1>3 DEF CommandEnds
<1>4. CASE AssertSession \/ CreateTask
  BY <1>4 DEF AssertSession, CreateTask
<1>5. CASE Run
  BY <1>5 DEF Run
<1>6. ASSUME NEW is, NEW code, Finish(is, code), is # "none",
             waited = "none" => script = "none"
      PROVE  PhasesFit'
  BY <1>6 DEF Finish
<1>7. CASE PreparationFails \/ RunFails
  BY <1>6, <1>7 DEF PreparationFails, RunFails
<1>8. CASE SeesNoInstance \/ RefreshFails \/ TimesOut \/ SeesCancel
  BY <1>8 DEF SeesNoInstance, RefreshFails, TimesOut, SeesCancel, Leave
<1>9. CASE KillFails \/ FindEngine
  BY <1>9 DEF KillFails, FindEngine
<1>10. CASE KillTree
  BY <1>10 DEF KillTree
<1>11. CASE DeleteTask \/ DeleteFails
  BY <1>11 DEF DeleteTask, DeleteFails
<1>12. CASE ReadExitCode \/ ReportOutcome
  BY <1>6, <1>12 DEF ReadExitCode, ReportOutcome
<1>13. CASE UNCHANGED vars
  BY <1>13 DEF vars
<1> QED
  BY <1>1, <1>2, <1>3, <1>4, <1>5, <1>7, <1>8, <1>9, <1>10, <1>11, <1>12, <1>13,
     Steps

LEMMA ScriptFitsStep ==
    ASSUME PhasesFit, ScriptFits, [Next]_vars
    PROVE  ScriptFits'
<1> USE DEF ScriptFits, running
<1>1. CASE UNCHANGED <<running, waited>>
  BY <1>1
<1>2. CASE ScriptStarts \/ ScriptEnds \/ UserInterferes
  BY <1>2, MarksAreNoCodes DEF ScriptStarts, ScriptEnds, UserInterferes
<1>3. ASSUME NEW code \in Codes, CommandEnds(code) PROVE ScriptFits'
  BY <1>3, MarksAreNoCodes DEF CommandEnds
<1>4. CASE Run
  BY <1>4, MarksAreNoCodes DEF Run, PhasesFit
<1>5. CASE SeesNoInstance \/ RefreshFails \/ TimesOut \/ SeesCancel
  BY <1>5 DEF SeesNoInstance, RefreshFails, TimesOut, SeesCancel, Leave
<1>6. CASE KillTree
  BY <1>6 DEF KillTree, Runs
<1>7. CASE \/ Cancel \/ AssertSession \/ PreparationFails \/ CreateTask \/ RunFails
           \/ KillFails \/ FindEngine \/ DeleteTask \/ DeleteFails
           \/ ReadExitCode \/ ReportOutcome \/ UNCHANGED vars
  <2>1. UNCHANGED <<running, waited>>
    BY <1>7 DEF Cancel, AssertSession, PreparationFails, CreateTask, RunFails,
        KillFails, FindEngine, DeleteTask, DeleteFails, ReadExitCode, ReportOutcome,
        Finish, vars
  <2> QED
    BY <1>1, <2>1
<1> QED
  BY <1>2, <1>3, <1>4, <1>5, <1>6, <1>7, Steps

LEMMA CleanedUpStep ==
    ASSUME IInv, [Next]_vars
    PROVE  CleanedUp'
<1> USE DEF IInv, CleanedUp, CompletedIsTrue, TaskIsDeleted, running
<1>1. CASE Cancel
  BY <1>1 DEF Cancel
<1>2. CASE ScriptStarts
  BY <1>2 DEF ScriptStarts
<1>3. CASE ScriptEnds
  BY <1>3, MarksAreNoCodes DEF ScriptEnds
<1>4. CASE UserInterferes
  BY <1>4 DEF UserInterferes
<1>5. ASSUME NEW code \in Codes, CommandEnds(code) PROVE CleanedUp'
  BY <1>5 DEF CommandEnds
<1>6. CASE AssertSession \/ CreateTask \/ Run
  BY <1>6 DEF AssertSession, CreateTask, Run, PhasesFit, Nothing
<1>7. CASE PreparationFails \/ RunFails
  BY <1>7 DEF PreparationFails, RunFails, Finish, PhasesFit
<1>8. CASE SeesNoInstance \/ RefreshFails \/ TimesOut \/ SeesCancel
  BY <1>8 DEF SeesNoInstance, RefreshFails, TimesOut, SeesCancel, Leave, PhasesFit,
      Nothing
<1>9. CASE KillFails \/ FindEngine
  BY <1>9 DEF KillFails, FindEngine, Runs, TypeOK, PhasesFit, Nothing
<1>10. CASE KillTree
  BY <1>10 DEF KillTree, Runs, TypeOK, PhasesFit, Nothing
<1>11. CASE DeleteTask \/ DeleteFails
  BY <1>11 DEF DeleteTask, DeleteFails, PhasesFit, Nothing
<1>12. CASE ReadExitCode
  BY <1>12 DEF ReadExitCode, Finish, ScriptFits
<1>13. CASE ReportOutcome
  BY <1>13 DEF ReportOutcome, Finish
<1>14. CASE UNCHANGED vars
  BY <1>14 DEF vars
<1> QED
  BY <1>1, <1>2, <1>3, <1>4, <1>5, <1>6, <1>7, <1>8, <1>9, <1>10, <1>11, <1>12,
     <1>13, <1>14, Steps

LEMMA InvStep ==
    ASSUME IInv, [Next]_vars
    PROVE  IInv'
BY TypeStep, PhasesStep, ScriptFitsStep, CleanedUpStep DEF IInv

LEMMA Invariance == Spec => []IInv
BY InvInit, InvStep, PTL DEF Spec

(***************************************************************************)
(* The variables keep their types.                                         *)
(***************************************************************************)
THEOREM Typing == Spec => []TypeOK
BY Invariance, PTL DEF IInv

(***************************************************************************)
(* read_exit_code: an exit code that is reported is that of a command that *)
(* has ended.                                                              *)
(***************************************************************************)
THEOREM ReportsTrueCodes == Spec => []CompletedIsTrue
BY Invariance, PTL DEF IInv, CleanedUp

(***************************************************************************)
(* run_task: no command runs on, or is still to begin, unless its process  *)
(* was not found.                                                          *)
(***************************************************************************)
THEOREM EndsCommands == Spec => []CommandIsOver
<1>1. IInv => CommandIsOver
  BY DEF IInv, ScriptFits, CleanedUp, CommandIsOver, Returned
<1> QED
  BY <1>1, Invariance, PTL

(***************************************************************************)
(* run_task: a run without an error leaves no task unless the deletion was *)
(* refused.                                                                *)
(***************************************************************************)
THEOREM DeletesTasks == Spec => []TaskIsDeleted
BY Invariance, PTL DEF IInv, CleanedUp

(***************************************************************************)
(* run_task keeps the promise of Session::run: every step of it is one of  *)
(* SessionRun or changes nothing there.                                    *)
(***************************************************************************)
THEOREM TaskKeepsContract == Spec => KeepsContract
<1>1. Init => Contract!Init
  BY DEF Init, Nothing, Runs, Contract!Init
<1>2. ASSUME IInv, IInv', [Next]_vars PROVE [Contract!Next]_(Contract!vars)
  <2> USE <1>2 DEF IInv, TypeOK, Runs, running, Contract!vars, Contract!Next
  <2>1. CASE Cancel
    BY <2>1 DEF Cancel, Contract!Cancel
  <2>2. CASE ScriptStarts
    BY <2>2 DEF ScriptStarts, Contract!Start
  <2>3. ASSUME NEW code \in Codes, CommandEnds(code) PROVE UNCHANGED Contract!vars
    BY <2>3 DEF CommandEnds
  <2>4. CASE ScriptEnds \/ UserInterferes
    BY <2>4 DEF ScriptEnds, UserInterferes, Contract!End
  <2>5. CASE \/ AssertSession \/ CreateTask \/ Run
             \/ SeesNoInstance \/ RefreshFails \/ TimesOut \/ SeesCancel
             \/ KillFails \/ FindEngine \/ DeleteTask \/ DeleteFails
    BY <2>5
    DEF AssertSession, CreateTask, Run, SeesNoInstance, RefreshFails, TimesOut,
        SeesCancel, Leave, KillFails, FindEngine, DeleteTask, DeleteFails, PhasesFit
  <2>6. CASE KillTree
    BY <2>6 DEF KillTree, Contract!End
  <2>7. ASSUME NEW is \in Contract!Outcomes, NEW code, Finish(is, code),
               supervisor # "returned",
               is = "Completed" => script = "over",
               is = "Cancel" => cancelled
        PROVE  Contract!Return(is)
    BY <2>7 DEF Finish, Contract!Return, PhasesFit, Nothing
  <2>8. CASE PreparationFails \/ RunFails
    BY <2>7, <2>8 DEF PreparationFails, RunFails, Contract!Outcomes
  <2>9. CASE ReadExitCode
    BY <2>7, <2>9 DEF ReadExitCode, ScriptFits, Contract!Outcomes
  <2>10. CASE ReportOutcome
    BY <2>7, <2>10 DEF ReportOutcome, CleanedUp, PhasesFit, Contract!Outcomes
  <2>11. CASE UNCHANGED vars
    BY <2>11 DEF vars
  <2> QED
    BY <2>1, <2>2, <2>3, <2>4, <2>5, <2>6, <2>8, <2>9, <2>10, <2>11, Steps
<1> QED
  BY <1>1, <1>2, Invariance, PTL DEF Spec, KeepsContract, Contract!Spec

-----------------------------------------------------------------------------
\* The wait is over, and there was nothing to kill or it was found.
OutOfWay ==
    /\ supervisor \in {"delete", "report", "returned"}
    /\ waited \in {"none", "Completed"} \/ engine = "script"

NothingStirs == OutOfWay => UNCHANGED <<running, waited>> /\ OutOfWay'

(***************************************************************************)
(* run_task: from the end of a kill that found the process on, the script, *)
(* the command and its exit code stay as they are; after a completion and  *)
(* after a run that failed to begin, they do so in any case.  Such a task  *)
(* cannot come to life behind the back of the caller, not even while it is *)
(* still registered, and the file is not written to while it is read.      *)
(***************************************************************************)
THEOREM NothingStirsAfterwards == Spec => [][NothingStirs]_vars
<1>1. ASSUME IInv, [Next]_vars PROVE NothingStirs
  <2> USE <1>1 DEF NothingStirs, OutOfWay, running
  <2>1. OutOfWay => script \notin {"queued", "command", "echo"}
    BY DEF IInv, PhasesFit, ScriptFits, CleanedUp
  <2>2. CASE Cancel \/ UNCHANGED vars
    BY <2>2 DEF Cancel, vars
  <2>3. CASE ScriptStarts \/ ScriptEnds \/ UserInterferes
    BY <2>1, <2>3 DEF ScriptStarts, ScriptEnds, UserInterferes
  <2>4. ASSUME NEW code \in Codes, CommandEnds(code) PROVE NothingStirs
    BY <2>1, <2>4 DEF CommandEnds
  <2>5. CASE \/ AssertSession \/ PreparationFails \/ CreateTask \/ Run \/ RunFails
             \/ SeesNoInstance \/ RefreshFails \/ TimesOut \/ SeesCancel
             \/ KillFails \/ FindEngine \/ KillTree
    BY <2>5
    DEF AssertSession, PreparationFails, CreateTask, Run, RunFails, SeesNoInstance,
        RefreshFails, TimesOut, SeesCancel, Leave, KillFails, FindEngine, KillTree
  <2>6. CASE DeleteTask \/ DeleteFails
    BY <2>6 DEF DeleteTask, DeleteFails
  <2>7. CASE ReadExitCode \/ ReportOutcome
    BY <2>7 DEF ReadExitCode, ReportOutcome, Finish
  <2> QED
    BY <2>2, <2>3, <2>4, <2>5, <2>6, <2>7, Steps
<1> QED
  BY <1>1, Invariance, PTL DEF Spec
=============================================================================
