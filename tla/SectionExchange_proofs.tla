----------------------- MODULE SectionExchange_proofs -----------------------
(***************************************************************************)
(* Proofs about SectionExchange for any number of plan groups, plugins,    *)
(* files and scheduler processes.                                          *)
(***************************************************************************)
EXTENDS SectionExchange, TLAPS

(***************************************************************************)
(* Who has something to write, and when: a writer with a draft has a job,  *)
(* a job is of the present process, a process that is down has no writers  *)
(* at work, before scheduling only Main works, and then Main does not.     *)
(***************************************************************************)
JobsFit ==
    /\ \A p \in Writers :
        /\ pc[p] = "idle" => job[p] = None
        /\ pc[p] \in Drafting \cup {"done", "erred"} => job[p] # None
        /\ job[p] # None => job[p].section.run = run
    /\ mode = "down" => \A p \in Writers : pc[p] = "idle"
    /\ mode \in {"setup", "startup"} => \A t \in Threads : pc[t] = "idle"
    /\ mode = "setup" => job[Main] = None
    /\ mode = "scheduling" => pc[Main] = "idle"

\* A draft that waits for its rename is whole.
DraftsFit ==
    \A p \in Writers :
        pc[p] = "written" => disk[Tmp(job[p].file)] = job[p].section

\* A plugin has seen nothing before its walk, and nothing ahead of it.
WalksFit ==
    \A r \in Plugins :
        /\ pc[r] \in {"idle", "waiting"} => seen[r] = NothingSeen
        /\ pc[r] = "reading" => \A e \in todo[r] : seen[r][e] = None

\* Everything but the published plan results.
Volatile(e) == TopLevel(e) \/ e[2] = "tmp"

\* What a snapshot promises of the volatile entries holds of the directory.
OneRunOnDisk ==
    \A e1, e2 \in Entries :
        /\ Volatile(e1) /\ disk[e1] \in Sections
        /\ Volatile(e2) /\ disk[e2] \in Sections
        => disk[e1].run = disk[e2].run

(***************************************************************************)
(* The inductive invariant.  The first four parts are what the lock and    *)
(* the order of the scheduler's phases give; the others say what they are  *)
(* for, and each needs only those before it.                               *)
(***************************************************************************)
IInv ==
    /\ TypeOK /\ JobsFit /\ Exclusion /\ DraftsFit
    /\ PublishedNeverTorn
    /\ WalksFit /\ ReadsAreCurrent
    /\ StartsClean /\ OneRunOnDisk /\ OneRunPerSnapshot

-----------------------------------------------------------------------------
(* Typing *)

LEMMA TypeInit == Init => TypeOK
<1> SUFFICES ASSUME Init PROVE TypeOK
  OBVIOUS
<1>1. disk \in [Entries -> Contents]
  BY DEF Init, NothingSeen, Contents
<1>2. seen \in [Plugins -> [Entries -> Sections \cup {None}]]
  BY DEF Init, NothingSeen
<1>3. run \in 0 .. MaxStarts
  BY BoundsAreNumbers DEF Init
<1>4. /\ pc \in [Procs -> WriterPcs \cup PluginPcs]
      /\ \A p \in Writers : pc[p] \in WriterPcs
      /\ \A r \in Plugins : pc[r] \in PluginPcs
  BY DEF Init, Procs, WriterPcs, PluginPcs
<1> QED
  BY <1>1, <1>2, <1>3, <1>4 DEF Init, TypeOK

\* A call that wanted the lock returns.
LEMMA ReturnTypes ==
    ASSUME TypeOK, NEW p \in Writers, NEW ok \in BOOLEAN, Return(p, ok),
           disk' \in [Entries -> Contents],
           flock' \in [Procs -> {"none", "shared", "exclusive"}]
    PROVE  TypeOK'
BY ActorsAreDistinct
DEF TypeOK, Return, Goto, WriterPcs, PluginPcs, Procs, Writers, pluginVars

\* The scheduler process is gone.
LEMMA GoneTypes ==
    ASSUME TypeOK, Gone
    PROVE  TypeOK'
BY ActorsAreDistinct
DEF TypeOK, Gone, WriterPcs, PluginPcs, Procs, Writers, pluginVars

\* A writer goes from one of its labels to another.
LEMMA GotoTypes ==
    ASSUME TypeOK, NEW p \in Writers, NEW label \in WriterPcs, Goto(p, label),
           disk' \in [Entries -> Contents],
           flock' \in [Procs -> {"none", "shared", "exclusive"}],
           UNCHANGED <<schedulerVars, pluginVars>>
    PROVE  TypeOK'
BY ActorsAreDistinct
DEF TypeOK, Goto, PluginPcs, Procs, Writers, pluginVars, schedulerVars

\* A plugin goes from one of its labels to another.
LEMMA PluginTypes ==
    ASSUME TypeOK, NEW r \in Plugins, NEW label \in PluginPcs, Goto(r, label),
           flock' \in [Procs -> {"none", "shared", "exclusive"}],
           todo' \in [Plugins -> SUBSET Entries],
           seen' \in [Plugins -> [Entries -> Sections \cup {None}]],
           UNCHANGED <<disk, schedulerVars>>
    PROVE  TypeOK'
BY ActorsAreDistinct
DEF TypeOK, Goto, WriterPcs, Procs, Writers, schedulerVars

LEMMA TypeStep == TypeOK /\ JobsFit /\ [Next]_vars => TypeOK'
<1> SUFFICES ASSUME TypeOK, JobsFit, [Next]_vars PROVE TypeOK'
  OBVIOUS
<1> USE DEF Waiting, Draining, Drafting, Replacing
<1>1. CASE Boot
  <2>1. run' \in 0 .. MaxStarts
    BY <1>1, BoundsAreNumbers DEF Boot, TypeOK
  <2>2. configured' \in SUBSET PlanFiles
    BY <1>1, FilesAreOwned DEF Boot
  <2> QED
    BY <1>1, <2>1, <2>2 DEF Boot, TypeOK, pluginVars
<1>2. CASE Cancel \/ BeginScheduling
  BY <1>2 DEF Cancel, BeginScheduling, TypeOK, pluginVars
<1>3. CASE Exit \/ Crash
  BY <1>3, GoneTypes DEF Exit, Crash
<1>4. ASSUME NEW p \in Writers, NEW j \in Jobs \cup {None}, Ask(p, j)
      PROVE  TypeOK'
  BY <1>4, ActorsAreDistinct
  DEF Ask, Goto, TypeOK, WriterPcs, PluginPcs, Procs, Writers, pluginVars
<1>5. CASE StartSweep
  BY <1>4, <1>5 DEF StartSweep, Writers
<1>6. ASSUME NEW f \in Files, NEW b \in Bodies
      PROVE  [file |-> f, section |-> [run |-> run, body |-> b]] \in Jobs
  BY DEF Jobs, Sections, TypeOK
<1>7. ASSUME NEW f \in TopFiles, StartTopWrite(f)
      PROVE  TypeOK'
  BY <1>4, <1>6, <1>7 DEF StartTopWrite, Writers, Files
<1>8. ASSUME NEW f \in PlanFiles, StartPlanWrite(f)
      PROVE  TypeOK'
  BY <1>4, <1>6, <1>8, FilesAreOwned DEF StartPlanWrite, Writers, Files
<1>9. ASSUME NEW p \in Writers, WaitStep(p) \/ Grant(p) \/ LockFails(p)
      PROVE  TypeOK'
  <2>1. CASE Park(p) \/ TakeLock(p)
    BY <1>9, <2>1, GotoTypes DEF Park, TakeLock, TypeOK, WriterPcs
  <2>2. CASE Grant(p)
    BY <1>9, <2>2, GotoTypes
    DEF Grant, LockExclusive, TypeOK, WriterPcs, Holding
  <2>3. CASE AbandonWait(p)
    <3>1. CASE pc[p] = "queued"
      BY <2>3, <3>1, ReturnTypes DEF AbandonWait, TypeOK
    <3>2. CASE pc[p] # "queued"
      BY <2>3, <3>2, GotoTypes DEF AbandonWait, TypeOK, WriterPcs
    <3> QED
      BY <3>1, <3>2
  <2>4. CASE DropLock(p) \/ LockFails(p)
    BY <2>4, ReturnTypes DEF DropLock, LockFails, Unlock, TypeOK
  <2> QED
    BY <1>9, <2>1, <2>2, <2>3, <2>4 DEF WaitStep
<1>10. ASSUME NEW p \in Writers, ReplaceStep(p)
       PROVE  TypeOK'
  <2>1. /\ pc[p] \in Drafting => job[p] # None
        /\ job[p] # None => /\ job[p].section \in Contents
                            /\ Tmp(job[p].file) \in Entries
                            /\ Json(job[p].file) \in Entries
    BY <1>10 DEF TypeOK, JobsFit, Jobs, Tmp, Json, Entries, Contents
  <2>2. {Torn, None} \subseteq Contents
    BY DEF Contents
  <2>3. CASE CreateDraft(p)
    BY <1>10, <2>2, <2>3, GotoTypes DEF CreateDraft, TypeOK, WriterPcs
  <2>4. CASE FillDraft(p)
    BY <1>10, <2>1, <2>4, GotoTypes DEF FillDraft, TypeOK, WriterPcs
  <2>5. CASE Rename(p)
    <3>1. disk' \in [Entries -> Contents]
      BY <2>1, <2>2, <2>5 DEF Rename, TypeOK
    <3>2. flock' \in [Procs -> {"none", "shared", "exclusive"}]
      BY <2>5 DEF Rename, TypeOK
    <3>3. \E label \in WriterPcs : Goto(p, label)
      BY <2>5 DEF Rename, WriterPcs
    <3>4. UNCHANGED <<schedulerVars, pluginVars>>
      BY <2>5 DEF Rename
    <3> QED
      BY <1>10, <3>1, <3>2, <3>3, <3>4, GotoTypes
  <2>6. CASE RemoveDraft(p)
    BY <1>10, <2>2, <2>6, GotoTypes DEF RemoveDraft, TypeOK, WriterPcs
  <2>7. CASE Release(p)
    BY <1>10, <2>7, ReturnTypes DEF Release, Unlock, TypeOK
  <2> QED
    BY <1>10, <2>3, <2>4, <2>5, <2>6, <2>7 DEF ReplaceStep
<1>11. CASE SweepStep
  <2>1. Main \in Writers
    BY DEF Writers
  <2>2. ASSUME NEW e \in Entries, SweepEntry(e)
        PROVE  TypeOK'
    BY <2>2 DEF SweepEntry, TypeOK, Contents, schedulerVars, pluginVars
  <2>3. CASE SweepFails
    BY <2>1, <2>3, ReturnTypes DEF SweepFails, Unlock, TypeOK
  <2>4. CASE SweepDone
    BY <2>1, <2>4, ActorsAreDistinct
    DEF SweepDone, Goto, Unlock, TypeOK, WriterPcs, PluginPcs, Procs, Writers,
        pluginVars
  <2> QED
    BY <1>11, <2>2, <2>3, <2>4 DEF SweepStep
<1>12. ASSUME NEW r \in Plugins,
              \/ PluginStart(r) \/ PluginLock(r) \/ PluginStep(r)
              \/ PluginKilled(r)
       PROVE  TypeOK'
  <2>1. CASE PluginStart(r)
    BY <1>12, <2>1, PluginTypes DEF PluginStart, PluginPcs, TypeOK, pluginVars
  <2>2. CASE PluginLock(r)
    BY <1>12, <2>2, PluginTypes DEF PluginLock, LockShared, PluginPcs, TypeOK
  <2>3. CASE ReadEntry(r)
    <3> PICK e \in todo[r] :
            /\ seen' = [seen EXCEPT ![r] = [@ EXCEPT ![e] = Parse(disk[e])]]
            /\ todo' = [todo EXCEPT ![r] = @ \ {e}]
      BY <2>3 DEF ReadEntry
    <3>1. Parse(disk[e]) \in Sections \cup {None}
      BY <1>12 DEF Parse, TypeOK, Contents
    <3>2. UNCHANGED <<disk, flock, pc, schedulerVars>>
      BY <2>3 DEF ReadEntry
    <3>3. todo' \in [Plugins -> SUBSET Entries]
      BY DEF TypeOK
    <3>4. seen' \in [Plugins -> [Entries -> Sections \cup {None}]]
      BY <1>12, <3>1 DEF TypeOK
    <3> QED
      BY <3>2, <3>3, <3>4 DEF TypeOK, schedulerVars
  <2>4. CASE PluginUnlock(r)
    BY <1>12, <2>4, PluginTypes
    DEF PluginUnlock, Unlock, PluginPcs, TypeOK, pluginVars
  <2>5. CASE PluginPrint(r) \/ PluginKilled(r)
    <3>1. NothingSeen \in [Entries -> Sections \cup {None}]
      BY DEF NothingSeen
    <3>2. PluginGone(r)
      BY <2>5 DEF PluginPrint, PluginKilled
    <3>3. seen' \in [Plugins -> [Entries -> Sections \cup {None}]]
      BY <3>1, <3>2 DEF PluginGone, TypeOK
    <3> QED
      BY <1>12, <3>2, <3>3, PluginTypes DEF PluginGone, Unlock, PluginPcs, TypeOK
  <2> QED
    BY <1>12, <2>1, <2>2, <2>3, <2>4, <2>5 DEF PluginStep
<1>13. CASE UNCHANGED vars
  BY <1>13 DEF vars, TypeOK, schedulerVars, pluginVars
<1> QED
  BY <1>1, <1>2, <1>3, <1>5, <1>7, <1>8, <1>9, <1>10, <1>11, <1>12, <1>13
  DEF Next, SchedulerNext, PluginNext

-----------------------------------------------------------------------------
(* Jobs *)

LEMMA JobsInit == Init => JobsFit
BY ActorsAreDistinct DEF Init, JobsFit, Drafting, Procs, Writers

LEMMA ReturnJobs ==
    ASSUME TypeOK, JobsFit, NEW p \in Writers, NEW ok \in BOOLEAN,
           pc[p] # "idle", Return(p, ok)
    PROVE  JobsFit'
BY ActorsAreDistinct
DEF TypeOK, JobsFit, Return, Goto, Drafting, Procs, Writers

LEMMA GoneJobs ==
    ASSUME TypeOK, JobsFit, Gone
    PROVE  JobsFit'
BY ActorsAreDistinct DEF TypeOK, JobsFit, Gone, Drafting, Procs, Writers

LEMMA GotoJobs ==
    ASSUME TypeOK, JobsFit, NEW p \in Writers, NEW label \in WriterPcs,
           pc[p] # "idle", label # "idle",
           label \in Drafting \cup {"done", "erred"} => job[p] # None,
           Goto(p, label), UNCHANGED schedulerVars
    PROVE  JobsFit'
BY ActorsAreDistinct
DEF TypeOK, JobsFit, Goto, Drafting, Procs, Writers, schedulerVars

LEMMA PluginJobs ==
    ASSUME TypeOK, JobsFit, NEW r \in Plugins, NEW label, Goto(r, label),
           UNCHANGED schedulerVars
    PROVE  JobsFit'
BY ActorsAreDistinct
DEF TypeOK, JobsFit, Goto, Drafting, Procs, Writers, schedulerVars

LEMMA JobsStep == TypeOK /\ JobsFit /\ [Next]_vars => JobsFit'
<1> SUFFICES ASSUME TypeOK, JobsFit, [Next]_vars PROVE JobsFit'
  OBVIOUS
<1> USE DEF Waiting, Draining, Drafting, Replacing
<1>1. CASE Boot \/ Cancel \/ BeginScheduling
  BY <1>1, ActorsAreDistinct
  DEF Boot, Cancel, BeginScheduling, JobsFit, TypeOK, Writers
<1>2. CASE Exit \/ Crash
  BY <1>2, GoneJobs DEF Exit, Crash
<1>3. ASSUME NEW p \in Writers, NEW what, Ask(p, what),
             what # None => what.section.run = run,
             p = Main => mode \in {"setup", "startup"},
             p # Main => mode = "scheduling",
             mode = "setup" => what = None
      PROVE  JobsFit'
  BY <1>3, ActorsAreDistinct
  DEF Ask, Goto, JobsFit, TypeOK, Procs, Writers
<1>4. CASE StartSweep
  BY <1>3, <1>4 DEF StartSweep, Writers
<1>5. ASSUME NEW f \in TopFiles, StartTopWrite(f)
      PROVE  JobsFit'
  BY <1>3, <1>5 DEF StartTopWrite, Writers
<1>6. ASSUME NEW f \in PlanFiles, StartPlanWrite(f)
      PROVE  JobsFit'
  BY <1>3, <1>6, FilesAreOwned, ActorsAreDistinct DEF StartPlanWrite, Writers
<1>7. ASSUME NEW p \in Writers, WaitStep(p) \/ Grant(p) \/ LockFails(p)
      PROVE  JobsFit'
  <2>1. CASE Park(p) \/ TakeLock(p) \/ Grant(p)
    BY <1>7, <2>1, GotoJobs DEF Park, TakeLock, Grant, WriterPcs, Holding
  <2>2. CASE AbandonWait(p)
    <3>1. CASE pc[p] = "queued"
      BY <1>7, <2>2, <3>1, ReturnJobs DEF AbandonWait
    <3>2. CASE pc[p] # "queued"
      BY <1>7, <2>2, <3>2, GotoJobs DEF AbandonWait, WriterPcs
    <3> QED
      BY <3>1, <3>2
  <2>3. CASE DropLock(p) \/ LockFails(p)
    BY <1>7, <2>3, ReturnJobs DEF DropLock, LockFails
  <2> QED
    BY <1>7, <2>1, <2>2, <2>3 DEF WaitStep
<1>8. ASSUME NEW p \in Writers, ReplaceStep(p)
      PROVE  JobsFit'
  <2>1. CASE CreateDraft(p)
    BY <1>8, <2>1, GotoJobs DEF CreateDraft, WriterPcs
  <2>2. CASE FillDraft(p) \/ RemoveDraft(p)
    BY <1>8, <2>2, GotoJobs DEF FillDraft, RemoveDraft, WriterPcs, JobsFit
  <2>3. CASE Rename(p)
    BY <1>8, <2>3, GotoJobs DEF Rename, WriterPcs, JobsFit
  <2>4. CASE Release(p)
    BY <1>8, <2>4, ReturnJobs DEF Release
  <2> QED
    BY <1>8, <2>1, <2>2, <2>3, <2>4 DEF ReplaceStep
<1>9. CASE SweepStep
  <2>1. Main \in Writers
    BY DEF Writers
  <2>2. ASSUME NEW e \in Entries, SweepEntry(e)
        PROVE  JobsFit'
    BY <2>2 DEF SweepEntry, JobsFit, schedulerVars
  <2>3. CASE SweepFails
    BY <2>1, <2>3, ReturnJobs DEF SweepFails, Sweeping
  <2>4. CASE SweepDone
    BY <2>1, <2>4, ActorsAreDistinct
    DEF SweepDone, Sweeping, Goto, JobsFit, TypeOK, Procs, Writers
  <2> QED
    BY <1>9, <2>2, <2>3, <2>4 DEF SweepStep
<1>10. ASSUME NEW r \in Plugins,
              \/ PluginStart(r) \/ PluginLock(r) \/ PluginStep(r)
              \/ PluginKilled(r)
       PROVE  JobsFit'
  <2>1. CASE ReadEntry(r)
    BY <2>1 DEF ReadEntry, JobsFit, schedulerVars
  <2>2. CASE ~ReadEntry(r)
    BY <1>10, <2>2, PluginJobs
    DEF PluginStart, PluginLock, PluginStep, PluginUnlock, PluginPrint,
        PluginKilled, PluginGone
  <2> QED
    BY <2>1, <2>2
<1>11. CASE UNCHANGED vars
  BY <1>11 DEF vars, JobsFit, schedulerVars
<1> QED
  BY <1>1, <1>2, <1>4, <1>5, <1>6, <1>7, <1>8, <1>9, <1>10, <1>11
  DEF Next, SchedulerNext, PluginNext

-----------------------------------------------------------------------------
(* The lock *)

LEMMA ExclusionInit == Init => Exclusion
BY ActorsAreDistinct DEF Init, Exclusion, Holding, Replacing, Drafting, Procs, Writers

LEMMA ExclusionStep ==
    TypeOK /\ JobsFit /\ Exclusion /\ [Next]_vars => Exclusion'
<1> SUFFICES ASSUME TypeOK, JobsFit, Exclusion, [Next]_vars PROVE Exclusion'
  OBVIOUS
<1> USE ActorsAreDistinct DEF Holding, Replacing, Drafting, Procs, Writers
\* Nobody's lock changes, and whoever moves holds one before and after, or not.
<1>1. ASSUME NEW p \in Procs, NEW label, Goto(p, label), UNCHANGED flock,
             p \in Writers => (pc[p] \in Holding <=> label \in Holding),
             p \in Plugins => (pc[p] = "reading" <=> label = "reading")
      PROVE  Exclusion'
  BY <1>1 DEF Goto, Exclusion, TypeOK
\* A lock is let go.
<1>2. ASSUME NEW p \in Procs, NEW label, Goto(p, label), Unlock(p),
             label \in {"idle", "printing"}
      PROVE  Exclusion'
  BY <1>2 DEF Goto, Unlock, Exclusion, TypeOK
<1>3. CASE Boot \/ Cancel \/ BeginScheduling
  BY <1>3 DEF Boot, Cancel, BeginScheduling, Exclusion
<1>4. CASE Exit \/ Crash
  BY <1>4 DEF Exit, Crash, Gone, Exclusion, TypeOK
<1>5. CASE StartSweep
  BY <1>1, <1>5 DEF StartSweep, Ask
<1>6. ASSUME NEW f \in TopFiles, StartTopWrite(f)
      PROVE  Exclusion'
  BY <1>1, <1>6 DEF StartTopWrite, Ask
<1>7. ASSUME NEW f \in PlanFiles, StartPlanWrite(f)
      PROVE  Exclusion'
  BY <1>1, <1>7, FilesAreOwned DEF StartPlanWrite, Ask
<1>8. ASSUME NEW p \in Writers, WaitStep(p) \/ Grant(p) \/ LockFails(p)
      PROVE  Exclusion'
  <2>1. CASE Park(p) \/ TakeLock(p)
    BY <1>1, <1>8, <2>1 DEF Park, TakeLock
  <2>2. CASE Grant(p)
    BY <1>8, <2>2 DEF Grant, LockExclusive, Goto, Exclusion, TypeOK
  <2>3. CASE AbandonWait(p)
    BY <1>1, <1>8, <2>3 DEF AbandonWait, Return
  <2>4. CASE DropLock(p)
    BY <1>2, <1>8, <2>4 DEF DropLock, Return
  <2>5. CASE LockFails(p)
    BY <1>1, <1>8, <2>5 DEF LockFails, Return
  <2> QED
    BY <1>8, <2>1, <2>2, <2>3, <2>4, <2>5 DEF WaitStep
<1>9. ASSUME NEW p \in Writers, ReplaceStep(p)
      PROVE  Exclusion'
  <2>1. CASE CreateDraft(p) \/ FillDraft(p) \/ Rename(p) \/ RemoveDraft(p)
    BY <1>1, <1>9, <2>1 DEF CreateDraft, FillDraft, Rename, RemoveDraft
  <2>2. CASE Release(p)
    BY <1>2, <1>9, <2>2 DEF Release, Return
  <2> QED
    BY <1>9, <2>1, <2>2 DEF ReplaceStep
<1>10. CASE SweepStep
  <2>1. ASSUME NEW e \in Entries, SweepEntry(e)
        PROVE  Exclusion'
    BY <2>1 DEF SweepEntry, Exclusion
  <2>2. CASE SweepFails \/ SweepDone
    BY <1>2, <2>2 DEF SweepFails, SweepDone, Return
  <2> QED
    BY <1>10, <2>1, <2>2 DEF SweepStep
<1>11. ASSUME NEW r \in Plugins,
              \/ PluginStart(r) \/ PluginLock(r) \/ PluginStep(r)
              \/ PluginKilled(r)
       PROVE  Exclusion'
  <2>1. CASE PluginStart(r)
    BY <1>1, <1>11, <2>1 DEF PluginStart
  <2>2. CASE PluginLock(r)
    BY <1>11, <2>2 DEF PluginLock, LockShared, Goto, Exclusion, TypeOK
  <2>3. CASE ReadEntry(r)
    BY <2>3 DEF ReadEntry, Exclusion
  <2>4. CASE PluginUnlock(r) \/ PluginPrint(r) \/ PluginKilled(r)
    BY <1>2, <1>11, <2>4
    DEF PluginUnlock, PluginPrint, PluginKilled, PluginGone
  <2> QED
    BY <1>11, <2>1, <2>2, <2>3, <2>4 DEF PluginStep
<1>12. CASE UNCHANGED vars
  BY <1>12 DEF vars, Exclusion
<1> QED
  BY <1>3, <1>4, <1>5, <1>6, <1>7, <1>8, <1>9, <1>10, <1>11, <1>12
  DEF Next, SchedulerNext, PluginNext

-----------------------------------------------------------------------------
(* The directory *)

AskStep ==
    \/ StartSweep
    \/ \E f \in TopFiles : StartTopWrite(f)
    \/ \E f \in PlanFiles : StartPlanWrite(f)

\* Whoever asks for the lock was idle, and nobody else is concerned.
LEMMA AskedBy ==
    ASSUME TypeOK, AskStep
    PROVE  \E p \in Writers :
              /\ pc[p] = "idle"
              /\ Goto(p, "queued")
              /\ \A q \in Writers \ {p} : job'[q] = job[q]
              /\ UNCHANGED <<disk, flock, mode, run, configured, cancelled, pluginVars>>
<1>1. ASSUME NEW p \in Writers, NEW what, Ask(p, what)
      PROVE  /\ pc[p] = "idle"
             /\ Goto(p, "queued")
             /\ \A q \in Writers \ {p} : job'[q] = job[q]
             /\ UNCHANGED <<disk, flock, mode, run, configured, cancelled, pluginVars>>
  BY <1>1 DEF Ask, TypeOK
<1>2. CASE StartSweep
  BY <1>1, <1>2 DEF StartSweep, Writers
<1>3. ASSUME NEW f \in TopFiles, StartTopWrite(f)
      PROVE  \E what : Ask(Main, what)
  BY <1>3 DEF StartTopWrite
<1>4. ASSUME NEW f \in PlanFiles, StartPlanWrite(f)
      PROVE  \E what : Ask(Owner[f], what)
  BY <1>4 DEF StartPlanWrite
<1>5. Main \in Writers /\ \A f \in PlanFiles : Owner[f] \in Writers
  BY FilesAreOwned DEF Writers
<1> QED
  BY <1>1, <1>2, <1>3, <1>4, <1>5 DEF AskStep

\* The steps that may change the directory.
LEMMA DiskChangedBy ==
    ASSUME [Next]_vars, disk' # disk
    PROVE  \/ \E p \in Writers : ReplaceStep(p)
           \/ \E e \in Entries : SweepEntry(e)
<1>1. CASE SchedulerNext
  BY <1>1 DEF SchedulerNext, Boot, Cancel, BeginScheduling, Exit, Crash, Gone,
      StartSweep, Ask, SweepStep, SweepFails, SweepDone, StartTopWrite,
      StartPlanWrite, WaitStep, Park, TakeLock, AbandonWait, DropLock, Grant,
      LockFails
<1>2. CASE PluginNext
  BY <1>2 DEF PluginNext, PluginStart, PluginLock, PluginStep, ReadEntry,
      PluginUnlock, PluginPrint, PluginKilled, PluginGone
<1> QED
  BY <1>1, <1>2 DEF Next, vars

\* Only a writer that holds the lock changes the directory.
LEMMA DiskChanges ==
    ASSUME TypeOK, [Next]_vars, disk' # disk
    PROVE  /\ \E p \in Writers :
                pc[p] \in Holding /\ (pc[p] = "written" => pc'[p] # "written")
           /\ \A r \in Plugins : pc'[r] = pc[r]
           /\ UNCHANGED <<run, configured, pluginVars>>
<1> USE ActorsAreDistinct
    DEF Holding, Replacing, Drafting, Procs, Writers, Goto, schedulerVars
<1>1. ASSUME NEW p \in Writers, ReplaceStep(p)
      PROVE  /\ pc[p] \in Holding /\ (pc[p] = "written" => pc'[p] # "written")
             /\ \A r \in Plugins : pc'[r] = pc[r]
             /\ UNCHANGED <<run, configured, pluginVars>>
  BY <1>1 DEF ReplaceStep, CreateDraft, FillDraft, Rename, RemoveDraft, Release,
      Return, TypeOK
<1>2. ASSUME NEW e \in Entries, SweepEntry(e)
      PROVE  /\ pc[Main] \in Holding /\ pc[Main] # "written"
             /\ \A r \in Plugins : pc'[r] = pc[r]
             /\ UNCHANGED <<run, configured, pluginVars>>
  BY <1>2 DEF SweepEntry, Sweeping
<1> QED
  BY <1>1, <1>2, DiskChangedBy

\* A draft becomes whole in one way only.
LEMMA DraftBecomesWhole ==
    ASSUME TypeOK, [Next]_vars, NEW p \in Writers, pc'[p] = "written"
    PROVE  FillDraft(p) \/ (pc[p] = "written" /\ job'[p] = job[p])
<1> USE ActorsAreDistinct DEF Procs, Writers, Goto, schedulerVars, TypeOK
<1>1. CASE SchedulerNext
  <2>1. CASE Boot \/ Cancel \/ BeginScheduling \/ Exit \/ Crash
    BY <2>1 DEF Boot, Cancel, BeginScheduling, Exit, Crash, Gone
  <2>3. CASE AskStep
    BY <2>3, AskedBy
  <2>4. CASE SweepStep
    BY <2>4 DEF SweepStep, SweepFails, SweepDone, SweepEntry, Return
  <2>5. ASSUME NEW q \in Writers, WaitStep(q) \/ Grant(q) \/ LockFails(q)
        PROVE  pc[p] = "written" /\ job'[p] = job[p]
    BY <2>5 DEF WaitStep, Park, TakeLock, AbandonWait, DropLock, Grant, LockFails,
        Return
  <2>6. ASSUME NEW q \in Writers, ReplaceStep(q), ~FillDraft(q)
        PROVE  pc[p] = "written" /\ job'[p] = job[p]
    BY <2>6 DEF ReplaceStep, CreateDraft, Rename, RemoveDraft, Release, Return
  <2>7. ASSUME NEW q \in Writers, FillDraft(q)
        PROVE  FillDraft(p) \/ (pc[p] = "written" /\ job'[p] = job[p])
    BY <2>7 DEF FillDraft
  <2> QED
    BY <1>1, <2>1, <2>3, <2>4, <2>5, <2>6, <2>7 DEF SchedulerNext, AskStep
<1>2. CASE PluginNext
  BY <1>2 DEF PluginNext, PluginStart, PluginLock, PluginStep, ReadEntry,
      PluginUnlock, PluginPrint, PluginKilled, PluginGone
<1> QED
  BY <1>1, <1>2 DEF Next, vars

LEMMA DraftsStep ==
    TypeOK /\ JobsFit /\ Exclusion /\ DraftsFit /\ [Next]_vars => DraftsFit'
<1> SUFFICES ASSUME TypeOK, JobsFit, Exclusion, DraftsFit, [Next]_vars,
                    NEW p \in Writers, pc'[p] = "written"
             PROVE  disk'[Tmp(job'[p].file)] = job'[p].section
  BY DEF DraftsFit
<1>1. CASE FillDraft(p)
  <2>1. Tmp(job[p].file) \in Entries /\ job' = job
    BY <1>1 DEF FillDraft, JobsFit, TypeOK, Jobs, Tmp, Entries, Drafting, schedulerVars
  <2>2. disk' = [disk EXCEPT ![Tmp(job[p].file)] = job[p].section]
    BY <1>1 DEF FillDraft, Goto, TypeOK, Procs
  <2> QED
    BY <2>1, <2>2 DEF TypeOK
<1>2. CASE pc[p] = "written" /\ job'[p] = job[p]
  <2>1. disk' = disk
    BY <1>2, DiskChanges DEF Exclusion, Holding, Replacing, Drafting, Procs
  <2> QED
    BY <1>2, <2>1 DEF DraftsFit
<1> QED
  BY <1>1, <1>2, DraftBecomesWhole

\* What is put under a section's own name, and what is put under any name.
LEMMA Appearances ==
    ASSUME TypeOK, JobsFit, DraftsFit, [Next]_vars,
           NEW e \in Entries, disk'[e] # disk[e], disk'[e] # None
    PROVE  \/ e[2] = "tmp" /\ disk'[e] = Torn
           \/ /\ mode \in {"startup", "scheduling"}
              /\ disk'[e] \in Sections
              /\ disk'[e].run = run
<1>1. ASSUME NEW p \in Writers, ReplaceStep(p)
      PROVE  \/ e[2] = "tmp" /\ disk'[e] = Torn
             \/ \E q \in Writers :
                    pc[q] # "idle" /\ job[q] # None /\ disk'[e] = job[q].section
  <2> USE DEF Drafting
  <2>1. job[p] # None => Tmp(job[p].file) \in Entries /\ Json(job[p].file) \in Entries
    BY <1>1 DEF TypeOK, Jobs, Tmp, Json, Entries
  <2>2. CASE CreateDraft(p)
    <3>1. disk'[e] = Torn /\ e = Tmp(job[p].file)
      BY <2>1, <2>2 DEF CreateDraft, TypeOK
    <3> QED
      BY <3>1 DEF Tmp
  <2>3. CASE FillDraft(p)
    BY <2>1, <2>3 DEF FillDraft, TypeOK, JobsFit
  <2>4. CASE Rename(p)
    BY <2>1, <2>4 DEF Rename, TypeOK, JobsFit, DraftsFit
  <2>5. CASE RemoveDraft(p)
    BY <2>1, <2>5 DEF RemoveDraft, TypeOK, JobsFit
  <2>6. CASE Release(p)
    BY <2>6 DEF Release
  <2> QED
    BY <1>1, <2>2, <2>3, <2>4, <2>5, <2>6 DEF ReplaceStep
<1>2. ASSUME NEW other \in Entries, SweepEntry(other)
      PROVE  FALSE
  BY <1>2 DEF SweepEntry, TypeOK
<1>3. ASSUME NEW q \in Writers, pc[q] # "idle", job[q] # None
      PROVE  /\ mode \in {"startup", "scheduling"}
             /\ job[q].section \in Sections /\ job[q].section.run = run
  BY <1>3, ActorsAreDistinct DEF TypeOK, JobsFit, Jobs, Writers
<1>4. \/ \E p \in Writers : ReplaceStep(p)
      \/ \E other \in Entries : SweepEntry(other)
  BY DiskChangedBy
<1> QED
  BY <1>1, <1>2, <1>3, <1>4

LEMMA PublishedStep ==
    TypeOK /\ JobsFit /\ DraftsFit /\ PublishedNeverTorn /\ [Next]_vars
        => PublishedNeverTorn'
BY Appearances, MarksAreNoSections DEF PublishedNeverTorn, Json, Entries

-----------------------------------------------------------------------------
(* The plugin's walk *)

LEMMA WalksInit == Init => WalksFit /\ ReadsAreCurrent
BY ActorsAreDistinct DEF Init, WalksFit, ReadsAreCurrent, Procs

\* The scheduler does not meddle with a plugin.
LEMMA SchedulerLeavesPlugins ==
    ASSUME TypeOK, SchedulerNext
    PROVE  UNCHANGED pluginVars /\ \A r \in Plugins : pc'[r] = pc[r]
<1> USE ActorsAreDistinct DEF Procs, Writers, Goto, schedulerVars, pluginVars, TypeOK
<1>1. CASE Boot \/ Cancel \/ BeginScheduling \/ Exit \/ Crash
  BY <1>1 DEF Boot, Cancel, BeginScheduling, Exit, Crash, Gone
<1>2. CASE AskStep
  BY <1>2, AskedBy
<1>3. CASE SweepStep
  BY <1>3 DEF SweepStep, SweepFails, SweepDone, SweepEntry, Return
<1>4. ASSUME NEW p \in Writers, WaitStep(p) \/ Grant(p) \/ LockFails(p)
      PROVE  UNCHANGED pluginVars /\ \A r \in Plugins : pc'[r] = pc[r]
  BY <1>4 DEF WaitStep, Park, TakeLock, AbandonWait, DropLock, Grant, LockFails,
      Return
<1>5. ASSUME NEW p \in Writers, ReplaceStep(p)
      PROVE  UNCHANGED pluginVars /\ \A r \in Plugins : pc'[r] = pc[r]
  BY <1>5 DEF ReplaceStep, CreateDraft, FillDraft, Rename, RemoveDraft, Release,
      Return
<1> QED
  BY <1>1, <1>2, <1>3, <1>4, <1>5 DEF SchedulerNext, AskStep

LEMMA WalksStep == TypeOK /\ WalksFit /\ [Next]_vars => WalksFit'
<1> SUFFICES ASSUME TypeOK, WalksFit, [Next]_vars PROVE WalksFit'
  OBVIOUS
<1>1. CASE SchedulerNext
  BY <1>1, SchedulerLeavesPlugins DEF WalksFit, pluginVars
<1>2. ASSUME NEW r \in Plugins, ReadEntry(r)
      PROVE  WalksFit'
  BY <1>2 DEF ReadEntry, WalksFit, TypeOK
<1>3. ASSUME NEW r \in Plugins,
             \/ PluginStart(r) \/ PluginLock(r) \/ PluginUnlock(r)
             \/ PluginPrint(r) \/ PluginKilled(r)
      PROVE  WalksFit'
  BY <1>3 DEF PluginStart, PluginLock, PluginUnlock, PluginPrint, PluginKilled,
      PluginGone, Goto, WalksFit, TypeOK, Procs, NothingSeen, pluginVars
<1>4. CASE UNCHANGED vars
  BY <1>4 DEF vars, pluginVars, WalksFit
<1> QED
  BY <1>1, <1>2, <1>3, <1>4 DEF Next, PluginNext, PluginStep

(***************************************************************************)
(* The walk sees one state of the directory: while a plugin reads, no      *)
(* writer holds the lock, so nothing changes.                              *)
(***************************************************************************)
LEMMA ReadsStep ==
    TypeOK /\ Exclusion /\ ReadsAreCurrent /\ [Next]_vars => ReadsAreCurrent'
<1> SUFFICES ASSUME TypeOK, Exclusion, ReadsAreCurrent, [Next]_vars
             PROVE  ReadsAreCurrent'
  OBVIOUS
<1>1. CASE disk' # disk
  <2>1. \A r \in Plugins : pc[r] # "reading"
    BY <1>1, DiskChanges, ActorsAreDistinct DEF Exclusion, Procs
  <2> QED
    BY <1>1, <2>1, DiskChanges DEF ReadsAreCurrent
<1>2. CASE SchedulerNext /\ disk' = disk
  BY <1>2, SchedulerLeavesPlugins DEF ReadsAreCurrent, pluginVars
<1>3. ASSUME NEW r \in Plugins, ReadEntry(r)
      PROVE  ReadsAreCurrent'
  BY <1>3 DEF ReadEntry, ReadsAreCurrent, TypeOK
<1>4. ASSUME NEW r \in Plugins,
             \/ PluginStart(r) \/ PluginLock(r) \/ PluginUnlock(r)
             \/ PluginPrint(r) \/ PluginKilled(r)
      PROVE  ReadsAreCurrent'
  BY <1>4 DEF PluginStart, PluginLock, PluginUnlock, PluginPrint, PluginKilled,
      PluginGone, Goto, ReadsAreCurrent, TypeOK, Procs, pluginVars
<1>5. CASE UNCHANGED vars
  BY <1>5 DEF vars, pluginVars, ReadsAreCurrent
<1> QED
  BY <1>1, <1>2, <1>3, <1>4, <1>5 DEF Next, PluginNext, PluginStep

-----------------------------------------------------------------------------
(* Processes that follow each other *)

LEMMA RunsInit ==
    Init => PublishedNeverTorn /\ DraftsFit /\ StartsClean /\ OneRunOnDisk
                /\ OneRunPerSnapshot
BY ActorsAreDistinct, MarksAreNoSections
DEF Init, NothingSeen, PublishedNeverTorn, DraftsFit, StartsClean, OneRunOnDisk,
    OneRunPerSnapshot, Json, Entries, Procs, Writers

\* A process is in its start-up or schedules only if it was before, or has swept.
LEMMA StartUps ==
    ASSUME TypeOK, [Next]_vars, mode' \in {"startup", "scheduling"}
    PROVE  \/ /\ mode \in {"startup", "scheduling"}
              /\ UNCHANGED <<run, configured>>
           \/ /\ Leftovers = {}
              /\ UNCHANGED <<disk, run, configured>>
<1> USE DEF schedulerVars
<1>1. CASE SchedulerNext
  <2>1. CASE Boot \/ Cancel \/ BeginScheduling \/ Exit \/ Crash
    BY <2>1 DEF Boot, Cancel, BeginScheduling, Exit, Crash, Gone
  <2>2. CASE AskStep
    BY <2>2, AskedBy
  <2>3. CASE SweepStep
    BY <2>3 DEF SweepStep, SweepFails, SweepDone, SweepEntry, Return
  <2>4. ASSUME NEW p \in Writers, WaitStep(p) \/ Grant(p) \/ LockFails(p)
        PROVE  mode \in {"startup", "scheduling"} /\ UNCHANGED <<run, configured>>
    BY <2>4 DEF WaitStep, Park, TakeLock, AbandonWait, DropLock, Grant, LockFails,
        Return
  <2>5. ASSUME NEW p \in Writers, ReplaceStep(p)
        PROVE  mode \in {"startup", "scheduling"} /\ UNCHANGED <<run, configured>>
    BY <2>5 DEF ReplaceStep, CreateDraft, FillDraft, Rename, RemoveDraft, Release,
        Return
  <2> QED
    BY <1>1, <2>1, <2>2, <2>3, <2>4, <2>5 DEF SchedulerNext, AskStep
<1>2. CASE PluginNext
  BY <1>2 DEF PluginNext, PluginStart, PluginLock, PluginStep, ReadEntry,
      PluginUnlock, PluginPrint, PluginKilled, PluginGone
<1> QED
  BY <1>1, <1>2 DEF Next, vars

\* The sweep keeps exactly the results files of the configured plans.
LEMMA KeptFiles ==
    ASSUME NEW e \in Entries
    PROVE  Kept(e) <=> e \in configured \X {"json"}
BY DEF Kept, Entries

LEMMA CleanStep ==
    /\ TypeOK /\ JobsFit /\ DraftsFit /\ StartsClean /\ [Next]_vars
    => StartsClean'
<1> SUFFICES ASSUME TypeOK, JobsFit, DraftsFit, StartsClean, [Next]_vars,
                    mode' \in {"startup", "scheduling"},
                    NEW e \in Entries, disk'[e] \in Sections, disk'[e].run # run'
             PROVE  e \in configured' \X {"json"}
  BY DEF StartsClean
<1>1. disk'[e] # None /\ disk'[e] # Torn
  BY MarksAreNoSections
<1>2. CASE mode \in {"startup", "scheduling"} /\ UNCHANGED <<run, configured>>
  BY <1>1, <1>2, Appearances DEF StartsClean
<1>3. CASE Leftovers = {} /\ UNCHANGED <<disk, run, configured>>
  BY <1>1, <1>3, KeptFiles DEF Leftovers
<1> QED
  BY <1>2, <1>3, StartUps

LEMMA OneRunOnDiskStep ==
    /\ TypeOK /\ JobsFit /\ DraftsFit /\ StartsClean /\ OneRunOnDisk /\ [Next]_vars
    => OneRunOnDisk'
<1> SUFFICES ASSUME TypeOK, JobsFit, DraftsFit, StartsClean, OneRunOnDisk,
                    [Next]_vars, NEW e1 \in Entries, NEW e2 \in Entries,
                    Volatile(e1), disk'[e1] \in Sections,
                    Volatile(e2), disk'[e2] \in Sections
             PROVE  disk'[e1].run = disk'[e2].run
  BY DEF OneRunOnDisk, Volatile, TopLevel
<1>1. ASSUME NEW e \in Entries, disk'[e] \in Sections, disk'[e] # disk[e]
      PROVE  mode \in {"startup", "scheduling"} /\ disk'[e].run = run
  BY <1>1, MarksAreNoSections, Appearances
<1>2. ASSUME NEW e \in Entries, Volatile(e), disk[e] \in Sections,
             mode \in {"startup", "scheduling"}
      PROVE  disk[e].run = run
  <2>1. e \notin configured \X {"json"}
    BY <1>2, FilesAreOwned DEF Volatile, TopLevel, TypeOK
  <2> QED
    BY <1>2, <2>1 DEF StartsClean
<1>3. CASE mode \in {"startup", "scheduling"}
  BY <1>1, <1>2, <1>3
<1>4. CASE mode \notin {"startup", "scheduling"}
  BY <1>1, <1>4 DEF OneRunOnDisk
<1> QED
  BY <1>3, <1>4

\* A plugin has something to print because it had, or because its walk is over.
LEMMA StartsPrinting ==
    ASSUME TypeOK, [Next]_vars, NEW r \in Plugins, pc'[r] = "printing"
    PROVE  /\ seen'[r] = seen[r]
           /\ pc[r] = "printing" \/ (pc[r] = "reading" /\ todo[r] = {})
<1> USE DEF Procs, TypeOK, Goto
<1>1. CASE SchedulerNext
  BY <1>1, SchedulerLeavesPlugins DEF pluginVars
<1>2. ASSUME NEW other \in Plugins, ReadEntry(other)
      PROVE  seen'[r] = seen[r] /\ pc[r] = "printing"
  BY <1>2 DEF ReadEntry
<1>3. ASSUME NEW other \in Plugins,
             \/ PluginStart(other) \/ PluginLock(other) \/ PluginUnlock(other)
             \/ PluginPrint(other) \/ PluginKilled(other)
      PROVE  /\ seen'[r] = seen[r]
             /\ pc[r] = "printing" \/ (pc[r] = "reading" /\ todo[r] = {})
  BY <1>3 DEF PluginStart, PluginLock, PluginUnlock, PluginPrint, PluginKilled,
      PluginGone, pluginVars
<1>4. CASE UNCHANGED vars
  BY <1>4 DEF vars, pluginVars
<1> QED
  BY <1>1, <1>2, <1>3, <1>4 DEF Next, PluginNext, PluginStep

LEMMA OneRunPerSnapshotStep ==
    /\ TypeOK /\ ReadsAreCurrent /\ OneRunOnDisk /\ OneRunPerSnapshot /\ [Next]_vars
    => OneRunPerSnapshot'
<1> SUFFICES ASSUME TypeOK, ReadsAreCurrent, OneRunOnDisk, OneRunPerSnapshot,
                    [Next]_vars, NEW r \in Plugins, pc'[r] = "printing",
                    NEW e1 \in Entries, Volatile(e1), seen'[r][e1] # None,
                    NEW e2 \in Entries, Volatile(e2), seen'[r][e2] # None
             PROVE  seen'[r][e1].run = seen'[r][e2].run
  BY DEF OneRunPerSnapshot, Volatile, TopLevel
<1>1. CASE pc[r] = "printing"
  BY <1>1, StartsPrinting DEF OneRunPerSnapshot, Volatile
<1>2. CASE pc[r] = "reading" /\ todo[r] = {}
  <2>1. ASSUME NEW e \in Entries, seen'[r][e] # None
        PROVE  seen'[r][e] = disk[e] /\ disk[e] \in Sections
    <3>1. seen'[r][e] = Parse(disk[e])
      BY <1>2, StartsPrinting DEF ReadsAreCurrent
    <3> QED
      BY <2>1, <3>1 DEF Parse, TypeOK, Contents
  <2> QED
    BY <2>1 DEF OneRunOnDisk
<1> QED
  BY <1>1, <1>2, StartsPrinting

-----------------------------------------------------------------------------
(* Theorems *)

\* The invariant is established, and kept by every step.
THEOREM Invariance == Spec => []IInv
<1>1. Init => IInv
  BY TypeInit, JobsInit, ExclusionInit, WalksInit, RunsInit DEF IInv
<1>2. IInv /\ [Next]_vars => IInv'
  BY TypeStep, JobsStep, ExclusionStep, DraftsStep, PublishedStep, WalksStep,
     ReadsStep, CleanStep, OneRunOnDiskStep, OneRunPerSnapshotStep DEF IInv
<1> QED
  BY <1>1, <1>2, PTL DEF Spec

\* Every variable keeps its type, whatever fails and whoever crashes.
THEOREM Typing == Spec => []TypeOK
<1>1. IInv => TypeOK
  BY DEF IInv
<1> QED
  BY <1>1, Invariance, PTL

\* A writer that may change the directory is alone with it; nobody keeps the
\* lock beyond what it is needed for.
THEOREM MutualExclusion == Spec => []Exclusion
<1>1. IInv => Exclusion
  BY DEF IInv
<1> QED
  BY <1>1, Invariance, PTL

\* A plugin's walk sees the directory as it is at one moment.
THEOREM Snapshot == Spec => []ReadsAreCurrent
<1>1. IInv => ReadsAreCurrent
  BY DEF IInv
<1> QED
  BY <1>1, Invariance, PTL

\* No crash or error puts a truncated file under a section's own name.
THEOREM NeverTorn == Spec => []PublishedNeverTorn
<1>1. IInv => PublishedNeverTorn
  BY DEF IInv
<1> QED
  BY <1>1, Invariance, PTL

\* The leftovers of earlier processes are gone before the first section is written.
THEOREM CleanStart == Spec => []StartsClean
<1>1. IInv => StartsClean
  BY DEF IInv
<1> QED
  BY <1>1, Invariance, PTL

\* No snapshot mixes the sections of two scheduler processes.
THEOREM OneRun == Spec => []OneRunPerSnapshot
<1>1. IInv => OneRunPerSnapshot
  BY DEF IInv
<1> QED
  BY <1>1, Invariance, PTL

-----------------------------------------------------------------------------
(* The results directory implements ResultsStore.  Whatever a step of the   *)
(* scheduler does, it changes what is to be seen under one name at most:    *)
(* the draft of the one writer that may have one is out of sight.           *)

Shown == [e \in Entries |-> Visible(e)]

Taken == [r \in Plugins |-> IF pc[r] = "printing" THEN seen[r] ELSE NoSnapshot]

\* While a writer holds the lock, only its own draft can be under way.
LEMMA OnlyDraft ==
    ASSUME TypeOK, JobsFit, Exclusion, NEW p \in Writers, pc[p] \in Holding, NEW e
    PROVE  InProgress(e) <=> pc[p] \in Drafting /\ e = Tmp(job[p].file)
<1>1. ASSUME NEW q \in Writers, pc[q] \in Drafting PROVE q = p
  BY <1>1 DEF Exclusion, Holding, Replacing, Procs
<1> QED
  BY <1>1 DEF InProgress, JobsFit

LEMMA NoDraft ==
    ASSUME \A p \in Writers : pc[p] \notin Drafting, NEW e
    PROVE  ~InProgress(e)
BY DEF InProgress

\* Where no draft is begun, given up or changed, all that is seen stays.
LEMMA DraftsStay ==
    ASSUME UNCHANGED disk,
           \A p \in Writers :
               /\ pc'[p] \in Drafting <=> pc[p] \in Drafting
               /\ pc[p] \in Drafting => job'[p] = job[p],
           NEW e \in Entries
    PROVE  Visible(e)' = Visible(e)
<1>1. InProgress(e)' <=> InProgress(e)
  BY DEF InProgress
<1> QED
  BY <1>1 DEF Visible

\* A change under one name is one step of the store, or none.
LEMMA ChangesOne ==
    ASSUME TypeOK', Taken' = Taken, NEW e,
           \A other \in Entries : other # e => Visible(other)' = Visible(other)
    PROVE  [Store!StoreNext]_(Store!storeVars)
<1>1. CASE e \notin Entries
  BY <1>1 DEF Store!storeVars, Taken
<1>2. CASE e \in Entries
  <2>1. Shown' = [Shown EXCEPT ![e] = Visible(e)']
    BY DEF Shown
  <2>2. Visible(e)' \in Sections \cup {None}
    BY <1>2 DEF TypeOK, Visible, Parse, Contents
  <2> QED
    BY <1>2, <2>1, <2>2
    DEF Store!StoreNext, Store!Appear, Store!Disappear, Shown, Taken
<1> QED
  BY <1>1, <1>2

\* What a writer does to the file it replaces.
LEMMA ReplaceShows ==
    ASSUME IInv, IInv', NEW p \in Writers, ReplaceStep(p)
    PROVE  \E e : \A other \in Entries : other # e => Visible(other)' = Visible(other)
<1> USE ActorsAreDistinct DEF IInv, Procs, Writers
<1> PICK draft, file : draft = Tmp(job[p].file) /\ file = Json(job[p].file)
  OBVIOUS
<1>1. pc[p] \in Holding
  BY DEF ReplaceStep, CreateDraft, FillDraft, Rename, RemoveDraft, Release, Holding,
      Replacing, Drafting
<1>2. ASSUME NEW e PROVE InProgress(e) <=> pc[p] \in Drafting /\ e = draft
  BY <1>1, OnlyDraft
<1>3. ASSUME pc'[p] \in Replacing, job' = job, NEW e
      PROVE  InProgress(e)' <=> pc'[p] \in Drafting /\ e = draft
  <2>1. ASSUME NEW q \in Writers, pc'[q] \in Drafting PROVE q = p
    BY <1>3, <2>1 DEF Exclusion, Holding, Replacing
  <2> QED
    BY <1>3, <2>1 DEF InProgress, JobsFit
<1>4. CASE CreateDraft(p) \/ FillDraft(p) \/ RemoveDraft(p)
  <2>1. job' = job /\ pc'[p] \in Replacing
    BY <1>4 DEF CreateDraft, FillDraft, RemoveDraft, Goto, TypeOK, Replacing, Drafting,
        schedulerVars
  <2>2. ASSUME NEW e \in Entries, e # draft PROVE disk'[e] = disk[e]
    BY <1>4, <2>2 DEF CreateDraft, FillDraft, RemoveDraft, TypeOK
  <2>3. ASSUME NEW e \in Entries, e # draft PROVE Visible(e)' = Visible(e)
    BY <1>2, <1>3, <2>1, <2>2, <2>3 DEF Visible
  <2> QED
    BY <2>3
<1>5. CASE Rename(p)
  <2>1. job' = job /\ pc[p] = "written" /\ pc'[p] \in Replacing
    BY <1>5 DEF Rename, Goto, TypeOK, Replacing, Drafting, schedulerVars
  <2>2. draft \in Entries /\ file \in Entries /\ draft # file
    BY <2>1 DEF TypeOK, JobsFit, Jobs, Drafting, Tmp, Json, Entries
  <2>3. CASE disk' = disk /\ pc'[p] = "failed"
    <3>1. ASSUME NEW e \in Entries, e # draft PROVE Visible(e)' = Visible(e)
      BY <1>2, <1>3, <2>1, <2>3, <3>1 DEF Visible
    <3> QED
      BY <3>1
  <2>4. CASE /\ disk' = [disk EXCEPT ![file] = disk[draft], ![draft] = None]
             /\ pc'[p] = "done"
    <3>1. Visible(draft)' = Visible(draft)
      <4>1. ~InProgress(draft)' /\ InProgress(draft)
        BY <1>2, <1>3, <2>1, <2>4 DEF Drafting
      <4>2. disk'[draft] = None
        BY <2>2, <2>4 DEF TypeOK
      <4> QED
        BY <4>1, <4>2 DEF Visible, Parse
    <3>2. ASSUME NEW e \in Entries, e # draft, e # file PROVE Visible(e)' = Visible(e)
      <4>1. disk'[e] = disk[e]
        BY <2>2, <2>4, <3>2 DEF TypeOK
      <4> QED
        BY <1>2, <1>3, <2>1, <3>2, <4>1 DEF Visible
    <3> QED
      BY <3>1, <3>2
  <2> QED
    BY <1>5, <2>3, <2>4 DEF Rename, Goto, TypeOK
<1>6. CASE Release(p)
  <2>1. /\ UNCHANGED disk
        /\ pc[p] \notin Drafting /\ pc'[p] \notin Drafting
        /\ \A q \in Writers \ {p} : pc'[q] = pc[q] /\ job'[q] = job[q]
    BY <1>6 DEF Release, Return, Goto, Drafting, TypeOK
  <2>2. ASSUME NEW e \in Entries PROVE Visible(e)' = Visible(e)
    BY <2>1, DraftsStay
  <2> QED
    BY <2>2
<1> QED
  BY <1>4, <1>5, <1>6 DEF ReplaceStep

\* What the scheduler does otherwise.
LEMMA SchedulerShows ==
    ASSUME IInv, IInv', SchedulerNext
    PROVE  \E e : \A other \in Entries : other # e => Visible(other)' = Visible(other)
<1> USE ActorsAreDistinct DEF IInv, Procs, Writers
<1> DEFINE Goal == \E e : \A other \in Entries :
                       other # e => Visible(other)' = Visible(other)
<1>1. ASSUME UNCHANGED disk,
             \A p \in Writers : /\ pc'[p] \in Drafting <=> pc[p] \in Drafting
                                /\ pc[p] \in Drafting => job'[p] = job[p]
      PROVE  Goal
  BY <1>1, DraftsStay
<1>2. CASE Boot \/ Cancel \/ BeginScheduling
  BY <1>1, <1>2 DEF Boot, Cancel, BeginScheduling
<1>3. CASE Exit \/ Crash
  <2>1. UNCHANGED disk /\ \A p \in Writers : pc'[p] \notin Drafting
    BY <1>3 DEF Exit, Crash, Gone, Drafting
  <2>2. ASSUME NEW e PROVE ~InProgress(e)'
    BY <2>1 DEF InProgress
  <2>3. CASE \A p \in Writers : pc[p] \notin Drafting
    BY <2>1, <2>2, <2>3, NoDraft DEF Visible
  <2>4. ASSUME NEW p \in Writers, pc[p] \in Drafting PROVE Goal
    <3>1. pc[p] \in Holding
      BY <2>4 DEF Holding, Replacing
    <3>2. ASSUME NEW e \in Entries, e # Tmp(job[p].file) PROVE ~InProgress(e)
      BY <3>1, <3>2, OnlyDraft
    <3>3. ASSUME NEW e \in Entries, e # Tmp(job[p].file) PROVE Visible(e)' = Visible(e)
      BY <2>1, <2>2, <3>2, <3>3 DEF Visible
    <3> QED
      BY <3>3
  <2> QED
    BY <2>3, <2>4
<1>4. CASE AskStep
  <2>1. PICK p \in Writers :
            /\ pc[p] = "idle" /\ Goto(p, "queued") /\ UNCHANGED disk
            /\ \A q \in Writers \ {p} : job'[q] = job[q]
    BY <1>4, AskedBy
  <2> QED
    BY <1>1, <2>1 DEF Goto, Drafting, TypeOK
<1>5. CASE SweepStep
  <2>1. ASSUME NEW e \in Entries, SweepEntry(e) PROVE Goal
    <3>1. \A other \in Entries : other # e => disk'[other] = disk[other]
      BY <2>1 DEF SweepEntry, TypeOK
    <3>2. \A other : InProgress(other)' <=> InProgress(other)
      BY <2>1 DEF SweepEntry, InProgress, schedulerVars
    <3> QED
      BY <3>1, <3>2 DEF Visible
  <2>2. CASE SweepFails \/ SweepDone
    BY <1>1, <2>2
    DEF SweepFails, SweepDone, Sweeping, Return, Goto, Drafting, TypeOK
  <2> QED
    BY <1>5, <2>1, <2>2 DEF SweepStep
<1>6. ASSUME NEW p \in Writers, WaitStep(p) \/ Grant(p) \/ LockFails(p) PROVE Goal
  <2>1. /\ UNCHANGED disk
        /\ pc[p] \notin Drafting /\ pc'[p] \notin Drafting
        /\ \A q \in Writers \ {p} : pc'[q] = pc[q] /\ job'[q] = job[q]
    BY <1>6
    DEF WaitStep, Park, TakeLock, AbandonWait, DropLock, Grant, LockFails, Return,
        Goto, Drafting, TypeOK, schedulerVars
  <2> QED
    BY <1>1, <2>1
<1>7. ASSUME NEW p \in Writers, ReplaceStep(p) PROVE Goal
  BY <1>7, ReplaceShows
<1> QED
  BY <1>2, <1>3, <1>4, <1>5, <1>6, <1>7 DEF SchedulerNext, AskStep

LEMMA StoreInitially == Init => Store!StoreInit
<1>1. Init => \A p \in Writers : pc[p] \notin Drafting
  BY DEF Init, Drafting, Procs
<1>2. Init => \A e \in Entries : Visible(e) = None
  BY <1>1, NoDraft DEF Init, NothingSeen, Visible, Parse
<1>3. Init => \A r \in Plugins : pc[r] # "printing"
  BY DEF Init, Procs
<1> QED
  BY <1>2, <1>3 DEF Store!StoreInit

(***************************************************************************)
(* A plugin takes its snapshot at the moment it lets go of the lock: it    *)
(* has read the whole directory, no writer can have changed it, and no     *)
(* draft is under way.                                                     *)
(***************************************************************************)
LEMMA UnlockTakes ==
    ASSUME IInv, NEW r \in Plugins, pc[r] = "reading", todo[r] = {}
    PROVE  seen[r] = Shown
<1> USE DEF IInv
<1>1. \A p \in Writers : pc[p] \notin Drafting
  BY ActorsAreDistinct DEF Exclusion, Holding, Replacing, Procs
<1>2. \A e \in Entries : seen[r][e] = Visible(e)
  BY <1>1, NoDraft DEF ReadsAreCurrent, Visible
<1>3. seen[r] \in [Entries -> Sections \cup {None}]
  BY DEF TypeOK
<1> QED
  BY <1>2, <1>3 DEF Shown

LEMMA PluginShows ==
    ASSUME IInv, PluginNext
    PROVE  [Store!StoreNext]_(Store!storeVars)
<1> USE ActorsAreDistinct DEF IInv, Procs, Writers, Goto
<1>1. Shown' = Shown
  <2>1. UNCHANGED <<disk, job>> /\ \A p \in Writers : pc'[p] = pc[p]
    BY DEF PluginNext, PluginStart, PluginLock, PluginStep, ReadEntry, PluginUnlock,
        PluginPrint, PluginKilled, PluginGone, TypeOK, schedulerVars
  <2>2. \A e \in Entries : Visible(e)' = Visible(e)
    BY <2>1, DraftsStay
  <2> QED
    BY <2>2 DEF Shown
<1>2. ASSUME NEW r \in Plugins, PluginUnlock(r)
      PROVE  Taken[r] = NoSnapshot /\ Taken' = [Taken EXCEPT ![r] = Shown]
  <2>1. seen[r] = Shown /\ pc[r] = "reading"
    BY <1>2, UnlockTakes DEF PluginUnlock
  <2>2. seen' = seen /\ pc' = [pc EXCEPT ![r] = "printing"]
    BY <1>2 DEF PluginUnlock, pluginVars
  <2> QED
    BY <2>1, <2>2 DEF Taken, TypeOK
<1>3. ASSUME NEW r \in Plugins, PluginGone(r)
      PROVE  Taken' = [Taken EXCEPT ![r] = NoSnapshot]
  BY <1>3 DEF PluginGone, Taken, TypeOK
<1>4. ASSUME NEW r \in Plugins, PluginStart(r) \/ PluginLock(r) \/ ReadEntry(r)
      PROVE  Taken' = Taken
  BY <1>4 DEF PluginStart, PluginLock, ReadEntry, Taken, TypeOK, pluginVars
<1>5. ASSUME NEW r \in Plugins, Taken' = [Taken EXCEPT ![r] = NoSnapshot]
      PROVE  [Store!StoreNext]_(Store!storeVars)
  <2>1. CASE Taken[r] = NoSnapshot
    BY <1>1, <1>5, <2>1 DEF Store!storeVars, Shown, Taken
  <2>2. CASE Taken[r] # NoSnapshot
    BY <1>1, <1>5, <2>2 DEF Store!StoreNext, Store!Done, Shown, Taken
  <2> QED
    BY <2>1, <2>2
<1>6. ASSUME NEW r \in Plugins, Taken[r] = NoSnapshot,
             Taken' = [Taken EXCEPT ![r] = Shown]
      PROVE  [Store!StoreNext]_(Store!storeVars)
  BY <1>1, <1>6 DEF Store!StoreNext, Store!Take, Shown, Taken
<1>7. Taken' = Taken => UNCHANGED Store!storeVars
  BY <1>1 DEF Store!storeVars, Shown, Taken
<1> QED
  BY <1>2, <1>3, <1>4, <1>5, <1>6, <1>7
  DEF PluginNext, PluginStep, PluginPrint, PluginKilled

LEMMA StoreStep ==
    ASSUME IInv, IInv', [Next]_vars
    PROVE  [Store!StoreNext]_(Store!storeVars)
<1>1. CASE SchedulerNext
  <2>1. Taken' = Taken
    BY <1>1, SchedulerLeavesPlugins DEF IInv, Taken, pluginVars
  <2> QED
    BY <1>1, <2>1, SchedulerShows, ChangesOne DEF IInv
<1>2. CASE UNCHANGED vars
  <2>1. Taken' = Taken /\ \A e \in Entries : Visible(e)' = Visible(e)
    BY <1>2
    DEF vars, schedulerVars, pluginVars, Taken, Visible, InProgress
  <2> QED
    BY <2>1 DEF Store!storeVars, Taken
<1> QED
  BY <1>1, <1>2, PluginShows DEF Next

(***************************************************************************)
(* section.rs, lock.rs and setup/general.rs together keep the promise of   *)
(* ResultsStore: to a plugin, sections appear and disappear one at a time  *)
(* and in one piece, and it sees all of the directory as it was at one     *)
(* moment, whatever fails, is cancelled or crashes.                        *)
(***************************************************************************)
THEOREM StoreIsImplemented == Spec => ImplementsStore
<1>1. IInv /\ IInv' /\ [Next]_vars => [Store!StoreNext]_(Store!storeVars)
  BY StoreStep
<1> QED
  BY StoreInitially, <1>1, Invariance, PTL DEF Spec, ImplementsStore, Store!StoreSpec

-----------------------------------------------------------------------------
(* What becomes of a published result.                                     *)

(***************************************************************************)
(* A published section outlives errors, crashes and cancelled waits.  It   *)
(* gives way to a whole section of the process that runs, or goes in the   *)
(* set-up of a process that is not configured with its plan.               *)
(***************************************************************************)
ResultsAreKept ==
    \A f \in Files :
        disk[Json(f)] # None /\ disk'[Json(f)] # disk[Json(f)] =>
            \/ disk'[Json(f)] \in Sections /\ disk'[Json(f)].run = run
            \/ disk'[Json(f)] = None /\ f \notin configured /\ mode = "setup"

\* The lock is asked for with nothing to write only to sweep, and so at first.
SweepsFirst == pc[Main] # "idle" /\ job[Main] = None => mode = "setup"

LEMMA SweepsFirstInit == Init => SweepsFirst
BY DEF Init, SweepsFirst, Procs, Writers

LEMMA SweepsFirstStep ==
    TypeOK /\ JobsFit /\ SweepsFirst /\ [Next]_vars => SweepsFirst'
<1> SUFFICES ASSUME TypeOK, JobsFit, SweepsFirst, [Next]_vars
             PROVE  SweepsFirst'
  OBVIOUS
<1>a. Main \in Writers /\ Main \in Procs /\ Main \notin Plugins
  BY ActorsAreDistinct DEF Procs, Writers
<1> USE <1>a DEF Goto, schedulerVars, SweepsFirst
<1>1. CASE Boot \/ Cancel \/ BeginScheduling \/ Exit \/ Crash
  BY <1>1 DEF Boot, Cancel, BeginScheduling, Exit, Crash, Gone, JobsFit, Procs
<1>2. CASE StartSweep
  BY <1>2 DEF StartSweep, Ask
<1>3. ASSUME NEW f \in TopFiles, StartTopWrite(f)
      PROVE  SweepsFirst'
  <2>1. PICK b \in Bodies :
            Ask(Main, [file |-> f, section |-> [run |-> run, body |-> b]])
    BY <1>3 DEF StartTopWrite
  <2>2. job'[Main] # None
    <3>1. job'[Main] = [file |-> f, section |-> [run |-> run, body |-> b]]
      BY <2>1 DEF Ask, TypeOK
    <3>2. [run |-> run, body |-> b] \in Sections /\ f \in Files
      BY DEF TypeOK, Sections, Files
    <3> QED
      BY <3>1, <3>2, NothingIsNoJob
  <2> QED
    BY <2>2
<1>4. ASSUME NEW f \in PlanFiles, StartPlanWrite(f)
      PROVE  SweepsFirst'
  <2>1. Owner[f] # Main /\ Owner[f] \in Writers
    BY FilesAreOwned, ActorsAreDistinct DEF Writers
  <2> QED
    BY <1>4, <2>1 DEF StartPlanWrite, Ask, TypeOK
<1>5. CASE SweepStep
  BY <1>5 DEF SweepStep, SweepFails, SweepDone, SweepEntry, Return, TypeOK
<1>6. ASSUME NEW p \in Writers, WaitStep(p) \/ Grant(p) \/ LockFails(p)
      PROVE  SweepsFirst'
  BY <1>6 DEF WaitStep, Park, TakeLock, AbandonWait, DropLock, Grant, LockFails,
      Return, TypeOK
<1>7. ASSUME NEW p \in Writers, ReplaceStep(p)
      PROVE  SweepsFirst'
  BY <1>7 DEF ReplaceStep, CreateDraft, FillDraft, Rename, RemoveDraft, Release,
      Return, TypeOK
<1>8. CASE PluginNext
  BY <1>8 DEF PluginNext, PluginStart, PluginLock, PluginStep, ReadEntry,
      PluginUnlock, PluginPrint, PluginKilled, PluginGone, TypeOK
<1>9. CASE UNCHANGED vars
  BY <1>9 DEF vars
<1> QED
  BY <1>1, <1>2, <1>3, <1>4, <1>5, <1>6, <1>7, <1>8, <1>9 DEF Next, SchedulerNext

\* Only a rename or the sweep touches what is published.
LEMMA PublishedChanges ==
    ASSUME IInv, SweepsFirst, [Next]_vars
    PROVE  ResultsAreKept
<1> SUFFICES ASSUME NEW f \in Files, disk[Json(f)] # None,
                    disk'[Json(f)] # disk[Json(f)]
             PROVE  \/ disk'[Json(f)] \in Sections /\ disk'[Json(f)].run = run
                    \/ disk'[Json(f)] = None /\ f \notin configured /\ mode = "setup"
  BY DEF ResultsAreKept
<1>1. Json(f) \in Entries /\ Json(f)[2] # "tmp"
  BY DEF Json, Entries
<1>2. CASE disk'[Json(f)] # None
  BY <1>1, <1>2, Appearances DEF IInv
<1>3. CASE disk'[Json(f)] = None
  <2>1. ASSUME NEW p \in Writers, ReplaceStep(p)
        PROVE  FALSE
    <3>1. ASSUME ~Release(p)
          PROVE  job[p] \in Jobs /\ Tmp(job[p].file) # Json(f)
      BY <2>1, <3>1
      DEF ReplaceStep, CreateDraft, FillDraft, Rename, RemoveDraft, IInv, TypeOK,
          JobsFit, Drafting, Tmp, Json
    <3>2. CASE Release(p)
      BY <1>3, <3>2 DEF Release
    <3>3. CASE Rename(p)
      <4>1. disk[Tmp(job[p].file)] = job[p].section /\ job[p].section \in Sections
        BY <3>1, <3>3 DEF Rename, Release, IInv, DraftsFit, Jobs
      <4>2. /\ disk' = [disk EXCEPT ![Json(job[p].file)] = disk[Tmp(job[p].file)],
                                    ![Tmp(job[p].file)] = None]
            /\ job[p] \in Jobs /\ Tmp(job[p].file) # Json(f)
        BY <1>3, <3>1, <3>3 DEF Rename, Release
      <4>3. disk'[Json(f)] = job[p].section
        BY <1>1, <1>3, <4>1, <4>2 DEF IInv, TypeOK, Jobs, Json, Tmp, Entries
      <4> QED
        BY <1>3, <4>1, <4>3, MarksAreNoSections
    <3>4. CASE CreateDraft(p) \/ FillDraft(p) \/ RemoveDraft(p)
      <4>1. \A e \in Entries : e # Tmp(job[p].file) => disk'[e] = disk[e]
        BY <3>4 DEF CreateDraft, FillDraft, RemoveDraft, IInv, TypeOK
      <4> QED
        BY <1>1, <1>3, <3>1, <3>4, <4>1
        DEF Release, CreateDraft, FillDraft, RemoveDraft
    <3> QED
      BY <2>1, <3>2, <3>3, <3>4 DEF ReplaceStep
  <2>2. ASSUME NEW e \in Entries, SweepEntry(e)
        PROVE  f \notin configured /\ mode = "setup"
    <3>1. e = Json(f)
      BY <1>1, <1>3, <2>2 DEF SweepEntry, IInv, TypeOK
    <3>2. f \notin configured
      BY <2>2, <3>1 DEF SweepEntry, Leftovers, Kept, Json
    <3>3. mode = "setup"
      BY <2>2 DEF SweepEntry, Sweeping, SweepsFirst
    <3> QED
      BY <3>2, <3>3
  <2> QED
    BY <1>3, <2>1, <2>2, DiskChangedBy
<1> QED
  BY <1>2, <1>3

\* A published result is never lost, only replaced by a newer one, or swept
\* when nobody is configured to renew it.
THEOREM PublishedIsKept == Spec => [][ResultsAreKept]_vars
<1>1. Init => SweepsFirst
  BY SweepsFirstInit
<1>2. IInv /\ SweepsFirst /\ [Next]_vars => SweepsFirst' /\ ResultsAreKept
  BY SweepsFirstStep, PublishedChanges DEF IInv
<1> QED
  BY <1>1, <1>2, Invariance, PTL DEF Spec
=============================================================================
