--------------------------- MODULE Cleanup_proofs ---------------------------
(***************************************************************************)
(* Proofs about Cleanup for any number of executions and of clean-ups, any *)
(* limit, and any bound of the clock.                                      *)
(***************************************************************************)
EXTENDS Cleanup, FiniteSetTheorems, TLAPS

\* What was read was the modification time once, and is not later than it.
SeenFits ==
    /\ \A d \in Executions : created[d] <= mtime[d] /\ mtime[d] <= clock
    /\ \A c \in CleanUps :
        /\ now[c] <= clock
        /\ listed[c] \subseteq Started
        /\ unread[c] \subseteq listed[c]
        /\ DOMAIN seen[c] \subseteq listed[c]
        /\ \A d \in DOMAIN seen[c] :
            created[d] <= seen[c][d] /\ seen[c][d] <= mtime[d]
        /\ victims[c] \subseteq DOMAIN seen[c]
        /\ step[c] = "idle" => DOMAIN seen[c] = {}

\* What entitles a clean-up to remove a directory.
Aged(d) == Secs(clock - created[d]) > Limit

Due(d) ==
    /\ Policy = "MaxExecutions" => Outdone(d)
    /\ Policy = "MaxAgeSecs" => Aged(d)

Condemned(d) == state[d] # "whole" \/ \E c \in CleanUps : d \in victims[c]

OnlyDueRemoved == \A d \in Started : Condemned(d) => Due(d)

IInv == TypeOK /\ SeenFits /\ OnlyDueRemoved

-----------------------------------------------------------------------------
(* The configuration, seconds, and what a step leaves alone.               *)

LEMMA ConfigIs ==
    ASSUME TypeOK
    PROVE  Limit \in Nat /\ Policy \in {"MaxAgeSecs", "MaxExecutions"}
BY ConfigsAreKnown DEF TypeOK, Limit, Policy

LEMMA SecsIsNat == ASSUME NEW a \in Nat PROVE Secs(a) \in Nat
BY SecondIsPositive DEF Secs

LEMMA SecsMonotone ==
    ASSUME NEW a \in Nat, NEW b \in Nat, a <= b
    PROVE  Secs(a) <= Secs(b)
BY SecondIsPositive DEF Secs

LEMMA ReadingsAre ==
    ASSUME NEW f
    PROVE  f \in Readings <=>
               DOMAIN f \subseteq Executions /\ f \in [DOMAIN f -> Times]
BY DEF Readings

LEMMA NothingIsRead == NothingRead \in Readings /\ DOMAIN NothingRead = {}
BY ReadingsAre DEF NothingRead

\* The steps that leave the directories as they are.
QuietStep(c) ==
    \/ List(c) \/ TakeTime(c) \/ Choose(c) \/ Finish(c)
    \/ \E d \in Executions :
           ReadMetadata(c, d) \/ MetadataFails(c, d) \/ RemovalFails(c, d)

LEMMA Steps ==
    ASSUME [Next]_vars
    PROVE  \/ UNCHANGED vars
           \/ Tick
           \/ Crash
           \/ \E d \in Executions : StartExecution(d) \/ WriteInto(d)
           \/ \E c \in CleanUps :
                  \/ QuietStep(c)
                  \/ \E d \in Executions : RemoveContent(c, d) \/ RemoveDir(c, d)
BY DEF Next, CleanUpStep, QuietStep

LEMMA QuietSteps ==
    ASSUME NEW c \in CleanUps, QuietStep(c)
    PROVE  UNCHANGED directories
BY DEF QuietStep, List, TakeTime, Choose, Finish, ReadMetadata, MetadataFails,
    RemovalFails

LEMMA ConfigStays ==
    ASSUME [Next]_vars
    PROVE  config' = config /\ Limit' = Limit /\ Policy' = Policy
<1>1. config' = config
  BY Steps, QuietSteps
  DEF Tick, Crash, StartExecution, WriteInto, RemoveContent, RemoveDir,
      directories, vars
<1> QED
  BY <1>1 DEF Limit, Policy

\* What is there stays known, and time does not go back.
LEMMA TimeGrows ==
    ASSUME TypeOK, SeenFits, [Next]_vars
    PROVE  /\ clock <= clock'
           /\ Started \subseteq Started'
           /\ \A d \in Started : created'[d] = created[d] /\ mtime[d] <= mtime'[d]
<1> USE BoundsAreNatural DEF TypeOK, Times, Started
<1>1. CASE UNCHANGED directories
  BY <1>1 DEF directories
<1>2. CASE Tick
  BY <1>2 DEF Tick
<1>3. CASE \E d \in Executions : StartExecution(d)
  BY <1>3 DEF StartExecution
<1>4. CASE \E d \in Executions : WriteInto(d)
  BY <1>4 DEF WriteInto, SeenFits
<1>5. CASE \E c \in CleanUps, d \in Executions : RemoveContent(c, d)
  BY <1>5 DEF RemoveContent, There, SeenFits
<1>6. CASE \E c \in CleanUps, d \in Executions : RemoveDir(c, d)
  BY <1>6 DEF RemoveDir, There
<1>7. CASE Crash
  BY <1>7, <1>1 DEF Crash
<1>8. CASE UNCHANGED vars
  BY <1>8, <1>1 DEF vars
<1> QED
  BY <1>1, <1>2, <1>3, <1>4, <1>5, <1>6, <1>7, <1>8, Steps, QuietSteps

LEMMA DueLasts ==
    ASSUME TypeOK, TypeOK', SeenFits, [Next]_vars, NEW d \in Started, Due(d)
    PROVE  Due(d)'
<1> USE BoundsAreNatural, TimeGrows, ConfigStays DEF TypeOK, Times
<1>1. ASSUME Outdone(d) PROVE Outdone(d)'
  <2>1. PICK rivals \in SUBSET (Started \ {d}) :
            /\ Cardinality(rivals) = Limit
            /\ \A e \in rivals : Secs(mtime[e]) >= Secs(created[d])
    BY <1>1 DEF Outdone
  <2>2. ASSUME NEW e \in rivals PROVE Secs(mtime'[e]) >= Secs(created'[d])
    <3>1. Secs(mtime[e]) <= Secs(mtime'[e])
      BY SecsMonotone DEF Started
    <3> QED
      BY <2>1, <3>1, SecsIsNat DEF Started
  <2> QED
    BY <2>1, <2>2 DEF Outdone, Started
<1>2. ASSUME Aged(d) PROVE Aged(d)'
  <2>1. /\ clock - created[d] \in Nat /\ clock' - created'[d] \in Nat
        /\ clock - created[d] <= clock' - created'[d]
    BY DEF Started, SeenFits
  <2> QED
    BY <1>2, <2>1, SecsMonotone, SecsIsNat, ConfigIs DEF Aged
<1> QED
  BY <1>1, <1>2 DEF Due

-----------------------------------------------------------------------------
(* The inductive invariant.                                                *)

LEMMA InvInit == Init => IInv
<1> SUFFICES ASSUME Init PROVE IInv
  OBVIOUS
<1> USE BoundsAreNatural DEF Init, Times
<1>1. TypeOK
  <2>1. overlapped \in BOOLEAN
    OBVIOUS
  <2> QED
    BY <2>1, NothingIsRead DEF TypeOK
<1>2. SeenFits
  BY NothingIsRead DEF SeenFits, Started
<1>3. OnlyDueRemoved
  BY DEF OnlyDueRemoved, Started
<1> QED
  BY <1>1, <1>2, <1>3 DEF IInv

LEMMA TypeStep ==
    ASSUME TypeOK, SeenFits, [Next]_vars
    PROVE  TypeOK'
<1> USE BoundsAreNatural DEF TypeOK, Times
<1>1. CASE Tick
  BY <1>1 DEF Tick, cleaning
<1>2. CASE Crash
  BY <1>2, NothingIsRead DEF Crash, Forget, directories
<1>3. ASSUME NEW d \in Executions, StartExecution(d) \/ WriteInto(d)
      PROVE  TypeOK'
  BY <1>3 DEF StartExecution, WriteInto, cleaning
<1>4. ASSUME NEW c \in CleanUps, NEW d \in Executions,
             RemoveContent(c, d) \/ RemoveDir(c, d)
      PROVE  TypeOK'
  BY <1>4 DEF RemoveContent, RemoveDir, cleaning
<1>5. ASSUME NEW c \in CleanUps, QuietStep(c) PROVE TypeOK'
  <2> USE DEF directories
  <2>1. CASE List(c)
    BY <2>1 DEF List, There
  <2>2. CASE TakeTime(c)
    BY <2>2 DEF TakeTime
  <2>3. CASE Choose(c)
    <3>1. PICK chosen \in Choices(c) :
              /\ victims' = [victims EXCEPT ![c] = chosen]
              /\ seen' = [seen EXCEPT ![c] = [d \in chosen |-> seen[c][d]]]
      BY <2>3 DEF Choose
    <3>2. chosen \subseteq DOMAIN seen[c]
      BY DEF Choices, Old, Surplus
    <3>3. [d \in chosen |-> seen[c][d]] \in Readings
      BY <3>2, ReadingsAre
    <3>4. chosen \subseteq Executions
      BY <3>2, ReadingsAre
    <3> QED
      BY <2>3, <3>1, <3>3, <3>4 DEF Choose
  <2>4. CASE Finish(c)
    BY <2>4, NothingIsRead DEF Finish, Forget
  <2>5. ASSUME NEW d \in Executions, ReadMetadata(c, d) PROVE TypeOK'
    <3> DEFINE more == [e \in DOMAIN seen[c] \cup {d} |->
                           IF e = d THEN mtime[d] ELSE seen[c][e]]
    <3>1. more \in Readings
      BY ReadingsAre
    <3> HIDE DEF more
    <3> QED
      BY <2>5, <3>1 DEF ReadMetadata, more
  <2>6. ASSUME NEW d \in Executions, MetadataFails(c, d) \/ RemovalFails(c, d)
        PROVE  TypeOK'
    BY <2>6 DEF MetadataFails, RemovalFails
  <2> QED
    BY <1>5, <2>1, <2>2, <2>3, <2>4, <2>5, <2>6 DEF QuietStep
<1>6. CASE UNCHANGED vars
  BY <1>6 DEF vars, directories, cleaning
<1> QED
  BY <1>1, <1>2, <1>3, <1>4, <1>5, <1>6, Steps

LEMMA SeenStep ==
    ASSUME TypeOK, SeenFits, [Next]_vars
    PROVE  SeenFits'
<1> USE BoundsAreNatural DEF TypeOK, Times
<1>0. \A c \in CleanUps :
          DOMAIN seen[c] \subseteq Executions /\ seen[c] \in [DOMAIN seen[c] -> Times]
  BY ReadingsAre
<1>1. \A d \in Executions : created'[d] <= mtime'[d] /\ mtime'[d] <= clock'
  <2>1. CASE UNCHANGED directories
    BY <2>1 DEF directories, SeenFits
  <2>2. CASE Tick
    BY <2>2 DEF Tick, SeenFits
  <2>3. CASE \E d \in Executions : StartExecution(d) \/ WriteInto(d)
    BY <2>3 DEF StartExecution, WriteInto, SeenFits
  <2>4. CASE \E c \in CleanUps, d \in Executions :
                RemoveContent(c, d) \/ RemoveDir(c, d)
    BY <2>4 DEF RemoveContent, RemoveDir, SeenFits
  <2> QED
    BY <2>1, <2>2, <2>3, <2>4, Steps, QuietSteps DEF Crash, vars
<1>2. CASE UNCHANGED cleaning
  <2> SUFFICES ASSUME NEW c \in CleanUps
               PROVE  /\ now[c] <= clock'
                      /\ listed[c] \subseteq Started'
                      /\ unread[c] \subseteq listed[c]
                      /\ DOMAIN seen[c] \subseteq listed[c]
                      /\ \A d \in DOMAIN seen[c] :
                          created'[d] <= seen[c][d] /\ seen[c][d] <= mtime'[d]
                      /\ victims[c] \subseteq DOMAIN seen[c]
                      /\ step[c] = "idle" => DOMAIN seen[c] = {}
    BY <1>1, <1>2 DEF SeenFits, cleaning
  <2>1. listed[c] \subseteq Started' /\ now[c] <= clock'
    <3>1. now[c] <= clock /\ listed[c] \subseteq Started
      BY DEF SeenFits
    <3>2. now[c] \in Times /\ clock' \in Times
      BY TypeStep
    <3> QED
      BY <3>1, <3>2, TimeGrows
  <2>2. ASSUME NEW d \in DOMAIN seen[c]
        PROVE  created'[d] <= seen[c][d] /\ seen[c][d] <= mtime'[d]
    <3>1. d \in Started /\ d \in Executions
      BY <1>0 DEF SeenFits
    <3>2. created[d] <= seen[c][d] /\ seen[c][d] <= mtime[d]
      BY DEF SeenFits
    <3>3. seen[c][d] \in Times /\ created[d] \in Times /\ mtime[d] \in Times
          /\ mtime'[d] \in Times
      BY <1>0, <3>1, TypeStep
    <3> QED
      BY <3>1, <3>2, <3>3, TimeGrows
  <2> QED
    BY <2>1, <2>2 DEF SeenFits
<1>3. CASE Crash
  BY <1>1, <1>3, NothingIsRead DEF Crash, Forget, SeenFits, directories
<1>4. ASSUME NEW c \in CleanUps, NEW d \in Executions, RemoveDir(c, d)
      PROVE  SeenFits'
  BY <1>0, <1>1, <1>4, TimeGrows DEF RemoveDir, SeenFits
<1>5. ASSUME NEW c \in CleanUps, QuietStep(c) PROVE SeenFits'
  <2>1. UNCHANGED directories
    BY <1>5, QuietSteps
  <2> USE <1>0, <1>1, <2>1 DEF directories, SeenFits, Started
  <2>2. CASE List(c)
    <3>1. DOMAIN seen[c] = {} /\ victims[c] = {}
      BY <2>2 DEF List
    <3> QED
      BY <2>2, <3>1 DEF List, There
  <2>3. CASE TakeTime(c)
    BY <2>3 DEF TakeTime
  <2>4. CASE Choose(c)
    <3>1. PICK chosen \in Choices(c) :
              /\ victims' = [victims EXCEPT ![c] = chosen]
              /\ seen' = [seen EXCEPT ![c] = [d \in chosen |-> seen[c][d]]]
      BY <2>4 DEF Choose
    <3>2. chosen \subseteq DOMAIN seen[c]
      BY DEF Choices, Old, Surplus
    <3> QED
      BY <2>4, <3>1, <3>2 DEF Choose
  <2>5. CASE Finish(c)
    BY <2>5, NothingIsRead DEF Finish, Forget
  <2>6. ASSUME NEW d \in Executions, ReadMetadata(c, d) PROVE SeenFits'
    BY <2>6 DEF ReadMetadata
  <2>7. ASSUME NEW d \in Executions, MetadataFails(c, d) PROVE SeenFits'
    BY <2>7 DEF MetadataFails
  <2>8. ASSUME NEW d \in Executions, RemovalFails(c, d) PROVE SeenFits'
    BY <2>8 DEF RemovalFails
  <2> QED
    BY <1>5, <2>2, <2>3, <2>4, <2>5, <2>6, <2>7, <2>8 DEF QuietStep
<1> QED
  BY <1>2, <1>3, <1>4, <1>5, Steps
  DEF Tick, StartExecution, WriteInto, RemoveContent, vars

\* What a clean-up chooses, it may remove.
LEMMA ChosenAreDue ==
    ASSUME TypeOK, SeenFits, NEW c \in CleanUps, NEW chosen \in Choices(c),
           NEW d \in chosen
    PROVE  Due(d)
<1> USE BoundsAreNatural DEF TypeOK, Times
<1>1. /\ DOMAIN seen[c] \subseteq Started
      /\ seen[c] \in [DOMAIN seen[c] -> Times]
      /\ d \in DOMAIN seen[c]
  BY ReadingsAre DEF Choices, Old, Surplus, SeenFits
<1>2. CASE Policy = "MaxAgeSecs"
  <2>1. IsOld(c, d)
    BY <1>2 DEF Choices, Old
  <2>2. /\ now[c] - seen[c][d] \in Nat /\ clock - created[d] \in Nat
        /\ now[c] - seen[c][d] <= clock - created[d]
    BY <1>1, <2>1 DEF IsOld, SeenFits, Started
  <2>3. Secs(now[c] - seen[c][d]) <= Secs(clock - created[d])
    BY <2>2, SecsMonotone
  <2>4. /\ Limit \in Nat /\ Secs(now[c] - seen[c][d]) \in Nat
        /\ Secs(clock - created[d]) \in Nat
    BY <2>2, SecsIsNat, ConfigIs
  <2>5. Secs(now[c] - seen[c][d]) > Limit
    BY <2>1 DEF IsOld
  <2>6. Aged(d)
    BY <2>3, <2>4, <2>5 DEF Aged
  <2> QED
    BY <1>2, <2>6 DEF Due
<1>3. CASE Policy = "MaxExecutions"
  <2>1. PICK kept \in SUBSET DOMAIN seen[c] :
            /\ Cardinality(kept) = Limit
            /\ \A e \in kept, f \in DOMAIN seen[c] \ kept : Newer(c, e, f)
            /\ chosen = DOMAIN seen[c] \ kept
    BY <1>3 DEF Choices, Surplus
  <2>2. ASSUME NEW e \in kept PROVE Secs(mtime[e]) >= Secs(created[d])
    <3>1. e \in Executions /\ d \in Executions
      BY <1>1 DEF Started
    <3>2. Secs(created[d]) <= Secs(seen[c][d])
      BY <1>1, <3>1, SecsMonotone DEF SeenFits
    <3>3. Secs(seen[c][d]) <= Secs(seen[c][e])
      BY <2>1 DEF Newer
    <3>4. Secs(seen[c][e]) <= Secs(mtime[e])
      BY <1>1, <3>1, SecsMonotone DEF SeenFits
    <3> QED
      BY <1>1, <3>1, <3>2, <3>3, <3>4, SecsIsNat
  <2>3. kept \in SUBSET (Started \ {d})
    BY <1>1, <2>1
  <2> QED
    BY <1>3, <2>1, <2>2, <2>3 DEF Due, Outdone
<1> QED
  BY <1>2, <1>3, ConfigIs

LEMMA DueStep ==
    ASSUME IInv, TypeOK', [Next]_vars
    PROVE  OnlyDueRemoved'
<1> USE DEF IInv
<1> SUFFICES ASSUME NEW d \in Executions, d \in Started', Condemned(d)'
             PROVE  Due(d)'
  BY DEF OnlyDueRemoved, Started
<1>1. CASE d \in Started /\ Condemned(d)
  BY <1>1, DueLasts DEF OnlyDueRemoved
<1>2. CASE d \in Started /\ Due(d)
  BY <1>2, DueLasts
<1>3. CASE d \notin Started
  <2>1. StartExecution(d)
    BY <1>3, Steps, QuietSteps
    DEF TypeOK, Tick, Crash, StartExecution, WriteInto, RemoveContent, RemoveDir,
        There, Started, directories, vars
  <2> QED
    BY <1>3, <2>1 DEF StartExecution, Condemned, SeenFits, cleaning, TypeOK
<1>4. CASE d \in Started /\ ~Condemned(d)
  <2>1. \A c \in CleanUps : d \notin victims[c]
    BY <1>4 DEF Condemned
  <2>2. ASSUME NEW c \in CleanUps, Choose(c) PROVE Due(d)
    BY <1>4, <2>1, <2>2, ChosenAreDue DEF Choose, Condemned, TypeOK, directories
  <2>3. ASSUME NEW c \in CleanUps, QuietStep(c), ~Choose(c) PROVE FALSE
    <3>1. state' = state
      BY <2>3, QuietSteps DEF directories
    <3>2. \A f \in CleanUps : victims'[f] \subseteq victims[f]
      BY <2>3
      DEF TypeOK, QuietStep, List, TakeTime, Finish, Forget, ReadMetadata,
          MetadataFails, RemovalFails
    <3> QED
      BY <1>4, <2>1, <3>1, <3>2 DEF Condemned
  <2>4. ASSUME NEW c \in CleanUps, NEW e \in Executions,
               RemoveContent(c, e) \/ RemoveDir(c, e)
        PROVE  FALSE
    <3>1. e # d /\ state'[d] = state[d]
      BY <2>1, <2>4 DEF TypeOK, RemoveContent, RemoveDir, IsNextVictim
    <3>2. \A f \in CleanUps : victims'[f] \subseteq victims[f]
      BY <2>4 DEF TypeOK, RemoveContent, RemoveDir, cleaning
    <3> QED
      BY <1>4, <2>1, <3>1, <3>2 DEF Condemned
  <2>5. ASSUME Crash \/ Tick \/ UNCHANGED vars PROVE FALSE
    BY <1>4, <2>1, <2>5
    DEF TypeOK, Condemned, Crash, Forget, Tick, directories, cleaning, vars
  <2>6. ASSUME NEW e \in Executions, StartExecution(e) \/ WriteInto(e) PROVE FALSE
    BY <1>4, <2>1, <2>6 DEF TypeOK, Condemned, StartExecution, WriteInto, cleaning
  <2> QED
    BY <1>2, <1>4, <2>2, <2>3, <2>4, <2>5, <2>6, Steps
<1> QED
  BY <1>1, <1>3, <1>4

LEMMA Invariance == Spec => []IInv
<1>1. ASSUME IInv, [Next]_vars PROVE IInv'
  BY <1>1, TypeStep, SeenStep, DueStep DEF IInv
<1> QED
  BY InvInit, <1>1, PTL DEF Spec

(***************************************************************************)
(* The variables keep their types.                                         *)
(***************************************************************************)
THEOREM Typing == Spec => []TypeOK
BY Invariance, PTL DEF IInv

(***************************************************************************)
(* cleanup.rs, limit of executions: no directory is chosen, torn or        *)
(* removed unless as many others as the limit says were modified in or     *)
(* after the second it was created in, whatever number of clean-ups        *)
(* overlap.                                                                *)
(***************************************************************************)
THEOREM RemovesForNewer == Spec => []RemovedForNewer
<1>1. ASSUME IInv PROVE RemovedForNewer
  <2> USE <1>1 DEF IInv, TypeOK
  <2>1. \A c \in CleanUps : victims[c] \subseteq Started
    BY DEF SeenFits
  <2> QED
    BY <2>1 DEF RemovedForNewer, OnlyDueRemoved, Condemned, Due, Started
<1> QED
  BY <1>1, Invariance, PTL

(***************************************************************************)
(* cleanup.rs, limit of age: what began at most that many seconds ago is   *)
(* whole and not chosen, whatever number of clean-ups overlap.             *)
(***************************************************************************)
THEOREM SparesYoung == Spec => []YoungAreSafe
<1>1. ASSUME IInv PROVE YoungAreSafe
  <2> USE <1>1, BoundsAreNatural DEF IInv, TypeOK, Times
  <2>1. ASSUME NEW d \in Started, Aged(d), Secs(clock - created[d]) <= Limit
        PROVE  FALSE
    <3>1. clock - created[d] \in Nat
      BY DEF SeenFits, Started
    <3> QED
      BY <2>1, <3>1, SecsIsNat, ConfigIs DEF Aged
  <2> QED
    BY <2>1 DEF YoungAreSafe, OnlyDueRemoved, Condemned, Due
<1> QED
  BY <1>1, Invariance, PTL

-----------------------------------------------------------------------------
(* As long as no clean-ups overlap.                                        *)

\* What a clean-up has read is still there when it chooses, and there is enough
\* besides the chosen.
Reserve(c) ==
    /\ step[c] # "removing" => victims[c] = {} /\ DOMAIN seen[c] \subseteq There
    /\ victims[c] # {} =>
        \E kept \in SUBSET (There \ victims[c]) : Cardinality(kept) = Limit

\* All there were have their directories, or as many as the limit says.
Enough == Started \subseteq There \/ \E kept \in SUBSET There : Cardinality(kept) = Limit

Reserves ==
    Policy = "MaxExecutions" /\ ~overlapped =>
        /\ Enough
        /\ \A c \in CleanUps : Reserve(c)
        /\ \A c, d \in CleanUps : step[c] # "idle" /\ step[d] # "idle" => c = d

LEMMA AloneStep ==
    ASSUME TypeOK, [Next]_vars, ~overlapped',
           \A c, d \in CleanUps : step[c] # "idle" /\ step[d] # "idle" => c = d
    PROVE  \A c, d \in CleanUps : step'[c] # "idle" /\ step'[d] # "idle" => c = d
<1> USE DEF TypeOK
<1>1. CASE step' = step
  BY <1>1
<1>2. ASSUME NEW c \in CleanUps, List(c)
      PROVE  \A e, f \in CleanUps : step'[e] # "idle" /\ step'[f] # "idle" => e = f
  BY <1>2 DEF List
<1>3. ASSUME NEW c \in CleanUps, QuietStep(c), ~List(c)
      PROVE  \A e \in CleanUps : step'[e] # "idle" => step[e] # "idle"
  BY <1>3
  DEF QuietStep, TakeTime, Choose, Finish, Forget, ReadMetadata, MetadataFails,
      RemovalFails
<1> QED
  BY <1>1, <1>2, <1>3, Steps
  DEF Tick, Crash, Forget, StartExecution, WriteInto, RemoveContent, RemoveDir,
      cleaning, vars

LEMMA ReservesStep ==
    ASSUME IInv, IInv', Reserves, [Next]_vars
    PROVE  Reserves'
<1> SUFFICES ASSUME Policy = "MaxExecutions", ~overlapped'
             PROVE  Enough' /\ \A c \in CleanUps : Reserve(c)'
  <2>1. ~overlapped' => ~overlapped
    BY Steps
    DEF QuietStep, List, TakeTime, Choose, Finish, Forget, ReadMetadata,
        MetadataFails, RemovalFails, Tick, Crash, StartExecution, WriteInto,
        RemoveContent, RemoveDir, cleaning, vars
  <2> QED
    BY <2>1, AloneStep, ConfigStays DEF Reserves, IInv
<1>0. /\ ~overlapped
      /\ Limit' = Limit
      /\ Enough /\ \A c \in CleanUps : Reserve(c)
      /\ \A c, d \in CleanUps : step[c] # "idle" /\ step[d] # "idle" => c = d
  <2>1. ~overlapped
    BY Steps
    DEF QuietStep, List, TakeTime, Choose, Finish, Forget, ReadMetadata,
        MetadataFails, RemovalFails, Tick, Crash, StartExecution, WriteInto,
        RemoveContent, RemoveDir, cleaning, vars
  <2> QED
    BY <2>1, ConfigStays DEF Reserves
<1> USE DEF IInv, TypeOK
<1>1. ASSUME There \subseteq There', Started' \subseteq Started \cup There'
      PROVE  Enough'
  <2>1. CASE Started \subseteq There
    BY <1>1, <2>1 DEF Enough
  <2>2. ASSUME NEW kept \in SUBSET There, Cardinality(kept) = Limit PROVE Enough'
    <3>1. kept \in SUBSET There'
      BY <1>1
    <3> QED
      BY <1>0, <2>2, <3>1 DEF Enough
  <2> QED
    BY <1>0, <2>1, <2>2 DEF Enough
<1>2. ASSUME There \subseteq There', NEW c \in CleanUps, step'[c] = step[c],
             victims'[c] = victims[c], seen'[c] = seen[c]
      PROVE  Reserve(c)'
  <2>1. Reserve(c)
    BY <1>0
  <2>2. CASE victims[c] = {}
    BY <1>2, <2>1, <2>2 DEF Reserve
  <2>3. CASE victims[c] # {}
    <3>1. PICK kept \in SUBSET (There \ victims[c]) : Cardinality(kept) = Limit
      BY <2>1, <2>3 DEF Reserve
    <3>2. kept \in SUBSET (There' \ victims'[c]) /\ Cardinality(kept) = Limit'
      BY <1>0, <1>2, <3>1
    <3> QED
      BY <1>2, <2>1, <2>3, <3>2 DEF Reserve
  <2> QED
    BY <2>2, <2>3
<1>3. CASE Tick \/ UNCHANGED vars
  BY <1>1, <1>2, <1>3 DEF Tick, There, Started, vars, directories, cleaning
<1>4. ASSUME NEW d \in Executions, StartExecution(d) \/ WriteInto(d)
      PROVE  Enough' /\ \A c \in CleanUps : Reserve(c)'
  <2>1. There \subseteq There' /\ Started' \subseteq Started \cup There'
        /\ UNCHANGED cleaning
    BY <1>4 DEF StartExecution, WriteInto, There, Started
  <2> QED
    BY <1>1, <1>2, <2>1 DEF cleaning
<1>5. ASSUME NEW c \in CleanUps, NEW d \in Executions, RemoveContent(c, d)
      PROVE  Enough' /\ \A e \in CleanUps : Reserve(e)'
  <2>1. There \subseteq There' /\ Started' \subseteq Started \cup There'
        /\ UNCHANGED cleaning
    BY <1>5 DEF RemoveContent, There, Started
  <2> QED
    BY <1>1, <1>2, <2>1 DEF cleaning
<1>6. ASSUME NEW c \in CleanUps, NEW d \in Executions, RemoveDir(c, d)
      PROVE  Enough' /\ \A e \in CleanUps : Reserve(e)'
  <2>1. d \in victims[c] /\ There' = There \ {d} /\ victims'[c] = victims[c] \ {d}
        /\ step[c] = "removing" /\ step' = step /\ seen' = seen
    BY <1>6 DEF RemoveDir, IsNextVictim, There
  <2>2. PICK kept \in SUBSET (There \ victims[c]) : Cardinality(kept) = Limit
    BY <1>0, <2>1 DEF Reserve
  <2>3. kept \in SUBSET There' /\ kept \in SUBSET (There' \ victims'[c])
        /\ Cardinality(kept) = Limit'
    BY <1>0, <2>1, <2>2
  <2>4. Enough' /\ Reserve(c)'
    BY <2>1, <2>3 DEF Enough, Reserve
  <2>5. ASSUME NEW e \in CleanUps, e # c PROVE Reserve(e)'
    <3>1. step[e] = "idle" /\ victims[e] = {} /\ DOMAIN seen[e] = {}
      BY <1>0, <2>1, <2>5 DEF SeenFits
    <3>2. victims'[e] = victims[e]
      BY <1>6, <2>5 DEF RemoveDir
    <3> QED
      BY <2>1, <3>1, <3>2 DEF Reserve
  <2> QED
    BY <2>4, <2>5
<1>7. CASE Crash
  <2>1. There' = There /\ Started' = Started
    BY <1>7 DEF Crash, directories, There, Started
  <2> QED
    BY <1>1, <1>7, <2>1, NothingIsRead DEF Crash, Forget, Reserve
<1>8. ASSUME NEW c \in CleanUps, QuietStep(c)
      PROVE  Enough' /\ \A e \in CleanUps : Reserve(e)'
  <2>1. There' = There /\ Started' = Started
    BY <1>8, QuietSteps DEF directories, There, Started
  <2>2. ASSUME NEW e \in CleanUps, e # c PROVE Reserve(e)'
    <3> DEFINE Same == /\ step'[e] = step[e]
                       /\ victims'[e] = victims[e]
                       /\ seen'[e] = seen[e]
    <3>1. Same
      <4>1. CASE List(c) \/ TakeTime(c) \/ Choose(c)
        BY <2>2, <4>1 DEF List, TakeTime, Choose
      <4>2. CASE Finish(c)
        BY <2>2, <4>2 DEF Finish, Forget
      <4>3. ASSUME NEW d \in Executions,
                   ReadMetadata(c, d) \/ MetadataFails(c, d) \/ RemovalFails(c, d)
            PROVE  Same
        BY <2>2, <4>3 DEF ReadMetadata, MetadataFails, RemovalFails
      <4> QED
        BY <1>8, <4>1, <4>2, <4>3 DEF QuietStep
    <3> QED
      BY <1>2, <2>1, <3>1
  <2>3. SUFFICES Reserve(c)'
    BY <1>1, <2>1, <2>2
  <2>4. Reserve(c)
    BY <1>0
  <2>5. CASE List(c) \/ TakeTime(c)
    BY <2>1, <2>4, <2>5 DEF List, TakeTime, Reserve
  <2>6. CASE Choose(c)
    <3>1. PICK chosen \in Choices(c) :
              /\ victims' = [victims EXCEPT ![c] = chosen]
              /\ step' = [step EXCEPT ![c] = "removing"]
      BY <2>6 DEF Choose
    <3>2. DOMAIN seen[c] \subseteq There
      BY <2>4, <2>6 DEF Choose, Reserve
    <3>3. CASE chosen = {}
      BY <3>1, <3>3 DEF Reserve
    <3>4. CASE chosen # {}
      <4>1. PICK kept \in SUBSET DOMAIN seen[c] :
                Cardinality(kept) = Limit /\ chosen = DOMAIN seen[c] \ kept
        BY <3>4 DEF Choices, Surplus
      <4>2. kept \in SUBSET (There' \ victims'[c]) /\ Cardinality(kept) = Limit'
        BY <1>0, <2>1, <3>1, <3>2, <4>1
      <4> QED
        BY <3>1, <4>2 DEF Reserve
    <3> QED
      BY <3>3, <3>4
  <2>7. CASE Finish(c)
    BY <2>7, NothingIsRead DEF Finish, Forget, Reserve
  <2>8. ASSUME NEW d \in Executions, ReadMetadata(c, d) PROVE Reserve(c)'
    BY <2>1, <2>4, <2>8 DEF ReadMetadata, Reserve
  <2>9. ASSUME NEW d \in Executions, MetadataFails(c, d) PROVE Reserve(c)'
    BY <2>1, <2>4, <2>9 DEF MetadataFails, Reserve
  <2>10. ASSUME NEW d \in Executions, RemovalFails(c, d) PROVE Reserve(c)'
    <3>1. step[c] = "removing" /\ step' = step /\ victims'[c] \subseteq victims[c]
      BY <2>10 DEF RemovalFails, IsNextVictim
    <3>2. CASE victims[c] = {}
      BY <3>1, <3>2 DEF Reserve
    <3>3. CASE victims[c] # {}
      <4>1. PICK kept \in SUBSET (There \ victims[c]) : Cardinality(kept) = Limit
        BY <2>4, <3>3 DEF Reserve
      <4>2. kept \in SUBSET (There' \ victims'[c]) /\ Cardinality(kept) = Limit'
        BY <1>0, <2>1, <3>1, <4>1
      <4> QED
        BY <3>1, <4>2 DEF Reserve
    <3> QED
      BY <3>2, <3>3
  <2> QED
    BY <1>8, <2>5, <2>6, <2>7, <2>8, <2>9, <2>10 DEF QuietStep
<1> QED
  BY <1>3, <1>4, <1>5, <1>6, <1>7, <1>8, Steps

\* Those that are kept are whole, or left of a removal that broke off.
LEMMA KeptAreSpared ==
    ASSUME NEW kept \in SUBSET Spared, Cardinality(kept) = Limit, IInv
    PROVE  \E whole \in SUBSET (Spared \ Broken) :
               Cardinality(whole) + Cardinality(Broken) >= Limit
<1>1. /\ IsFiniteSet(kept \ Broken) /\ IsFiniteSet(Broken)
      /\ Cardinality(kept \ Broken) \in Nat /\ Cardinality(Broken) \in Nat
  <2>1. IsFiniteSet(Executions)
    BY BoundsAreNatural, FS_Interval DEF Executions
  <2>2. kept \ Broken \subseteq Executions /\ Broken \subseteq Executions
    BY DEF Spared, Broken, There
  <2> QED
    BY <2>1, <2>2, FS_Subset, FS_CardinalityType
<1>2. Cardinality((kept \ Broken) \cup Broken) =
          Cardinality(kept \ Broken) + Cardinality(Broken)
  <2>1. (kept \ Broken) \cap Broken = {}
    OBVIOUS
  <2>2. Cardinality((kept \ Broken) \cap Broken) = 0
    BY <2>1, FS_EmptySet
  <2>3. Cardinality((kept \ Broken) \cup Broken) =
            Cardinality(kept \ Broken) + Cardinality(Broken)
                - Cardinality((kept \ Broken) \cap Broken)
    BY <1>1, FS_Union
  <2> QED
    BY <1>1, <2>2, <2>3
<1>3. Cardinality(kept) <= Cardinality((kept \ Broken) \cup Broken)
  <2>1. IsFiniteSet((kept \ Broken) \cup Broken)
    BY <1>1, FS_Union
  <2>2. kept \subseteq (kept \ Broken) \cup Broken
    OBVIOUS
  <2> QED
    BY <2>1, <2>2, FS_Subset
<1> QED
  BY <1>2, <1>3

(***************************************************************************)
(* cleanup.rs, limit of executions: as long as no clean-up has begun while *)
(* another was at work, all executions there were are spared, or as many   *)
(* as the limit says, of which one is not whole for each removal that      *)
(* broke off, through failures and crashes.                                *)
(***************************************************************************)
THEOREM LeavesEnough == Spec => []EnoughRemain
<1>1. Init => Reserves
  BY NothingIsRead DEF Init, Reserves, Reserve, Enough, Started, There
<1>2. ASSUME IInv, IInv', Reserves, [Next]_vars PROVE Reserves'
  BY <1>2, ReservesStep
<1>3. ASSUME IInv, Reserves, Policy = "MaxExecutions", ~overlapped
      PROVE  \/ Started \subseteq Spared
             \/ \E whole \in SUBSET (Spared \ Broken) :
                    Cardinality(whole) + Cardinality(Broken) >= Limit
  <2>1. /\ Enough /\ \A c \in CleanUps : Reserve(c)
        /\ \A c, d \in CleanUps : step[c] # "idle" /\ step[d] # "idle" => c = d
    BY <1>3 DEF Reserves
  <2>2. CASE \A c \in CleanUps : victims[c] = {}
    <3>1. Spared = There
      BY <2>2 DEF Spared
    <3> QED
      BY <1>3, <2>1, <3>1, KeptAreSpared DEF Enough
  <2>3. ASSUME NEW c \in CleanUps, victims[c] # {}
        PROVE  \E whole \in SUBSET (Spared \ Broken) :
                   Cardinality(whole) + Cardinality(Broken) >= Limit
    <3>1. PICK kept \in SUBSET (There \ victims[c]) : Cardinality(kept) = Limit
      BY <2>1, <2>3 DEF Reserve
    <3>2. \A d \in CleanUps : d # c => victims[d] = {}
      <4>1. \A d \in CleanUps : victims[d] # {} => step[d] # "idle"
        BY <2>1 DEF Reserve
      <4> QED
        BY <2>1, <2>3, <4>1
    <3>3. Spared = There \ victims[c]
      BY <3>2 DEF Spared
    <3> QED
      BY <1>3, <3>1, <3>3, KeptAreSpared
  <2> QED
    BY <2>2, <2>3
<1>4. IInv /\ Reserves => EnoughRemain
  BY <1>3 DEF EnoughRemain
<1> QED
  BY <1>1, <1>2, <1>4, Invariance, PTL DEF Spec

-----------------------------------------------------------------------------
(* A clean-up that meets with no failure loses sight of nothing.           *)

\* What is left of the entries a clean-up has listed.  One that was removed and
\* made anew is another directory.
Left(c) == (listed[c] \cap There) \ remade

LeftAlone(c) == Left(c) \ victims[c]

\* What a clean-up leaves alone is no more than its limit allows.
WithinLimit(c) ==
    /\ Policy = "MaxExecutions" => Cardinality(LeftAlone(c)) <= Limit
    /\ Policy = "MaxAgeSecs" =>
        \A d \in LeftAlone(c) : now[c] >= mtime[d] => Secs(now[c] - mtime[d]) <= Limit

Accounted(c) ==
    c \notin failed =>
        /\ step[c] \in {"listed", "reading"} =>
               Left(c) \subseteq unread[c] \cup DOMAIN seen[c]
        /\ step[c] = "removing" => WithinLimit(c)

AllAccounted == \A c \in CleanUps : Accounted(c)

LEMMA ExecutionsAreFinite == ASSUME NEW S \in SUBSET Executions PROVE IsFiniteSet(S)
<1>1. IsFiniteSet(Executions)
  BY BoundsAreNatural, FS_Interval DEF Executions
<1> QED
  BY <1>1, FS_Subset

LEMMA FewerFit ==
    ASSUME NEW S \in SUBSET Executions, NEW T \in SUBSET S, NEW n \in Nat,
           Cardinality(S) <= n
    PROVE  Cardinality(T) <= n
<1>1. IsFiniteSet(S) /\ IsFiniteSet(T)
  BY ExecutionsAreFinite
<1>2. Cardinality(S) \in Nat /\ Cardinality(T) \in Nat
  BY <1>1, FS_CardinalityType
<1>3. Cardinality(T) <= Cardinality(S)
  BY <1>1, FS_Subset
<1> QED
  BY <1>2, <1>3

\* Nothing comes back, except as another directory.
LEMMA NothingReturns ==
    ASSUME TypeOK, [Next]_vars
    PROVE  There' \ remade' \subseteq (There \ remade) \cup (Executions \ Started)
<1> USE DEF TypeOK, There, Started
<1>1. CASE UNCHANGED <<state, remade>>
  BY <1>1
<1>2. ASSUME NEW d \in Executions, StartExecution(d) \/ WriteInto(d)
      PROVE  There' \ remade' \subseteq (There \ remade) \cup (Executions \ Started)
  BY <1>2 DEF StartExecution, WriteInto
<1>3. ASSUME NEW c \in CleanUps, NEW d \in Executions,
             RemoveContent(c, d) \/ RemoveDir(c, d)
      PROVE  There' \ remade' \subseteq (There \ remade) \cup (Executions \ Started)
  BY <1>3 DEF RemoveContent, RemoveDir
<1> QED
  BY <1>1, <1>2, <1>3, Steps, QuietSteps DEF Tick, Crash, directories, vars

LEMMA LeftShrinks ==
    ASSUME IInv, [Next]_vars, NEW c \in CleanUps, listed'[c] = listed[c]
    PROVE  Left(c)' \subseteq Left(c)
<1>1. listed[c] \subseteq Started
  BY DEF IInv, SeenFits
<1> QED
  BY <1>1, NothingReturns DEF IInv, Left

\* What is spared stays within the limit as long as no more is spared: time only
\* makes what is there younger.
LEMMA WithinLimitLasts ==
    ASSUME IInv, IInv', [Next]_vars, NEW c \in CleanUps, WithinLimit(c),
           LeftAlone(c)' \subseteq LeftAlone(c), now'[c] = now[c]
    PROVE  WithinLimit(c)'
<1> USE ConfigStays, ConfigIs, BoundsAreNatural DEF IInv, TypeOK, Times
<1>1. LeftAlone(c) \subseteq Executions /\ LeftAlone(c) \subseteq Started
  BY DEF LeftAlone, Left, There, Started
<1>2. ASSUME Policy = "MaxExecutions" PROVE Cardinality(LeftAlone(c)') <= Limit
  BY <1>1, <1>2, FewerFit DEF WithinLimit
<1>3. ASSUME Policy = "MaxAgeSecs", NEW d \in LeftAlone(c)', now[c] >= mtime'[d]
      PROVE  Secs(now[c] - mtime'[d]) <= Limit
  <2>1. /\ d \in LeftAlone(c) /\ mtime[d] \in Nat /\ mtime'[d] \in Nat /\ now[c] \in Nat
        /\ mtime[d] <= mtime'[d]
    BY <1>1, TimeGrows
  <2>2. /\ now[c] - mtime[d] \in Nat /\ now[c] - mtime'[d] \in Nat
        /\ now[c] - mtime'[d] <= now[c] - mtime[d]
    BY <1>3, <2>1
  <2>3. Secs(now[c] - mtime'[d]) <= Secs(now[c] - mtime[d])
    BY <2>2, SecsMonotone
  <2>4. Secs(now[c] - mtime[d]) <= Limit
    BY <1>3, <2>1, <2>2 DEF WithinLimit
  <2> QED
    BY <2>2, <2>3, <2>4, SecsIsNat
<1> QED
  BY <1>2, <1>3 DEF WithinLimit

\* As long as it lists, reads and chooses nothing, and loses no victim that is there.
LEMMA AccountedLasts ==
    ASSUME IInv, IInv', [Next]_vars, NEW c \in CleanUps, Accounted(c),
           step'[c] = step[c], listed'[c] = listed[c], unread'[c] = unread[c],
           seen'[c] = seen[c], now'[c] = now[c],
           c \in failed => c \in failed',
           (victims[c] \ victims'[c]) \cap Left(c)' = {}
    PROVE  Accounted(c)'
<1>1. Left(c)' \subseteq Left(c) /\ LeftAlone(c)' \subseteq LeftAlone(c)
  BY LeftShrinks DEF LeftAlone
<1>2. WithinLimit(c) => WithinLimit(c)'
  BY <1>1, WithinLimitLasts
<1> QED
  BY <1>1, <1>2 DEF Accounted

\* What the choice leaves alone is within the limit.
LEMMA ChoiceIsThorough ==
    ASSUME IInv, NEW c \in CleanUps, NEW chosen \in Choices(c),
           Left(c) \subseteq DOMAIN seen[c]
    PROVE  /\ Policy = "MaxExecutions" => Cardinality(Left(c) \ chosen) <= Limit
           /\ Policy = "MaxAgeSecs" =>
                  \A d \in Left(c) \ chosen :
                      now[c] >= mtime[d] => Secs(now[c] - mtime[d]) <= Limit
<1> USE ConfigIs, BoundsAreNatural DEF IInv, TypeOK, Times
<1>0. DOMAIN seen[c] \subseteq Executions /\ seen[c] \in [DOMAIN seen[c] -> Times]
  BY ReadingsAre
<1>1. ASSUME Policy = "MaxExecutions" PROVE Cardinality(Left(c) \ chosen) <= Limit
  <2>1. CASE Cardinality(DOMAIN seen[c]) <= Limit
    BY <1>0, <2>1, FewerFit
  <2>2. CASE ~(Cardinality(DOMAIN seen[c]) <= Limit)
    <3>1. PICK kept \in SUBSET DOMAIN seen[c] :
              Cardinality(kept) = Limit /\ chosen = DOMAIN seen[c] \ kept
      BY <1>1, <2>2 DEF Choices, Surplus
    <3>2. Left(c) \ chosen \subseteq kept
      BY <3>1
    <3> QED
      BY <1>0, <3>1, <3>2, FewerFit
  <2> QED
    BY <2>1, <2>2
<1>2. ASSUME Policy = "MaxAgeSecs", NEW d \in Left(c) \ chosen, now[c] >= mtime[d]
      PROVE  Secs(now[c] - mtime[d]) <= Limit
  <2>1. d \in DOMAIN seen[c] /\ ~IsOld(c, d)
    BY <1>2 DEF Choices, Old
  <2>2. /\ seen[c][d] <= mtime[d]
        /\ seen[c][d] \in Nat /\ mtime[d] \in Nat /\ now[c] \in Nat
    BY <1>0, <2>1 DEF SeenFits
  <2>3. /\ now[c] - mtime[d] \in Nat /\ now[c] - seen[c][d] \in Nat
        /\ now[c] - mtime[d] <= now[c] - seen[c][d] /\ now[c] >= seen[c][d]
    BY <1>2, <2>2
  <2>4. Secs(now[c] - seen[c][d]) <= Limit
    BY <2>1, <2>3, SecsIsNat DEF IsOld
  <2>5. Secs(now[c] - mtime[d]) <= Secs(now[c] - seen[c][d])
    BY <2>3, SecsMonotone
  <2>6. Secs(now[c] - mtime[d]) \in Nat /\ Secs(now[c] - seen[c][d]) \in Nat
    BY <2>3, SecsIsNat
  <2> QED
    BY <2>4, <2>5, <2>6
<1> QED
  BY <1>1, <1>2

LEMMA AccountedStep ==
    ASSUME IInv, IInv', [Next]_vars, AllAccounted
    PROVE  AllAccounted'
<1> USE DEF IInv, TypeOK, AllAccounted
<1>1. ASSUME UNCHANGED cleaning, NEW c \in CleanUps PROVE Accounted(c)'
  BY <1>1, AccountedLasts DEF cleaning
<1>2. ASSUME Crash, NEW c \in CleanUps PROVE Accounted(c)'
  BY <1>2 DEF Crash, Forget, Accounted
<1>3. ASSUME NEW c \in CleanUps, NEW d \in Executions, RemoveDir(c, d),
             NEW other \in CleanUps
      PROVE  Accounted(other)'
  <2>1. (victims[other] \ victims'[other]) \cap Left(other)' = {}
    BY <1>3 DEF RemoveDir, Left, There
  <2> QED
    BY <1>3, <2>1, AccountedLasts DEF RemoveDir
<1>4. ASSUME NEW c \in CleanUps, NEW d \in Executions, RemovalFails(c, d),
             NEW other \in CleanUps
      PROVE  Accounted(other)'
  <2>1. directories' = directories
    BY <1>4 DEF RemovalFails
  <2>2. CASE other = c /\ d \in There
    BY <1>4, <2>2 DEF RemovalFails, Accounted
  <2>3. CASE other # c \/ d \notin There
    <3>1. (victims[other] \ victims'[other]) \cap Left(other)' = {}
      BY <1>4, <2>1, <2>3 DEF RemovalFails, Left, There, directories
    <3> QED
      BY <1>4, <3>1, AccountedLasts DEF RemovalFails
  <2> QED
    BY <2>2, <2>3
<1>5. ASSUME NEW c \in CleanUps, QuietStep(c),
             \A d \in Executions : ~RemovalFails(c, d),
             NEW other \in CleanUps, other # c
      PROVE  Accounted(other)'
  <2> DEFINE Same ==
          /\ step'[other] = step[other] /\ listed'[other] = listed[other]
          /\ unread'[other] = unread[other] /\ seen'[other] = seen[other]
          /\ now'[other] = now[other] /\ victims'[other] = victims[other]
          /\ other \in failed => other \in failed'
  <2>1. ASSUME List(c) \/ TakeTime(c) \/ Choose(c) PROVE Same
    BY <1>5, <2>1 DEF List, TakeTime, Choose
  <2>2. ASSUME Finish(c) PROVE Same
    BY <1>5, <2>2 DEF Finish, Forget
  <2>3. ASSUME NEW d \in Executions, ReadMetadata(c, d) \/ MetadataFails(c, d)
        PROVE  Same
    BY <1>5, <2>3 DEF ReadMetadata, MetadataFails
  <2> QED
    BY <1>5, <2>1, <2>2, <2>3, AccountedLasts DEF QuietStep
<1>6. ASSUME NEW c \in CleanUps, QuietStep(c),
             \A d \in Executions : ~RemovalFails(c, d)
      PROVE  Accounted(c)'
  <2>1. There' = There /\ remade' = remade
    BY <1>6, QuietSteps DEF directories, There
  <2>2. CASE List(c)
    BY <2>1, <2>2 DEF List, Accounted, Left
  <2>3. CASE TakeTime(c)
    BY <2>1, <2>3 DEF TakeTime, Accounted, Left
  <2>4. CASE Choose(c)
    <3>1. PICK chosen \in Choices(c) :
              /\ victims' = [victims EXCEPT ![c] = chosen]
              /\ step[c] = "reading" /\ unread[c] = {}
              /\ step' = [step EXCEPT ![c] = "removing"]
              /\ UNCHANGED <<listed, now, failed, directories>>
      BY <2>4 DEF Choose
    <3>2. LeftAlone(c)' = Left(c) \ chosen
      BY <2>1, <3>1 DEF LeftAlone, Left
    <3>3. ASSUME c \notin failed PROVE WithinLimit(c)'
      <4>1. Left(c) \subseteq DOMAIN seen[c]
        BY <3>1, <3>3 DEF Accounted
      <4>2. /\ Policy = "MaxExecutions" => Cardinality(Left(c) \ chosen) <= Limit
            /\ Policy = "MaxAgeSecs" =>
                   \A d \in Left(c) \ chosen :
                       now[c] >= mtime[d] => Secs(now[c] - mtime[d]) <= Limit
        BY <4>1, ChoiceIsThorough
      <4>3. now' = now /\ mtime' = mtime /\ Policy' = Policy /\ Limit' = Limit
        BY <3>1, ConfigStays DEF directories
      <4> QED
        BY <3>2, <4>2, <4>3 DEF WithinLimit
    <3> QED
      BY <3>1, <3>3 DEF Accounted
  <2>5. CASE Finish(c)
    BY <2>5 DEF Finish, Forget, Accounted
  <2>6. ASSUME NEW d \in Executions, ReadMetadata(c, d) PROVE Accounted(c)'
    BY <2>1, <2>6 DEF ReadMetadata, Accounted, Left
  <2>7. ASSUME NEW d \in Executions, MetadataFails(c, d) PROVE Accounted(c)'
    BY <2>1, <2>7 DEF MetadataFails, Accounted, Left
  <2> QED
    BY <1>6, <2>2, <2>3, <2>4, <2>5, <2>6, <2>7 DEF QuietStep
<1>7. ASSUME NEW c \in CleanUps, QuietStep(c), NEW other \in CleanUps
      PROVE  Accounted(other)'
  BY <1>4, <1>5, <1>6, <1>7
<1>8. ASSUME NEW d \in Executions, StartExecution(d) \/ WriteInto(d),
             NEW c \in CleanUps
      PROVE  Accounted(c)'
  BY <1>1, <1>8 DEF StartExecution, WriteInto
<1>9. ASSUME NEW c \in CleanUps, NEW d \in Executions, RemoveContent(c, d),
             NEW other \in CleanUps
      PROVE  Accounted(other)'
  BY <1>1, <1>9 DEF RemoveContent
<1> QED
  BY <1>1, <1>2, <1>3, <1>7, <1>8, <1>9, Steps DEF Tick, vars

(***************************************************************************)
(* cleanup.rs: a clean-up that could list, read and remove everything      *)
(* leaves of what it has listed no more than its limit allows, although    *)
(* executions start and write, and other clean-ups remove, meanwhile.      *)
(***************************************************************************)
THEOREM IsThorough == Spec => []CleanUpIsThorough
<1>1. Init => AllAccounted
  BY DEF Init, Accounted, AllAccounted
<1>2. ASSUME IInv, IInv', AllAccounted, [Next]_vars PROVE AllAccounted'
  BY <1>2, AccountedStep
<1>3. ASSUME IInv, AllAccounted PROVE CleanUpIsThorough
  <2> SUFFICES ASSUME NEW c \in CleanUps,
                      step[c] = "removing", victims[c] = {}, c \notin failed
               PROVE  IF Policy = "MaxExecutions" THEN Cardinality(Left(c)) <= Limit
                      ELSE \A d \in Left(c) :
                               now[c] >= mtime[d] => Secs(now[c] - mtime[d]) <= Limit
    BY DEF CleanUpIsThorough, Left
  <2>1. WithinLimit(c) /\ LeftAlone(c) = Left(c)
    BY <1>3 DEF AllAccounted, Accounted, LeftAlone
  <2> QED
    BY <1>3, <2>1, ConfigIs DEF WithinLimit, IInv
<1> QED
  BY <1>1, <1>2, <1>3, Invariance, PTL DEF Spec

-----------------------------------------------------------------------------
(* A clean-up comes to its end.                                            *)

\* A bound on how many steps a clean-up has still to take.
Remaining(c) ==
    CASE step[c] = "listed" -> 2 * MaxRuns + 3
      [] step[c] = "reading" -> MaxRuns + 2 + Cardinality(unread[c])
      [] step[c] = "removing" -> 1 + Cardinality(victims[c])
      [] OTHER -> 0

(***************************************************************************)
(* cleanup.rs: whatever it meets with, each entry that a clean-up reads,   *)
(* gives up or is done with leaves it one step less to take; no execution  *)
(* and no other clean-up gives it more to do, or takes something from it.  *)
(* Removing the content of an entry is no step in this sense: it takes the *)
(* clean-up no further and, as said here, gives it nothing more to do, but *)
(* how often it happens is up to how much there is in the entry.           *)
(***************************************************************************)
ComesToAnEnd ==
    \A c \in CleanUps : step[c] # "idle" =>
        /\ Remaining(c) \in 1 .. 2 * MaxRuns + 3
        /\ CleanUpStep(c) => Remaining(c)' < Remaining(c)
        /\ (\E d \in Executions : RemoveContent(c, d)) => Remaining(c)' = Remaining(c)
        /\ ~CleanUpStep(c) /\ ~Crash => Remaining(c)' = Remaining(c)

LEMMA AtMostMaxRuns ==
    ASSUME NEW S \in SUBSET Executions
    PROVE  Cardinality(S) \in 0 .. MaxRuns
<1>1. IsFiniteSet(Executions) /\ Cardinality(Executions) = MaxRuns
  <2>1. MaxRuns \in Nat
    BY BoundsAreNatural
  <2> QED
    BY <2>1, FS_Interval DEF Executions
<1> QED
  BY <1>1, FS_Subset, FS_CardinalityType, BoundsAreNatural

LEMMA OneLess ==
    ASSUME NEW S \in SUBSET Executions, NEW d \in S
    PROVE  Cardinality(S \ {d}) = Cardinality(S) - 1
BY ExecutionsAreFinite, FS_RemoveElement

LEMMA RemainingIs ==
    ASSUME TypeOK, NEW c \in CleanUps
    PROVE  /\ Remaining(c) \in 0 .. 2 * MaxRuns + 3
           /\ Remaining(c) = 0 <=> step[c] = "idle"
BY AtMostMaxRuns, BoundsAreNatural DEF TypeOK, Remaining

LEMMA EveryStepCounts ==
    ASSUME TypeOK, TypeOK', NEW c \in CleanUps, CleanUpStep(c)
    PROVE  Remaining(c)' < Remaining(c)
<1> USE DEF Remaining, TypeOK
<1>1. CASE TakeTime(c)
  BY <1>1, AtMostMaxRuns, BoundsAreNatural DEF TakeTime
<1>2. CASE Choose(c)
  BY <1>2, AtMostMaxRuns, BoundsAreNatural DEF Choose
<1>3. CASE Finish(c)
  BY <1>3, AtMostMaxRuns, BoundsAreNatural DEF Finish, Forget
<1>4. ASSUME NEW d \in Executions, ReadMetadata(c, d) \/ MetadataFails(c, d)
      PROVE  Remaining(c)' < Remaining(c)
  <2>1. /\ step[c] = "reading" /\ step'[c] = "reading"
        /\ d \in unread[c] /\ unread'[c] = unread[c] \ {d}
    BY <1>4 DEF ReadMetadata, MetadataFails
  <2> QED
    BY <2>1, OneLess, AtMostMaxRuns, BoundsAreNatural
<1>5. ASSUME NEW d \in Executions, RemoveDir(c, d) \/ RemovalFails(c, d)
      PROVE  Remaining(c)' < Remaining(c)
  <2>1. /\ step[c] = "removing" /\ step'[c] = "removing"
        /\ d \in victims[c] /\ victims'[c] = victims[c] \ {d}
    BY <1>5 DEF RemoveDir, RemovalFails, IsNextVictim, directories
  <2> QED
    BY <2>1, OneLess, AtMostMaxRuns, BoundsAreNatural
<1> QED
  BY <1>1, <1>2, <1>3, <1>4, <1>5 DEF CleanUpStep

LEMMA NobodyMeddles ==
    ASSUME TypeOK, [Next]_vars, NEW c \in CleanUps, step[c] # "idle",
           ~CleanUpStep(c), ~Crash
    PROVE  step'[c] = step[c] /\ unread'[c] = unread[c] /\ victims'[c] = victims[c]
<1> USE DEF TypeOK
<1>1. CASE UNCHANGED vars
  BY <1>1 DEF vars, cleaning
<1>2. CASE Tick \/ \E d \in Executions : StartExecution(d) \/ WriteInto(d)
  BY <1>2 DEF Tick, StartExecution, WriteInto, cleaning
<1>3. ASSUME NEW other \in CleanUps, other # c, CleanUpStep(other)
      PROVE  step'[c] = step[c] /\ unread'[c] = unread[c] /\ victims'[c] = victims[c]
  BY <1>3 DEF CleanUpStep, TakeTime, Choose, Finish, Forget, ReadMetadata,
      MetadataFails, RemoveDir, RemovalFails
<1>4. ASSUME NEW other \in CleanUps, List(other)
      PROVE  step'[c] = step[c] /\ unread'[c] = unread[c] /\ victims'[c] = victims[c]
  BY <1>4 DEF List
<1>5. ASSUME NEW other \in CleanUps, NEW d \in Executions, RemoveContent(other, d)
      PROVE  step'[c] = step[c] /\ unread'[c] = unread[c] /\ victims'[c] = victims[c]
  BY <1>5 DEF RemoveContent, cleaning
<1> QED
  BY <1>1, <1>2, <1>3, <1>4, <1>5 DEF Next

(***************************************************************************)
(* A clean-up lists, reads, chooses and disposes of entries in at most     *)
(* 2 * MaxRuns + 3 steps, whatever goes on around it, and however many     *)
(* files it removes within the entries in between.                         *)
(***************************************************************************)
THEOREM CleanUpsEnd == Spec => [][ComesToAnEnd]_vars
<1>1. TypeOK /\ TypeOK' /\ [Next]_vars => ComesToAnEnd
  <2> SUFFICES ASSUME TypeOK, TypeOK', [Next]_vars,
                      NEW c \in CleanUps, step[c] # "idle"
               PROVE  /\ Remaining(c) \in 1 .. 2 * MaxRuns + 3
                      /\ CleanUpStep(c) => Remaining(c)' < Remaining(c)
                      /\ (\E d \in Executions : RemoveContent(c, d)) =>
                             Remaining(c)' = Remaining(c)
                      /\ ~CleanUpStep(c) /\ ~Crash => Remaining(c)' = Remaining(c)
    BY DEF ComesToAnEnd
  <2>1. Remaining(c) \in 1 .. 2 * MaxRuns + 3
    BY RemainingIs, BoundsAreNatural
  <2>2. (\E d \in Executions : RemoveContent(c, d)) => Remaining(c)' = Remaining(c)
    BY DEF RemoveContent, cleaning, Remaining
  <2> QED
    BY <2>1, <2>2, EveryStepCounts, NobodyMeddles DEF Remaining
<1> QED
  BY <1>1, Typing, PTL DEF Spec
=============================================================================
