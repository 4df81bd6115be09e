------------------------------ MODULE Cleanup -------------------------------
(***************************************************************************)
(* The clean-up of the working directory of a plan (cleanup.rs).  Every    *)
(* execution of the plan has a directory of its own there (plans.rs).      *)
(* Every 300 seconds the scheduler starts a clean-up on a thread nobody    *)
(* awaits (scheduler.rs): it lists the directory, reads the modification   *)
(* times entry by entry, chooses from what it has read, and removes the    *)
(* chosen ones one by one, while executions start and write and while      *)
(* another clean-up may be at work.  Any of its operations can fail, and   *)
(* the process can die.  The system's clock never goes back.               *)
(***************************************************************************)
EXTENDS Naturals, FiniteSets

CONSTANTS
    MaxRuns,    \* bound: executions of the plan
    MaxTime,    \* bound: of the clock
    CleanUps,   \* the clean-ups that can be at work at the same time
    Configs,    \* WorkingDirectoryCleanupConfig: a policy and the limit it holds
    Second      \* units of the clock in a second

ASSUME BoundsAreNatural == MaxRuns \in Nat /\ MaxTime \in Nat
ASSUME SecondIsPositive == Second \in Nat \ {0}
ASSUME ConfigsAreKnown ==
    Configs \subseteq [policy : {"MaxAgeSecs", "MaxExecutions"}, limit : Nat]

Executions == 1 .. MaxRuns
Times == 0 .. MaxTime

Secs(t) == t \div Second

VARIABLES
    config,     \* the configuration of the plan
    clock,
    state,      \* execution -> what has become of its directory
    created,    \* when its directory was created
    mtime,      \* when its directory was modified
    remade,     \* directories that were created again after their removal
    step,       \* clean-up -> where it is
    listed,     \* dir_entries
    unread,     \* those whose metadata is not yet read
    seen,       \* the modification times that were read
    now,        \* SystemTime::now()
    victims,    \* entries that are to be removed
    failed,     \* clean-ups for which something could not be listed, read or removed
    overlapped  \* history: a clean-up has begun while another was at work

directories == <<config, clock, state, created, mtime, remade>>
cleaning == <<step, listed, unread, seen, now, victims, failed, overlapped>>
vars == <<directories, cleaning>>

Policy == config.policy
Limit == config.limit       \* seconds, or executions

Readings == UNION {[S -> Times] : S \in SUBSET Executions}

TypeOK ==
    /\ config \in Configs
    /\ clock \in Times
    /\ state \in [Executions -> {"unborn", "whole", "torn", "gone"}]
    /\ created \in [Executions -> Times]
    /\ mtime \in [Executions -> Times]
    /\ remade \in SUBSET Executions
    /\ step \in [CleanUps -> {"idle", "listed", "reading", "removing"}]
    /\ listed \in [CleanUps -> SUBSET Executions]
    /\ unread \in [CleanUps -> SUBSET Executions]
    /\ seen \in [CleanUps -> Readings]
    /\ now \in [CleanUps -> Times]
    /\ victims \in [CleanUps -> SUBSET Executions]
    /\ failed \in SUBSET CleanUps
    /\ overlapped \in BOOLEAN

NothingRead == [d \in {} |-> 0]

Init ==
    /\ config \in Configs
    /\ clock = 0
    /\ state = [d \in Executions |-> "unborn"]
    /\ created = [d \in Executions |-> 0]
    /\ mtime = [d \in Executions |-> 0]
    /\ remade = {}
    /\ step = [c \in CleanUps |-> "idle"]
    /\ listed = [c \in CleanUps |-> {}]
    /\ unread = [c \in CleanUps |-> {}]
    /\ seen = [c \in CleanUps |-> NothingRead]
    /\ now = [c \in CleanUps |-> 0]
    /\ victims = [c \in CleanUps |-> {}]
    /\ failed = {}
    /\ overlapped = FALSE

Started == {d \in Executions : state[d] # "unborn"}
There == {d \in Executions : state[d] \in {"whole", "torn"}}

-----------------------------------------------------------------------------
(* Time, and the executions of the plan.                                   *)

Tick ==
    /\ clock < MaxTime
    /\ clock' = clock + 1
    /\ UNCHANGED <<config, state, created, mtime, remade, cleaning>>

\* The name is the time to the nanosecond: no two executions share one.
StartExecution(d) ==
    /\ state[d] = "unborn"
    /\ \A e \in Executions : e < d => state[e] # "unborn"
    /\ state' = [state EXCEPT ![d] = "whole"]
    /\ created' = [created EXCEPT ![d] = clock]
    /\ mtime' = [mtime EXCEPT ![d] = clock]
    /\ UNCHANGED <<config, clock, remade, cleaning>>

\* An execution, or a process that has survived one, creates an entry in its
\* directory, and the directory with it if it has been removed.
WriteInto(d) ==
    /\ d \in Started
    /\ mtime' = [mtime EXCEPT ![d] = clock]
    /\ state' = [state EXCEPT ![d] = IF @ = "gone" THEN "whole" ELSE @]
    /\ remade' = IF state[d] = "gone" THEN remade \cup {d} ELSE remade
    /\ UNCHANGED <<config, clock, created, cleaning>>

-----------------------------------------------------------------------------
(* The choice of what to remove.                                           *)

\* Mutant: a directory that was modified in the meantime counts as old.
IsOld_Meantime(c, d) == now[c] < seen[c][d] \/ Secs(now[c] - seen[c][d]) > Limit

IsOld(c, d) == now[c] >= seen[c][d] /\ Secs(now[c] - seen[c][d]) > Limit

Old(c) == {d \in DOMAIN seen[c] : IsOld(c, d)}

\* Mutant: the sorted entries are not reversed.
Newer_Unreversed(c, d, e) == Secs(seen[c][d]) <= Secs(seen[c][e])

Newer(c, d, e) == Secs(seen[c][d]) >= Secs(seen[c][e])

\* Mutant: the list is split one entry too early.
Surplus_Early(c) ==
    {DOMAIN seen[c] \ kept : kept \in
        {K \in SUBSET DOMAIN seen[c] :
            /\ Cardinality(K) + 1 = Limit
            /\ \A d \in K, e \in DOMAIN seen[c] \ K : Newer(c, d, e)}}

\* Entries come in any order and a stable sort leaves ties in that order: after
\* the reversal any Limit entries that are not older than the rest can be first.
Surplus(c) ==
    {DOMAIN seen[c] \ kept : kept \in
        {K \in SUBSET DOMAIN seen[c] :
            /\ Cardinality(K) = Limit
            /\ \A d \in K, e \in DOMAIN seen[c] \ K : Newer(c, d, e)}}

\* Mutant: one execution too many is put up with.
Choices_OneMore(c) ==
    IF Policy = "MaxAgeSecs" THEN {Old(c)}
    ELSE IF Cardinality(DOMAIN seen[c]) <= Limit + 1 THEN {{}} ELSE Surplus(c)

Choices(c) ==
    IF Policy = "MaxAgeSecs" THEN {Old(c)}
    ELSE IF Cardinality(DOMAIN seen[c]) <= Limit THEN {{}} ELSE Surplus(c)

-----------------------------------------------------------------------------
(* cleanup_working_directory                                               *)

\* When the directory cannot be read there is no clean-up.  An entry that cannot
\* be listed is as good as one whose metadata cannot be read.
List(c) ==
    /\ step[c] = "idle"
    /\ step' = [step EXCEPT ![c] = "listed"]
    /\ listed' = [listed EXCEPT ![c] = There]
    /\ unread' = [unread EXCEPT ![c] = There]
    /\ overlapped' = (overlapped \/ \E other \in CleanUps : step[other] # "idle")
    /\ UNCHANGED <<directories, seen, now, victims, failed>>

TakeTime(c) ==
    /\ step[c] = "listed"
    /\ step' = [step EXCEPT ![c] = "reading"]
    /\ now' = [now EXCEPT ![c] = IF Policy = "MaxAgeSecs" THEN clock ELSE @]
    /\ UNCHANGED <<directories, listed, unread, seen, victims, failed, overlapped>>

ReadMetadata(c, d) ==
    /\ step[c] = "reading"
    /\ d \in unread[c] \cap There
    /\ unread' = [unread EXCEPT ![c] = @ \ {d}]
    /\ seen' = [seen EXCEPT ![c] =
                   [e \in DOMAIN @ \cup {d} |-> IF e = d THEN mtime[d] ELSE @[e]]]
    /\ UNCHANGED <<directories, step, listed, now, victims, failed, overlapped>>

\* The entry takes no part: it is neither counted nor removed.
MetadataFails(c, d) ==
    /\ step[c] = "reading"
    /\ d \in unread[c]
    /\ unread' = [unread EXCEPT ![c] = @ \ {d}]
    /\ failed' = IF d \in There THEN failed \cup {c} ELSE failed
    /\ UNCHANGED <<directories, step, listed, seen, now, victims, overlapped>>

Choose(c) ==
    /\ step[c] = "reading"
    /\ unread[c] = {}
    /\ step' = [step EXCEPT ![c] = "removing"]
    /\ \E chosen \in Choices(c) :
        /\ victims' = [victims EXCEPT ![c] = chosen]
        /\ seen' = [seen EXCEPT ![c] = [d \in chosen |-> @[d]]]
    /\ UNCHANGED <<directories, listed, unread, now, failed, overlapped>>

\* Old entries are removed as they were listed, surplus ones from new to old.
IsNextVictim(c, d) ==
    /\ step[c] = "removing"
    /\ d \in victims[c]
    /\ Policy = "MaxExecutions" => \A e \in victims[c] : Newer(c, d, e)

\* remove_dir_all removes the content first, which modifies the directory.
RemoveContent(c, d) ==
    /\ IsNextVictim(c, d)
    /\ d \in There
    /\ state' = [state EXCEPT ![d] = "torn"]
    /\ mtime' = [mtime EXCEPT ![d] = clock]
    /\ UNCHANGED <<config, clock, created, remade, cleaning>>

RemoveDir(c, d) ==
    /\ IsNextVictim(c, d)
    /\ d \in There
    /\ state' = [state EXCEPT ![d] = "gone"]
    /\ victims' = [victims EXCEPT ![c] = @ \ {d}]
    /\ UNCHANGED <<config, clock, created, mtime, remade, step, listed, unread, seen,
                   now, failed, overlapped>>

\* It is gone already, a file in it is in use, or something was written into it.
RemovalFails(c, d) ==
    /\ IsNextVictim(c, d)
    /\ victims' = [victims EXCEPT ![c] = @ \ {d}]
    /\ failed' = IF d \in There THEN failed \cup {c} ELSE failed
    /\ UNCHANGED <<directories, step, listed, unread, seen, now, overlapped>>

\* What the clean-ups in S know goes with them.
Forget(S) ==
    /\ step' = [c \in CleanUps |-> IF c \in S THEN "idle" ELSE step[c]]
    /\ listed' = [c \in CleanUps |-> IF c \in S THEN {} ELSE listed[c]]
    /\ unread' = [c \in CleanUps |-> IF c \in S THEN {} ELSE unread[c]]
    /\ seen' = [c \in CleanUps |-> IF c \in S THEN NothingRead ELSE seen[c]]
    /\ now' = [c \in CleanUps |-> IF c \in S THEN 0 ELSE now[c]]
    /\ victims' = [c \in CleanUps |-> IF c \in S THEN {} ELSE victims[c]]
    /\ failed' = failed \ S
    /\ overlapped' = overlapped

Finish(c) ==
    /\ step[c] = "removing"
    /\ victims[c] = {}
    /\ Forget({c})
    /\ UNCHANGED directories

\* The scheduler is killed; another one takes over.
Crash ==
    /\ \E c \in CleanUps : step[c] # "idle"
    /\ Forget(CleanUps)
    /\ UNCHANGED directories

-----------------------------------------------------------------------------
CleanUpStep(c) ==
    \/ TakeTime(c) \/ Choose(c) \/ Finish(c)
    \/ \E d \in Executions :
           \/ ReadMetadata(c, d) \/ MetadataFails(c, d)
           \/ RemoveDir(c, d) \/ RemovalFails(c, d)

Next ==
    \/ Tick \/ Crash
    \/ \E d \in Executions : StartExecution(d) \/ WriteInto(d)
    \/ \E c \in CleanUps :
           \/ List(c) \/ CleanUpStep(c)
           \/ \E d \in Executions : RemoveContent(c, d)

Spec == Init /\ [][Next]_vars

-----------------------------------------------------------------------------
(* Properties                                                              *)

Outdone(d) ==
    \E rivals \in SUBSET (Started \ {d}) :
        /\ Cardinality(rivals) = Limit
        /\ \A e \in rivals : Secs(mtime[e]) >= Secs(created[d])

(***************************************************************************)
(* Under a limit of executions nothing is chosen, torn or removed unless   *)
(* that many others were modified since the second in which it was         *)
(* created, whatever overlaps or fails.  So the directory of a running     *)
(* execution is safe unless that many executions fall into its first       *)
(* second, or as many old ones are modified during it, by a survivor or by *)
(* a removal that was not completed.                                       *)
(***************************************************************************)
RemovedForNewer ==
    Policy = "MaxExecutions" =>
        /\ \A d \in Executions : state[d] \in {"torn", "gone"} => Outdone(d)
        /\ \A c \in CleanUps : \A d \in victims[c] : Outdone(d)

(***************************************************************************)
(* Under a limit of age no execution that began at most that many seconds  *)
(* ago is chosen, torn or removed.  One that takes longer may lose its     *)
(* directory while it runs.                                                *)
(***************************************************************************)
YoungAreSafe ==
    Policy = "MaxAgeSecs" =>
        \A d \in Started :
            Secs(clock - created[d]) <= Limit =>
                state[d] = "whole" /\ \A c \in CleanUps : d \notin victims[c]

\* What no clean-up is about to remove, and the part of it that was once to be
\* removed and has been removed in part.
Spared == There \ UNION {victims[c] : c \in CleanUps}
Broken == {d \in Spared : state[d] = "torn"}

(***************************************************************************)
(* As long as no clean-ups overlap, a limit of executions spares all there *)
(* have been, or as many, whole, as the limit says, less one for each      *)
(* removal that broke off: failures, removals that stop half way and       *)
(* crashes cost no more.  (What is left of a broken removal has the latest *)
(* modification time and may push a whole execution out, but only one.     *)
(* Clean-ups that overlap can remove more: what one is about to remove,    *)
(* the other counts among the newest.)                                     *)
(***************************************************************************)
EnoughRemain ==
    Policy = "MaxExecutions" /\ ~overlapped =>
        \/ Started \subseteq Spared
        \/ \E whole \in SUBSET (Spared \ Broken) :
               Cardinality(whole) + Cardinality(Broken) >= Limit

(***************************************************************************)
(* When it is done, a clean-up that met with no failure leaves of what it  *)
(* has listed no more than its limit allows, even though another one is at *)
(* work on the same entries.                                               *)
(***************************************************************************)
CleanUpIsThorough ==
    \A c \in CleanUps : step[c] = "removing" /\ victims[c] = {} /\ c \notin failed =>
        LET left == (listed[c] \cap There) \ remade IN
            IF Policy = "MaxExecutions" THEN Cardinality(left) <= Limit
            ELSE \A d \in left :
                     now[c] >= mtime[d] => Secs(now[c] - mtime[d]) <= Limit
=============================================================================
