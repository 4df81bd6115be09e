---------------------------- MODULE ResultsStore ----------------------------
(***************************************************************************)
(* What the results directory promises to the agent plugin, without locks, *)
(* temporary files or the order in which a directory is walked.            *)
(*                                                                         *)
(* A store maps each entry to a section or to None.  The scheduler changes *)
(* one entry at a time; a plugin takes all of them in ONE step, so what it *)
(* prints was in the directory at a single moment.  SectionExchange is the *)
(* detailed specification: it reads entry by entry and writes in four      *)
(* steps, and it implements this one.                                      *)
(***************************************************************************)
CONSTANTS
    Entries,    \* the names a walk of the results directory can meet
    Sections,   \* the section values the scheduler writes
    Plugins,    \* the agent plugin processes
    None,       \* no section under this name
    NoSnapshot  \* this plugin has not read anything it still has to print

VARIABLES
    sections,   \* entry -> the section a reader would find there
    taken       \* plugin -> the snapshot it prints

storeVars == <<sections, taken>>

Snapshots == [Entries -> Sections \cup {None}]

\* The promise about types.
StoreTypeOK ==
    /\ sections \in Snapshots
    /\ taken \in [Plugins -> Snapshots \cup {NoSnapshot}]

StoreInit ==
    /\ sections = [e \in Entries |-> None]
    /\ taken = [r \in Plugins |-> NoSnapshot]

(***************************************************************************)
(* A section appears under a name, in one piece: a completed write, or a   *)
(* draft that its writer left behind.                                      *)
(***************************************************************************)
Appear(e, s) ==
    /\ sections' = [sections EXCEPT ![e] = s]
    /\ UNCHANGED taken

\* A section disappears: the sweep of a new run, or a draft that is replaced.
Disappear(e) ==
    /\ sections' = [sections EXCEPT ![e] = None]
    /\ UNCHANGED taken

\* A plugin takes everything there is, at one moment.
Take(r) ==
    /\ taken[r] = NoSnapshot
    /\ taken' = [taken EXCEPT ![r] = sections]
    /\ UNCHANGED sections

\* A plugin has printed its snapshot, or was killed before it could.
Done(r) ==
    /\ taken[r] # NoSnapshot
    /\ taken' = [taken EXCEPT ![r] = NoSnapshot]
    /\ UNCHANGED sections

StoreNext ==
    \/ \E e \in Entries : Disappear(e) \/ \E s \in Sections : Appear(e, s)
    \/ \E r \in Plugins : Take(r) \/ Done(r)

StoreSpec == StoreInit /\ [][StoreNext]_storeVars
=============================================================================
