-------------------------------- MODULE Rota --------------------------------
(***************************************************************************)
(* What the scheduling of plans promises, without tasks, intervals,        *)
(* threads or the token.  Every tick of a group entitles each of its plans *)
(* to one run.  The plans of a group take turns in the order of their      *)
(* positions, one runs at a time, and a tick is never forgotten, however   *)
(* late it is served.  PlanScheduler is the detailed specification.        *)
(***************************************************************************)
EXTENDS Naturals

CONSTANTS
    Plans,      \* the plans of the configuration
    Groups,
    Group,      \* plan -> its group
    Position    \* plan -> its place in its group

VARIABLES
    taking_part,    \* the plans that are scheduled
    ticks,          \* group -> ticks so far
    runs,           \* plan -> runs that are over
    running         \* plans that run

rotaVars == <<taking_part, ticks, runs, running>>

RotaInit ==
    /\ taking_part \in SUBSET Plans
    /\ ticks = [g \in Groups |-> 0]
    /\ runs = [p \in Plans |-> 0]
    /\ running = {}

GroupTicks(g) ==
    /\ ticks' = [ticks EXCEPT ![g] = @ + 1]
    /\ UNCHANGED <<taking_part, runs, running>>

Companions(p) == {q \in taking_part : Group[q] = Group[p]}

\* Who comes before p has had this turn already, who comes after it has not.
IsTurnOf(p) ==
    \A q \in Companions(p) :
        runs[q] = runs[p] + (IF Position[q] < Position[p] THEN 1 ELSE 0)

RunBegins(p) ==
    /\ p \in taking_part
    /\ Companions(p) \cap running = {}
    /\ IsTurnOf(p)
    /\ runs[p] < ticks[Group[p]]
    /\ running' = running \cup {p}
    /\ UNCHANGED <<taking_part, ticks, runs>>

RunEnds(p) ==
    /\ p \in running
    /\ running' = running \ {p}
    /\ runs' = [runs EXCEPT ![p] = @ + 1]
    /\ UNCHANGED <<taking_part, ticks>>

RotaNext ==
    \/ \E g \in Groups : GroupTicks(g)
    \/ \E p \in Plans : RunBegins(p) \/ RunEnds(p)

RotaSpec == RotaInit /\ [][RotaNext]_rotaVars
=============================================================================
