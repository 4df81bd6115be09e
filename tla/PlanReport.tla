----------------------------- MODULE PlanReport -----------------------------
(***************************************************************************)
(* What the report of one execution of a plan promises to its reader,      *)
(* without commands, files and clocks.  Attempts are made until one passes *)
(* or their number is used up, and each of them is told once, in order.    *)
(* Their outputs are merged after the last, once, if there is anything to  *)
(* merge.  There is a report, or the run was cancelled; then there is none *)
(* and what was tried is forgotten.  PlanRun is the detailed               *)
(* specification: it implements this one.                                  *)
(***************************************************************************)
EXTENDS Naturals, Sequences

CONSTANTS
    MaxAttempts,
    Outcomes,   \* how an attempt may end
    Success,    \* the one that needs no retry
    Counting,   \* those that leave something to merge
    Merges,     \* what may become of the merge
    NotMerged   \* it did not take place

VARIABLES
    state,      \* "running", "report" or "cancelled"
    reports,    \* the outcomes of the attempts so far
    verdict     \* the outcome of the merge

reportVars == <<state, reports, verdict>>

Complete(story) ==
    \/ Len(story) = MaxAttempts
    \/ story # <<>> /\ story[Len(story)] = Success

ToMerge(story) == \E i \in 1 .. Len(story) : story[i] \in Counting

ReportInit ==
    /\ state = IF MaxAttempts = 0 THEN "report" ELSE "running"
    /\ reports = <<>>
    /\ verdict = NotMerged

Try(outcome) ==
    /\ state = "running"
    /\ ~Complete(reports)
    /\ reports' = Append(reports, outcome)
    /\ state' = IF Complete(reports') /\ ~ToMerge(reports')
                THEN "report" ELSE "running"
    /\ UNCHANGED verdict

Conclude(result) ==
    /\ state = "running"
    /\ Complete(reports)
    /\ ToMerge(reports)
    /\ state' = "report"
    /\ verdict' = result
    /\ UNCHANGED reports

GiveUp ==
    /\ state = "running"
    /\ state' = "cancelled"
    /\ UNCHANGED <<reports, verdict>>

ReportNext ==
    \/ \E outcome \in Outcomes : Try(outcome)
    \/ \E result \in Merges : Conclude(result)
    \/ GiveUp

ReportSpec == ReportInit /\ [][ReportNext]_reportVars
=============================================================================
