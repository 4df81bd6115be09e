------------------------------ MODULE PlanRun -------------------------------
(***************************************************************************)
(* One execution of a plan (plans.rs): attempts of Robot Framework until   *)
(* one passes or the configured number is used up, then rebot merges the   *)
(* outputs that count.  The supervised command can end in any way at any   *)
(* point, so an attempt may leave no output, a truncated one, or a whole   *)
(* one that does not count because the time was up before the exit.        *)
(***************************************************************************)
EXTENDS Naturals, Sequences

CONSTANTS
    Tests,          \* the tests the plan selects
    NAttemptsMax,   \* execution_config.n_attempts_max
    Strategies,     \* the retry strategies to consider
    Environments,   \* the environments to consider
    Absent,         \* a file that does not exist
    Torn,           \* a file that was not closed
    NotRun,         \* rebot had nothing to do
    Error           \* RebotOutcome::Error

ASSUME PlansAreConfigured ==
    /\ Tests # {}
    /\ NAttemptsMax \in Nat
    /\ Strategies \subseteq {"Incremental", "Complete"}
    /\ Environments \subseteq {"System", "Rcc"}

\* What an output.xml says of each test; "none": the test is not in it.
Verdicts == [Tests -> {"pass", "fail", "none"}]
Files == Verdicts \cup {Absent, Torn}

ASSUME MarksAreNoFiles ==
    /\ {Absent, Torn, NotRun, Error} \cap Verdicts = {}
    /\ Absent # Torn /\ Absent # NotRun /\ Torn # NotRun
    /\ Error \notin {Absent, Torn, NotRun}

Attempts == 1 .. NAttemptsMax
AttemptOutcomes == {"AllTestsPassed", "TestFailures", "RobotFailure",
                    "EnvironmentFailure", "TimedOut", "OtherError"}

VARIABLES
    strategy,       \* robot.retry_strategy
    environment,    \* plan.environment
    cancelled,      \* plan.cancellation_token
    status,         \* where run_attempts_with_rebot is
    attempt,        \* index of the attempt under way
    child,          \* how far the command under supervision has come
    xml,            \* attempt -> <index>.xml
    merged,         \* rebot.xml
    attempt_reports,
    output_paths,   \* attempts whose output rebot is given
    rebot           \* the outcome of rebot in the report

fixed == <<strategy, environment>>
results == <<attempt_reports, output_paths, rebot>>
vars == <<fixed, cancelled, status, attempt, child, xml, merged, results>>

TypeOK ==
    /\ strategy \in Strategies
    /\ environment \in Environments
    /\ cancelled \in BOOLEAN
    /\ status \in {"attempts", "rebot", "report", "cancelled"}
    /\ attempt \in 0 .. NAttemptsMax
    /\ child \in {"none", "started", "writing", "written"}
    /\ xml \in [Attempts -> Files]
    /\ merged \in Files
    /\ attempt_reports \in Seq(AttemptOutcomes)
    /\ output_paths \in Seq(Attempts)
    /\ rebot \in Files \cup {NotRun, Error}

Init ==
    /\ strategy \in Strategies
    /\ environment \in Environments
    /\ cancelled = FALSE
    /\ status = IF NAttemptsMax = 0 THEN "report" ELSE "attempts"
    /\ attempt = IF NAttemptsMax = 0 THEN 0 ELSE 1
    /\ child = IF NAttemptsMax = 0 THEN "none" ELSE "started"
    /\ xml = [i \in Attempts |-> Absent]
    /\ merged = Absent
    /\ attempt_reports = <<>>
    /\ output_paths = <<>>
    /\ rebot = NotRun

Cancel ==
    /\ ~cancelled
    /\ cancelled' = TRUE
    /\ UNCHANGED <<fixed, status, attempt, child, xml, merged, results>>

-----------------------------------------------------------------------------
(* The commands, as far as the outcome depends on them.                    *)

Failed(file) == {t \in Tests : file \in Verdicts /\ file[t] = "fail"}

\* Mutant: every retry starts from the first attempt.
RerunBase_First(i) == 1

\* The attempt whose output is given to --rerunfailed (robot.rs:62-66).
RerunBase(i) == i - 1

Reruns(i) == strategy = "Incremental" /\ i > 1

\* The tests attempt i runs.  Robot refuses --rerunfailed with a file that is
\* not there, is truncated or has no failed test.
Selected(i) == IF Reruns(i) THEN Failed(xml[RerunBase(i)]) ELSE Tests

RobotOpensOutput ==
    /\ status = "attempts"
    /\ child = "started"
    /\ Selected(attempt) # {}
    /\ child' = "writing"
    /\ xml' = [xml EXCEPT ![attempt] = Torn]
    /\ UNCHANGED <<fixed, cancelled, status, attempt, merged, results>>

RobotClosesOutput ==
    /\ status = "attempts"
    /\ child = "writing"
    /\ child' = "written"
    /\ \E passed \in SUBSET Selected(attempt) :
        xml' = [xml EXCEPT ![attempt] =
                  [t \in Tests |-> IF t \in passed THEN "pass"
                                   ELSE IF t \in Selected(attempt) THEN "fail"
                                   ELSE "none"]]
    /\ UNCHANGED <<fixed, cancelled, status, attempt, merged, results>>

(***************************************************************************)
(* rebot --merge: a later output overrides an earlier one test by test.    *)
(***************************************************************************)
Merge(paths) ==
    [t \in Tests |->
        LET having == {k \in 1 .. Len(paths) : xml[paths[k]][t] # "none"}
        IN  IF having = {} THEN "none"
            ELSE LET last == CHOOSE k \in having : \A l \in having : l =< k
                 IN  xml[paths[last]][t]]

RebotOpensOutput ==
    /\ status = "rebot"
    /\ child = "started"
    /\ \A k \in 1 .. Len(output_paths) : xml[output_paths[k]] \in Verdicts
    /\ child' = "writing"
    /\ merged' = Torn
    /\ UNCHANGED <<fixed, cancelled, status, attempt, xml, results>>

RebotClosesOutput ==
    /\ status = "rebot"
    /\ child = "writing"
    /\ child' = "written"
    /\ merged' = Merge(output_paths)
    /\ UNCHANGED <<fixed, cancelled, status, attempt, xml, results>>

\* 0 means that the output was written and nothing in it failed, 10 that rcc ran
\* the command and it failed; any other way to fail is possible at any time.
ExitCodes(output) ==
    {10, 250} \cup
        (IF child = "written" /\ Failed(output) = {} THEN {0} ELSE {})

-----------------------------------------------------------------------------
(* What becomes of the command (plans.rs:83-131, rebot.rs:29-72)           *)

SystemEnvironment_result_code(exit_code) ==
    IF exit_code = 0 THEN "AllTestsPassed" ELSE "RobotCommandFailed"

RCCEnvironment_result_code(exit_code) ==
    CASE exit_code = 0 -> "AllTestsPassed"
      [] exit_code = 10 -> "RobotCommandFailed"
      [] OTHER -> "EnvironmentFailed"

create_result_code(exit_code) ==
    IF environment = "Rcc" THEN RCCEnvironment_result_code(exit_code)
                           ELSE SystemEnvironment_result_code(exit_code)

\* Mutant: the loop is not left when all tests passed.
NextAttempt_AlwaysRetries(outcome, paths) ==
    IF attempt # NAttemptsMax
    THEN /\ attempt' = attempt + 1
         /\ child' = "started"
         /\ UNCHANGED status
    ELSE /\ status' = IF paths = <<>> THEN "report" ELSE "rebot"
         /\ child' = IF paths = <<>> THEN "none" ELSE "started"
         /\ UNCHANGED attempt

\* The next attempt, or rebot if there is anything to merge.
NextAttempt(outcome, paths) ==
    IF outcome # "AllTestsPassed" /\ attempt # NAttemptsMax
    THEN /\ attempt' = attempt + 1
         /\ child' = "started"
         /\ UNCHANGED status
    ELSE /\ status' = IF paths = <<>> THEN "report" ELSE "rebot"
         /\ child' = IF paths = <<>> THEN "none" ELSE "started"
         /\ UNCHANGED attempt

\* Mutant: the outputs are collected newest first.
Reported_NewestFirst(outcome, counts) ==
    LET paths == IF counts THEN <<attempt>> \o output_paths ELSE output_paths
    IN  /\ attempt_reports' = Append(attempt_reports, outcome)
        /\ output_paths' = paths
        /\ NextAttempt(outcome, paths)
        /\ UNCHANGED <<fixed, cancelled, xml, merged, rebot>>

\* An attempt is over, and its output counts or does not.
Reported(outcome, counts) ==
    LET paths == IF counts THEN Append(output_paths, attempt) ELSE output_paths
    IN  /\ attempt_reports' = Append(attempt_reports, outcome)
        /\ output_paths' = paths
        /\ NextAttempt(outcome, paths)
        /\ UNCHANGED <<fixed, cancelled, xml, merged, rebot>>

\* Mutant: a failing command is taken for a test failure, output or not.
RobotExits_NoExistsCheck ==
    /\ status = "attempts"
    /\ \E exit_code \in ExitCodes(xml[attempt]) :
        CASE create_result_code(exit_code) = "AllTestsPassed" ->
                Reported("AllTestsPassed", TRUE)
          [] create_result_code(exit_code) = "EnvironmentFailed" ->
                Reported("EnvironmentFailure", FALSE)
          [] OTHER -> Reported("TestFailures", TRUE)

RobotExits ==
    /\ status = "attempts"
    /\ \E exit_code \in ExitCodes(xml[attempt]) :
        CASE create_result_code(exit_code) = "AllTestsPassed" ->
                Reported("AllTestsPassed", TRUE)
          [] create_result_code(exit_code) = "EnvironmentFailed" ->
                Reported("EnvironmentFailure", FALSE)
          [] OTHER ->
                IF xml[attempt] # Absent
                THEN Reported("TestFailures", TRUE)
                ELSE Reported("RobotFailure", FALSE)

\* The timeout of the plan.
RobotTimesOut == status = "attempts" /\ Reported("TimedOut", FALSE)

\* It could not be started, or it has no exit code because a signal ended it.
RobotRunFails == status = "attempts" /\ Reported("OtherError", FALSE)

Rebot(outcome) ==
    /\ status = "rebot"
    /\ rebot' = outcome
    /\ status' = "report"
    /\ child' = "none"
    /\ UNCHANGED <<fixed, cancelled, attempt, xml, merged, attempt_reports,
                   output_paths>>

RebotExits ==
    \E exit_code \in ExitCodes(merged) :
        IF create_result_code(exit_code) # "EnvironmentFailed" /\ merged # Absent
        THEN Rebot(merged) \/ Rebot(Error)    \* the HTML can be read, or not
        ELSE Rebot(Error)

\* Mutant: rebot is run without a timeout.
RebotTimesOut_Never == FALSE

\* After two minutes, or it could not be started or has no exit code.
RebotTimesOut == Rebot(Error)

\* The supervisor saw the token: nothing is reported.
SeesCancel ==
    /\ cancelled
    /\ status \in {"attempts", "rebot"}
    /\ status' = "cancelled"
    /\ child' = "none"
    /\ UNCHANGED <<fixed, cancelled, attempt, xml, merged, results>>

CommandRuns ==
    \/ RobotOpensOutput \/ RobotClosesOutput
    \/ RebotOpensOutput \/ RebotClosesOutput

CommandEnds ==
    \/ RobotExits \/ RobotTimesOut \/ RobotRunFails
    \/ RebotExits \/ RebotTimesOut
    \/ SeesCancel

Terminated == status \in {"report", "cancelled"} /\ UNCHANGED vars

Next == Cancel \/ CommandRuns \/ CommandEnds \/ Terminated

Spec == Init /\ [][Next]_vars

\* A command may hang for ever; only the supervisor's clock is certain.
FairSpec == Spec /\ WF_vars(RobotTimesOut) /\ WF_vars(RebotTimesOut)

-----------------------------------------------------------------------------
(* Properties                                                              *)

(***************************************************************************)
(* The report tells the story of the attempts: nothing was tried after a   *)
(* success, and without one nothing was left untried.                      *)
(***************************************************************************)
ReportIsComplete ==
    LET n == Len(attempt_reports) IN
    /\ \A i \in 1 .. n - 1 : attempt_reports[i] # "AllTestsPassed"
    /\ status \in {"rebot", "report"} =>
        n = NAttemptsMax \/ attempt_reports[n] = "AllTestsPassed"

(***************************************************************************)
(* Every output that rebot is given exists, is of an attempt whose tests   *)
(* were reported as run, and is given in the order of the attempts.        *)
(***************************************************************************)
OutputsAreReported ==
    \A k \in 1 .. Len(output_paths) :
        /\ xml[output_paths[k]] # Absent
        /\ attempt_reports[output_paths[k]] \in {"AllTestsPassed", "TestFailures"}
        /\ \A l \in 1 .. k - 1 : output_paths[l] < output_paths[k]

(***************************************************************************)
(* An incremental retry never runs a test again that has passed, however   *)
(* the attempts in between ended.                                          *)
(***************************************************************************)
PassedTestsRest ==
    strategy = "Incremental" =>
        \A i, j \in Attempts : \A t \in Tests :
            /\ i < j
            /\ xml[i] \in Verdicts /\ xml[i][t] = "pass"
            /\ xml[j] \in Verdicts
            => xml[j][t] = "none"

(***************************************************************************)
(* The two verdicts of a report agree: when the last attempt passed, the   *)
(* merged output shows every test as passed, unless the report itself says *)
(* why not: the retry was incremental, and a test rested because it had    *)
(* passed in the whole output of an attempt that is reported as neither a  *)
(* success nor a test failure (its time was up, or its environment failed, *)
(* after the tests were done), which rebot is not given.                   *)
(***************************************************************************)
RestedUncounted(t) ==
    /\ strategy = "Incremental"
    /\ \E i \in 1 .. Len(attempt_reports) :
        /\ attempt_reports[i] \notin {"AllTestsPassed", "TestFailures"}
        /\ xml[i] \in Verdicts /\ xml[i][t] = "pass"

VerdictsAgree ==
    /\ rebot \in Verdicts
    /\ attempt_reports[Len(attempt_reports)] = "AllTestsPassed"
    => \A t \in Tests : rebot[t] = "pass" \/ RestedUncounted(t)

(***************************************************************************)
(* Who reads the report need not know of commands and files: it is the one *)
(* that PlanReport promises.                                               *)
(***************************************************************************)
Promised == INSTANCE PlanReport WITH
    MaxAttempts <- NAttemptsMax,
    Outcomes <- AttemptOutcomes,
    Success <- "AllTestsPassed",
    Counting <- {"AllTestsPassed", "TestFailures"},
    Merges <- (Files \ {Absent}) \cup {Error},
    NotMerged <- NotRun,
    state <- IF status \in {"attempts", "rebot"} THEN "running" ELSE status,
    reports <- attempt_reports,
    verdict <- rebot

ImplementsReport == Promised!ReportSpec

\* A run ends, even when the command hangs.
RunEnds == <>(status \in {"report", "cancelled"})
=============================================================================
