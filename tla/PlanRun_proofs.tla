--------------------------- MODULE PlanRun_proofs ---------------------------
(***************************************************************************)
(* Proofs about PlanRun for any tests, any number of attempts, and every   *)
(* way in which the commands may end.                                      *)
(***************************************************************************)
EXTENDS PlanRun, WellFoundedInduction, TLAPS

Counted == {"AllTestsPassed", "TestFailures"}

\* How many attempts have been reported, for each place in the run.
ReportsKeepUp ==
    /\ Len(attempt_reports) <= attempt
    /\ status = "attempts" => attempt = Len(attempt_reports) + 1
    /\ status \in {"rebot", "report"} =>
        /\ Len(attempt_reports) = attempt
        /\ attempt = NAttemptsMax \/ attempt_reports[attempt] = "AllTestsPassed"

\* A success is the last attempt, its output was whole, and rebot is given it.
SuccessIsLast ==
    \A i \in 1 .. Len(attempt_reports) :
        attempt_reports[i] = "AllTestsPassed" =>
            /\ i = Len(attempt_reports) /\ status # "attempts"
            /\ xml[i] \in Verdicts /\ Failed(xml[i]) = {}
            /\ output_paths # <<>> /\ output_paths[Len(output_paths)] = i

\* The paths are those of reported attempts, in their order.
PathsAreReported ==
    /\ \A k \in 1 .. Len(output_paths) :
        /\ output_paths[k] \in 1 .. Len(attempt_reports)
        /\ xml[output_paths[k]] # Absent
        /\ attempt_reports[output_paths[k]] \in Counted
    /\ \A k, l \in 1 .. Len(output_paths) :
        l < k => output_paths[l] < output_paths[k]

\* The output under way is as far as the command that writes it.
OutputFollowsChild ==
    /\ \A i \in Attempts : attempt < i => xml[i] = Absent
    /\ status = "attempts" =>
        /\ child # "none"
        /\ child = "started" => xml[attempt] = Absent
        /\ child = "writing" => xml[attempt] = Torn
        /\ child = "written" => xml[attempt] \in Verdicts

\* Robot writes an output only if it has a test to run.
WritesForSome ==
    status = "attempts" /\ child = "writing" => Selected(attempt) # {}

\* A test that a whole output does not show has passed before.
MissingHasPassed ==
    \A i \in Attempts : \A t \in Tests :
        xml[i] \in Verdicts /\ xml[i][t] = "none" =>
            /\ strategy = "Incremental"
            /\ \E j \in Attempts :
                j < i /\ xml[j] \in Verdicts /\ xml[j][t] = "pass"

\* The merged output is the merge of the outputs, which were whole.
MergedFits ==
    /\ status = "attempts" => merged = Absent
    /\ status = "rebot" =>
        /\ output_paths # <<>>
        /\ child # "none"
        /\ child = "started" => merged = Absent
        /\ child = "writing" => merged = Torn
    /\ merged # Absent =>
        /\ output_paths # <<>>
        /\ \A k \in 1 .. Len(output_paths) : xml[output_paths[k]] \in Verdicts
    /\ merged \in Verdicts => merged = Merge(output_paths)
    /\ rebot \in Verdicts => status = "report" /\ rebot = merged

IInv ==
    /\ TypeOK
    /\ ReportsKeepUp
    /\ SuccessIsLast
    /\ PathsAreReported
    /\ OutputFollowsChild
    /\ WritesForSome
    /\ MissingHasPassed
    /\ PassedTestsRest
    /\ MergedFits

-----------------------------------------------------------------------------
(* What a merge holds.                                                     *)

LEMMA LastOfSome ==
    ASSUME NEW n \in Nat, NEW S \in SUBSET (1 .. n), S # {}
    PROVE  \E k \in S : \A l \in S : l <= k
<1> DEFINE T == {n - k : k \in S}
<1>1. T \subseteq Nat /\ T # {}
  <2>1. \A k \in S : n - k \in Nat
    OBVIOUS
  <2>2. PICK k \in S : TRUE
    OBVIOUS
  <2>3. n - k \in T
    OBVIOUS
  <2> QED
    BY <2>1, <2>3
<1>2. PICK m \in T : \A y \in T : ~(<<y, m>> \in OpToRel(<, Nat))
  BY <1>1, WFMin, NatLessThanWellFounded, Zenon
<1>3. \A y \in T : ~(y < m)
  BY <1>1, <1>2 DEF OpToRel
<1>4. PICK k \in S : m = n - k
  OBVIOUS
<1>5. \A l \in S : l <= k
  <2> SUFFICES ASSUME NEW l \in S PROVE l <= k
    OBVIOUS
  <2>1. n - l \in T
    OBVIOUS
  <2>2. ~(n - l < n - k)
    BY <1>3, <1>4, <2>1
  <2> QED
    BY <2>2
<1> QED
  BY <1>5

\* The output that decides about a test is the last one that shows it.
LEMMA MergeOfTest ==
    ASSUME NEW paths \in Seq(Attempts), NEW t \in Tests,
           xml \in [Attempts -> Files],
           \A k \in 1 .. Len(paths) : xml[paths[k]] \in Verdicts
    PROVE  \/ /\ Merge(paths)[t] = "none"
              /\ \A k \in 1 .. Len(paths) : xml[paths[k]][t] = "none"
           \/ \E k \in 1 .. Len(paths) :
                /\ Merge(paths)[t] = xml[paths[k]][t]
                /\ xml[paths[k]][t] # "none"
                /\ \A l \in 1 .. Len(paths) :
                     xml[paths[l]][t] # "none" => l <= k
<1> DEFINE having == {k \in 1 .. Len(paths) : xml[paths[k]][t] # "none"}
           last == CHOOSE k \in having : \A l \in having : l =< k
<1>1. Merge(paths)[t] = IF having = {} THEN "none" ELSE xml[paths[last]][t]
  BY DEF Merge
<1>2. CASE having = {}
  BY <1>1, <1>2
<1>3. CASE having # {}
  <2>1. Len(paths) \in Nat /\ having \in SUBSET (1 .. Len(paths))
    OBVIOUS
  <2>2. \E k \in having : \A l \in having : l <= k
    BY <1>3, <2>1, LastOfSome
  <2>3. last \in having /\ \A l \in having : l <= last
    BY <2>2
  <2> HIDE DEF last
  <2> QED
    BY <1>1, <1>3, <2>3
<1> QED
  BY <1>2, <1>3

LEMMA MergeIsVerdicts ==
    ASSUME NEW paths \in Seq(Attempts),
           xml \in [Attempts -> Files],
           \A k \in 1 .. Len(paths) : xml[paths[k]] \in Verdicts
    PROVE  Merge(paths) \in Verdicts
<1>1. \A t \in Tests : Merge(paths)[t] \in {"pass", "fail", "none"}
  <2> SUFFICES ASSUME NEW t \in Tests
               PROVE  Merge(paths)[t] \in {"pass", "fail", "none"}
    OBVIOUS
  <2>1. \A k \in 1 .. Len(paths) : xml[paths[k]][t] \in {"pass", "fail", "none"}
    BY DEF Verdicts
  <2> QED
    BY <2>1, MergeOfTest
<1>2. Merge(paths) = [t \in Tests |-> Merge(paths)[t]]
  BY DEF Merge
<1> QED
  BY <1>1, <1>2 DEF Verdicts

-----------------------------------------------------------------------------
(* The ends of an attempt.                                                 *)

\* What every one of them has in common.
AttemptEnds(outcome) ==
    /\ status = "attempts"
    /\ Reported(outcome, outcome \in Counted)
    /\ outcome \in Counted => xml[attempt] # Absent
    /\ outcome = "AllTestsPassed" =>
        child = "written" /\ Failed(xml[attempt]) = {}

LEMMA AttemptsEnd ==
    ASSUME IInv, RobotExits \/ RobotTimesOut \/ RobotRunFails
    PROVE  \E outcome \in AttemptOutcomes : AttemptEnds(outcome)
<1>1. CASE RobotTimesOut
  <2>1. AttemptEnds("TimedOut")
    BY <1>1 DEF RobotTimesOut, AttemptEnds, Counted, Reported, NextAttempt
  <2> QED
    BY <2>1 DEF AttemptOutcomes
<1>2. CASE RobotRunFails
  <2>1. AttemptEnds("OtherError")
    BY <1>2 DEF RobotRunFails, AttemptEnds, Counted, Reported, NextAttempt
  <2> QED
    BY <2>1 DEF AttemptOutcomes
<1>3. CASE RobotExits
  <2>1. PICK code \in ExitCodes(xml[attempt]) :
            CASE create_result_code(code) = "AllTestsPassed" ->
                    Reported("AllTestsPassed", TRUE)
              [] create_result_code(code) = "EnvironmentFailed" ->
                    Reported("EnvironmentFailure", FALSE)
              [] OTHER ->
                    IF xml[attempt] # Absent
                    THEN Reported("TestFailures", TRUE)
                    ELSE Reported("RobotFailure", FALSE)
    BY <1>3 DEF RobotExits
  <2>2. status = "attempts"
    BY <1>3 DEF RobotExits
  <2>3. CASE create_result_code(code) = "AllTestsPassed"
    <3>1. code = 0
      BY <2>3 DEF create_result_code, RCCEnvironment_result_code,
                  SystemEnvironment_result_code
    <3>2. child = "written" /\ Failed(xml[attempt]) = {}
      BY <3>1 DEF ExitCodes
    <3>3. xml[attempt] # Absent
      BY <2>2, <3>2, MarksAreNoFiles DEF IInv, OutputFollowsChild
    <3>4. Reported("AllTestsPassed", TRUE)
      BY <2>1, <2>3
    <3>5. AttemptEnds("AllTestsPassed")
      BY <2>2, <3>2, <3>3, <3>4 DEF AttemptEnds, Counted, Reported
    <3> QED
      BY <3>5 DEF AttemptOutcomes
  <2>4. CASE create_result_code(code) = "EnvironmentFailed"
    <3>1. Reported("EnvironmentFailure", FALSE)
      BY <2>1, <2>4
    <3>2. AttemptEnds("EnvironmentFailure")
      BY <2>2, <3>1 DEF AttemptEnds, Counted, Reported
    <3> QED
      BY <3>2 DEF AttemptOutcomes
  <2>5. CASE create_result_code(code) \notin {"AllTestsPassed", "EnvironmentFailed"}
    <3>1. IF xml[attempt] # Absent THEN Reported("TestFailures", TRUE)
                                   ELSE Reported("RobotFailure", FALSE)
      BY <2>1, <2>5
    <3>2. CASE xml[attempt] # Absent
      <4>1. AttemptEnds("TestFailures")
        BY <2>2, <3>1, <3>2 DEF AttemptEnds, Counted, Reported
      <4> QED
        BY <4>1 DEF AttemptOutcomes
    <3>3. CASE xml[attempt] = Absent
      <4>1. AttemptEnds("RobotFailure")
        BY <2>2, <3>1, <3>3 DEF AttemptEnds, Counted, Reported
      <4> QED
        BY <4>1 DEF AttemptOutcomes
    <3> QED
      BY <3>2, <3>3
  <2> QED
    BY <2>3, <2>4, <2>5
<1> QED
  BY <1>1, <1>2, <1>3

-----------------------------------------------------------------------------
(* The initial states, and the steps that write no file.                   *)

LEMMA InitHolds == Init => IInv
<1> SUFFICES ASSUME Init PROVE IInv
  OBVIOUS
<1>1. TypeOK
  <2>1. Absent \in Files /\ xml \in [Attempts -> Files]
    BY DEF Init, Files
  <2>2. attempt_reports \in Seq(AttemptOutcomes) /\ output_paths \in Seq(Attempts)
    BY DEF Init
  <2>3. status \in {"attempts", "report"} /\ child \in {"none", "started"}
    BY DEF Init
  <2>4. attempt \in 0 .. NAttemptsMax
    BY PlansAreConfigured DEF Init
  <2> QED
    BY <2>1, <2>2, <2>3, <2>4 DEF Init, TypeOK
<1>2. /\ ReportsKeepUp /\ SuccessIsLast /\ PathsAreReported
      /\ OutputFollowsChild /\ WritesForSome
  BY PlansAreConfigured, MarksAreNoFiles
     DEF Init, ReportsKeepUp, SuccessIsLast, PathsAreReported,
         OutputFollowsChild, WritesForSome, Attempts
<1>3. \A i \in Attempts : xml[i] \notin Verdicts
  BY MarksAreNoFiles DEF Init
<1>4. MissingHasPassed /\ PassedTestsRest
  BY <1>3 DEF MissingHasPassed, PassedTestsRest
<1>5. MergedFits
  BY MarksAreNoFiles, PlansAreConfigured DEF Init, MergedFits
<1> QED
  BY <1>1, <1>2, <1>4, <1>5 DEF IInv

LEMMA SameFiles ==
    ASSUME IInv, UNCHANGED <<fixed, xml, attempt_reports, output_paths>>
    PROVE  /\ MissingHasPassed' /\ PassedTestsRest'
           /\ Merge(output_paths)' = Merge(output_paths)
BY DEF IInv, fixed, MissingHasPassed, PassedTestsRest, Merge

LEMMA QuietHolds ==
    ASSUME IInv, Cancel \/ SeesCancel \/ UNCHANGED vars
    PROVE  IInv'
<1>1. UNCHANGED <<fixed, xml, merged, results, attempt>>
  BY DEF Cancel, SeesCancel, vars
<1>2. TypeOK'
  BY DEF IInv, TypeOK, Cancel, SeesCancel, vars, fixed, results
<1>3. UNCHANGED <<status, child>> \/ status' = "cancelled"
  BY DEF Cancel, SeesCancel, vars
<1>4. ReportsKeepUp'
  BY <1>1, <1>3 DEF IInv, ReportsKeepUp, results
<1>5. SuccessIsLast'
  BY <1>1, <1>3 DEF IInv, SuccessIsLast, results, Failed
<1>6. PathsAreReported'
  BY <1>1 DEF IInv, PathsAreReported, results
<1>7. OutputFollowsChild' /\ WritesForSome'
  BY <1>1, <1>3 DEF IInv, OutputFollowsChild, WritesForSome, fixed, Selected,
                    Reruns, RerunBase, Failed
<1>8. /\ MissingHasPassed' /\ PassedTestsRest'
      /\ Merge(output_paths)' = Merge(output_paths)
  BY <1>1, SameFiles DEF results
<1>9. rebot \in Verdicts => status # "attempts" /\ status # "rebot"
  BY DEF IInv, MergedFits
<1>10. (Cancel \/ UNCHANGED vars) \/ rebot \notin Verdicts
  BY <1>9 DEF SeesCancel
<1>11. MergedFits'
  <2>1. CASE Cancel \/ UNCHANGED vars
    <3>1. UNCHANGED <<status, child>>
      BY <2>1 DEF Cancel, vars
    <3> QED
      BY <1>1, <1>8, <3>1 DEF IInv, MergedFits, results
  <2>2. CASE status' = "cancelled" /\ rebot \notin Verdicts
    BY <1>1, <1>8, <2>2 DEF IInv, MergedFits, results
  <2> QED
    BY <1>10, <2>1, <2>2 DEF SeesCancel
<1> QED
  BY <1>2, <1>4, <1>5, <1>6, <1>7, <1>8, <1>11 DEF IInv

-----------------------------------------------------------------------------
(* The steps of Robot.                                                     *)

\* Nothing that was reported is touched by the output under way.
LEMMA ReportedIsPast ==
    ASSUME IInv, status = "attempts"
    PROVE  /\ attempt \in Attempts
           /\ Len(attempt_reports) \in Nat
           /\ \A i \in 1 .. Len(attempt_reports) : i \in Attempts /\ i < attempt
           /\ \A k \in 1 .. Len(output_paths) :
                output_paths[k] \in Attempts /\ output_paths[k] < attempt
<1>1. /\ NAttemptsMax \in Nat /\ attempt \in 0 .. NAttemptsMax
      /\ attempt_reports \in Seq(AttemptOutcomes)
      /\ attempt = Len(attempt_reports) + 1
  BY PlansAreConfigured DEF IInv, TypeOK, ReportsKeepUp
<1>2. Len(attempt_reports) \in Nat
  BY <1>1
<1>3. \A k \in 1 .. Len(output_paths) : output_paths[k] \in 1 .. Len(attempt_reports)
  BY DEF IInv, PathsAreReported
<1> QED
  BY <1>1, <1>2, <1>3 DEF Attempts

LEMMA WritingKeepsReports ==
    ASSUME IInv, status = "attempts",
           UNCHANGED <<fixed, status, attempt, merged, results>>,
           NEW file \in Files, file # Absent,
           xml' = [xml EXCEPT ![attempt] = file]
    PROVE  /\ xml' \in [Attempts -> Files]
           /\ xml'[attempt] = file
           /\ \A i \in Attempts : i # attempt => xml'[i] = xml[i]
           /\ ReportsKeepUp' /\ SuccessIsLast' /\ PathsAreReported'
<1>1. /\ xml' \in [Attempts -> Files]
      /\ xml'[attempt] = file
      /\ \A i \in Attempts : i # attempt => xml'[i] = xml[i]
  BY ReportedIsPast DEF IInv, TypeOK
<1>2. ReportsKeepUp'
  BY DEF IInv, ReportsKeepUp, results
<1>3. \A i \in 1 .. Len(attempt_reports) : i \in Attempts /\ i # attempt
  BY ReportedIsPast, attempt \in Nat DEF Attempts
<1>4. SuccessIsLast'
  BY <1>1, <1>3 DEF IInv, SuccessIsLast, results, Failed
<1>5. PathsAreReported'
  <2>1. \A k \in 1 .. Len(output_paths) :
            output_paths[k] \in Attempts /\ output_paths[k] # attempt
    BY ReportedIsPast DEF Attempts
  <2> QED
    BY <1>1, <2>1 DEF IInv, PathsAreReported, results
<1> QED
  BY <1>1, <1>2, <1>4, <1>5

LEMMA RobotOpensHolds == ASSUME IInv, RobotOpensOutput PROVE IInv'
<1> USE DEF RobotOpensOutput
<1>1. Torn \in Files /\ Torn # Absent /\ Torn \notin Verdicts
  BY MarksAreNoFiles DEF Files
<1>2. /\ xml' \in [Attempts -> Files]
      /\ xml'[attempt] = Torn
      /\ \A i \in Attempts : i # attempt => xml'[i] = xml[i]
      /\ ReportsKeepUp' /\ SuccessIsLast' /\ PathsAreReported'
  BY <1>1, WritingKeepsReports
<1>3. TypeOK'
  BY <1>2 DEF IInv, TypeOK, fixed, results
<1>4. OutputFollowsChild'
  BY <1>2, ReportedIsPast DEF IInv, OutputFollowsChild, Attempts
<1>10. WritesForSome'
  <2>1. xml'[attempt - 1] = xml[attempt - 1]
    BY ReportedIsPast DEF IInv, TypeOK, Attempts
  <2>2. Selected(attempt)' = Selected(attempt)
    BY <2>1 DEF Selected, Reruns, RerunBase, Failed, fixed
  <2> QED
    BY <2>2 DEF WritesForSome
<1>5. xml[attempt] \notin Verdicts
  BY MarksAreNoFiles DEF IInv, OutputFollowsChild
<1>6. \A i \in Attempts : xml'[i] \in Verdicts <=> xml[i] \in Verdicts
  BY <1>1, <1>2, <1>5
<1>7. \A i \in Attempts : xml[i] \in Verdicts => xml'[i] = xml[i]
  BY <1>2, <1>5
<1>8. MissingHasPassed' /\ PassedTestsRest'
  BY <1>6, <1>7 DEF IInv, MissingHasPassed, PassedTestsRest, fixed
<1>9. MergedFits'
  BY MarksAreNoFiles DEF IInv, MergedFits, results
<1> QED
  BY <1>2, <1>3, <1>4, <1>8, <1>9, <1>10 DEF IInv

\* What the output of an attempt can say of the tests.
LEMMA ClosedOutput ==
    ASSUME IInv, RobotClosesOutput
    PROVE  \E file \in Verdicts :
             /\ xml' = [xml EXCEPT ![attempt] = file]
             /\ \A t \in Tests : file[t] # "none" <=> t \in Selected(attempt)
<1>1. PICK passed \in SUBSET Selected(attempt) :
        xml' = [xml EXCEPT ![attempt] =
                  [t \in Tests |-> IF t \in passed THEN "pass"
                                   ELSE IF t \in Selected(attempt) THEN "fail"
                                   ELSE "none"]]
  BY DEF RobotClosesOutput
<1> DEFINE file == [t \in Tests |-> IF t \in passed THEN "pass"
                                    ELSE IF t \in Selected(attempt) THEN "fail"
                                    ELSE "none"]
<1>2. file \in Verdicts
  BY DEF Verdicts
<1>3. \A t \in Tests : file[t] # "none" <=> t \in Selected(attempt)
  OBVIOUS
<1> QED
  BY <1>1, <1>2, <1>3

\* A retry takes its tests from a whole output of the attempt before.
LEMMA RetriesFailed ==
    ASSUME IInv, NEW i \in Attempts, Reruns(i)
    PROVE  \A t \in Tests :
             t \in Selected(i) <=> xml[i - 1] \in Verdicts /\ xml[i - 1][t] = "fail"
BY DEF Reruns, Selected, RerunBase, Failed

LEMMA RobotClosesHolds == ASSUME IInv, RobotClosesOutput PROVE IInv'
<1> USE DEF RobotClosesOutput
<1>1. PICK file \in Verdicts :
        /\ xml' = [xml EXCEPT ![attempt] = file]
        /\ \A t \in Tests : file[t] # "none" <=> t \in Selected(attempt)
  BY ClosedOutput
<1>2. file \in Files /\ file # Absent
  BY MarksAreNoFiles DEF Files
<1>3. /\ xml' \in [Attempts -> Files]
      /\ xml'[attempt] = file
      /\ \A i \in Attempts : i # attempt => xml'[i] = xml[i]
      /\ ReportsKeepUp' /\ SuccessIsLast' /\ PathsAreReported'
  BY <1>1, <1>2, WritingKeepsReports
<1>4. TypeOK'
  BY <1>3 DEF IInv, TypeOK, fixed, results
<1>5. attempt \in Attempts /\ attempt \in Nat /\ Attempts \subseteq Nat
  BY ReportedIsPast DEF Attempts
<1>6. OutputFollowsChild' /\ WritesForSome'
  BY <1>3, <1>5 DEF IInv, OutputFollowsChild, WritesForSome
\* The attempt under way is the last one with an output, whole only now.
<1>7. \A i \in Attempts : xml[i] \in Verdicts => i < attempt
  <2>1. \A i \in Attempts : attempt < i => xml[i] \notin Verdicts
    BY MarksAreNoFiles DEF IInv, OutputFollowsChild
  <2>2. xml[attempt] \notin Verdicts
    BY MarksAreNoFiles DEF IInv, OutputFollowsChild
  <2> QED
    BY <1>5, <2>1, <2>2
<1>8. \A i \in Attempts :
          /\ xml[i] \in Verdicts => xml'[i] = xml[i]
          /\ xml'[i] \in Verdicts => i = attempt \/ xml[i] \in Verdicts
  BY <1>3, <1>5, <1>7
<1>9. strategy' = strategy
  BY DEF fixed
<1>10. MissingHasPassed'
  <2> SUFFICES ASSUME NEW i \in Attempts, NEW t \in Tests,
                      xml'[i] \in Verdicts, xml'[i][t] = "none"
               PROVE  /\ strategy = "Incremental"
                      /\ \E j \in Attempts :
                           j < i /\ xml'[j] \in Verdicts /\ xml'[j][t] = "pass"
    BY <1>9 DEF MissingHasPassed
  <2>1. CASE i # attempt
    <3>1. xml[i] \in Verdicts /\ xml[i][t] = "none"
      BY <1>3, <2>1
    <3>2. /\ strategy = "Incremental"
          /\ \E j \in Attempts :
               j < i /\ xml[j] \in Verdicts /\ xml[j][t] = "pass"
      BY <3>1 DEF IInv, MissingHasPassed
    <3> QED
      BY <1>8, <3>2
  <2>2. CASE i = attempt
    <3>1. t \notin Selected(attempt)
      BY <1>1, <1>3, <2>2
    <3>2. Reruns(attempt)
      BY <3>1 DEF Selected
    <3>3. strategy = "Incremental" /\ attempt > 1 /\ attempt - 1 \in Attempts
      BY <1>5, <3>2, PlansAreConfigured DEF Reruns, Attempts
    <3>4. xml[attempt - 1] \in Verdicts /\ xml[attempt - 1][t] # "fail"
      <4>1. PICK u \in Tests : u \in Selected(attempt)
        BY DEF IInv, WritesForSome, Selected, Failed
      <4> QED
        BY <1>5, <3>1, <3>2, <4>1, RetriesFailed
    <3>5. xml[attempt - 1][t] \in {"pass", "none"}
      BY <3>4 DEF Verdicts
    <3>6. CASE xml[attempt - 1][t] = "pass"
      BY <1>5, <1>8, <3>3, <3>4, <3>6, <2>2
    <3>7. CASE xml[attempt - 1][t] = "none"
      <4>1. PICK j \in Attempts :
                j < attempt - 1 /\ xml[j] \in Verdicts /\ xml[j][t] = "pass"
        BY <3>3, <3>4, <3>7 DEF IInv, MissingHasPassed
      <4> QED
        BY <1>5, <1>8, <2>2, <3>3, <4>1
    <3> QED
      BY <3>5, <3>6, <3>7
  <2> QED
    BY <2>1, <2>2
<1>11. PassedTestsRest'
  <2> SUFFICES ASSUME strategy = "Incremental",
                      NEW i \in Attempts, NEW j \in Attempts, NEW t \in Tests,
                      i < j, xml'[i] \in Verdicts, xml'[i][t] = "pass",
                      xml'[j] \in Verdicts
               PROVE  xml'[j][t] = "none"
    BY <1>9 DEF PassedTestsRest
  <2>1. i # attempt
    BY <1>5, <1>7, <1>8
  <2>2. xml[i] \in Verdicts /\ xml[i][t] = "pass"
    BY <1>3, <2>1
  <2>3. CASE j # attempt
    <3>1. xml[j] \in Verdicts /\ xml'[j] = xml[j]
      BY <1>3, <2>3
    <3> QED
      BY <2>2, <3>1 DEF IInv, PassedTestsRest
  <2>4. CASE j = attempt
    <3>1. Reruns(attempt)
      BY <1>5, <2>4 DEF Reruns, Attempts
    <3>2. attempt - 1 \in Attempts /\ (i < attempt - 1 \/ i = attempt - 1)
      BY <1>5, <2>4, PlansAreConfigured DEF Attempts
    <3>3. ~(xml[attempt - 1] \in Verdicts /\ xml[attempt - 1][t] = "fail")
      BY <2>2, <3>2 DEF IInv, PassedTestsRest
    <3>4. t \notin Selected(attempt)
      BY <1>5, <3>1, <3>3, RetriesFailed
    <3> QED
      BY <1>1, <1>3, <2>4, <3>4
  <2> QED
    BY <2>3, <2>4
<1>12. MergedFits'
  BY MarksAreNoFiles DEF IInv, MergedFits, results
<1> QED
  BY <1>3, <1>4, <1>6, <1>10, <1>11, <1>12 DEF IInv

-----------------------------------------------------------------------------
(* The ends of an attempt.                                                 *)

\* The next attempt, or none.
LEMMA AttemptGoesOn ==
    ASSUME IInv, NEW outcome \in AttemptOutcomes, AttemptEnds(outcome)
    PROVE  /\ attempt_reports' = Append(attempt_reports, outcome)
           /\ Len(attempt_reports') = attempt
           /\ attempt_reports' \in Seq(AttemptOutcomes)
           /\ output_paths' = IF outcome \in Counted
                              THEN Append(output_paths, attempt) ELSE output_paths
           /\ output_paths' \in Seq(Attempts)
           /\ UNCHANGED <<fixed, cancelled, xml, merged, rebot>>
           /\ \/ /\ outcome # "AllTestsPassed" /\ attempt # NAttemptsMax
                 /\ attempt' = attempt + 1 /\ child' = "started"
                 /\ status' = "attempts"
              \/ /\ outcome = "AllTestsPassed" \/ attempt = NAttemptsMax
                 /\ attempt' = attempt
                 /\ \/ status' = "report" /\ child' = "none"
                    \/ /\ status' = "rebot" /\ child' = "started"
                       /\ output_paths' # <<>>
<1>1. /\ attempt \in Attempts /\ attempt = Len(attempt_reports) + 1
      /\ attempt_reports \in Seq(AttemptOutcomes) /\ output_paths \in Seq(Attempts)
      /\ status = "attempts"
  BY ReportedIsPast DEF IInv, TypeOK, ReportsKeepUp, AttemptEnds
<1>2. /\ attempt_reports' = Append(attempt_reports, outcome)
      /\ output_paths' = IF outcome \in Counted
                         THEN Append(output_paths, attempt) ELSE output_paths
      /\ UNCHANGED <<fixed, cancelled, xml, merged, rebot>>
      /\ NextAttempt(outcome, output_paths')
  BY DEF AttemptEnds, Reported
<1>3. /\ Len(attempt_reports') = attempt
      /\ attempt_reports' \in Seq(AttemptOutcomes)
      /\ output_paths' \in Seq(Attempts)
  BY <1>1, <1>2
<1> QED
  BY <1>1, <1>2, <1>3 DEF NextAttempt

LEMMA AttemptEndsHolds ==
    ASSUME IInv, NEW outcome \in AttemptOutcomes, AttemptEnds(outcome)
    PROVE  IInv'
<1> DEFINE n == Len(attempt_reports)
           m == Len(output_paths)
<1>1. /\ attempt \in Attempts /\ attempt \in Nat /\ NAttemptsMax \in Nat
      /\ n \in Nat /\ attempt = n + 1 /\ m \in Nat
      /\ status = "attempts"
      /\ attempt_reports \in Seq(AttemptOutcomes) /\ output_paths \in Seq(Attempts)
  BY ReportedIsPast, PlansAreConfigured
     DEF IInv, TypeOK, ReportsKeepUp, AttemptEnds, Attempts
<1>2. /\ Len(attempt_reports') = attempt
      /\ attempt_reports'[attempt] = outcome
      /\ \A i \in 1 .. n : attempt_reports'[i] = attempt_reports[i]
  BY <1>1, AttemptGoesOn
<1>3. TypeOK'
  BY <1>1, AttemptGoesOn DEF IInv, TypeOK, fixed, Attempts
<1>4. ReportsKeepUp'
  BY <1>1, <1>2, AttemptGoesOn DEF ReportsKeepUp
<1>5. UNCHANGED <<fixed, xml, merged, rebot, strategy>>
  BY AttemptGoesOn DEF fixed
\* No earlier attempt passed.
<1>6. \A i \in 1 .. n : attempt_reports[i] # "AllTestsPassed"
  BY <1>1 DEF IInv, SuccessIsLast
<1>7. SuccessIsLast'
  <2> SUFFICES ASSUME NEW i \in 1 .. attempt,
                      attempt_reports'[i] = "AllTestsPassed"
               PROVE  /\ i = attempt /\ status' # "attempts"
                      /\ xml[i] \in Verdicts /\ Failed(xml[i]) = {}
                      /\ output_paths' # <<>>
                      /\ output_paths'[Len(output_paths')] = i
    BY <1>2, <1>5 DEF SuccessIsLast, Failed
  <2>1. i = attempt /\ outcome = "AllTestsPassed"
    BY <1>1, <1>2, <1>6
  <2>2. xml[attempt] \in Verdicts /\ Failed(xml[attempt]) = {}
    BY <2>1, <1>1 DEF AttemptEnds, IInv, OutputFollowsChild
  <2>3. output_paths' = Append(output_paths, attempt)
    BY <2>1, AttemptGoesOn DEF Counted
  <2>4. output_paths' # <<>> /\ output_paths'[Len(output_paths')] = attempt
    BY <1>1, <2>3
  <2>5. status' # "attempts"
    BY <2>1, AttemptGoesOn
  <2> QED
    BY <2>1, <2>2, <2>4, <2>5
<1>8. PathsAreReported'
  <2>1. \A k \in 1 .. m :
          /\ output_paths[k] \in 1 .. n
          /\ xml[output_paths[k]] # Absent
          /\ attempt_reports[output_paths[k]] \in Counted
          /\ \A l \in 1 .. m : l < k => output_paths[l] < output_paths[k]
    BY DEF IInv, PathsAreReported
  <2>2. \A i \in 1 .. n : i \in 1 .. attempt
    BY <1>1
  <2>3. CASE outcome \in Counted
    <3>1. output_paths' = Append(output_paths, attempt)
      BY <2>3, AttemptGoesOn
    <3>2. /\ Len(output_paths') = m + 1
          /\ output_paths'[m + 1] = attempt
          /\ \A k \in 1 .. m : output_paths'[k] = output_paths[k]
      BY <1>1, <3>1
    <3>3. xml[attempt] # Absent
      BY <2>3 DEF AttemptEnds
    <3>4. \A k \in 1 .. m + 1 :
            /\ output_paths'[k] \in 1 .. attempt
            /\ xml[output_paths'[k]] # Absent
            /\ attempt_reports'[output_paths'[k]] \in Counted
      <4> SUFFICES ASSUME NEW k \in 1 .. m + 1
                   PROVE  /\ output_paths'[k] \in 1 .. attempt
                          /\ xml[output_paths'[k]] # Absent
                          /\ attempt_reports'[output_paths'[k]] \in Counted
        OBVIOUS
      <4>1. CASE k = m + 1
        BY <1>1, <1>2, <2>3, <3>2, <3>3, <4>1
      <4>2. CASE k \in 1 .. m
        BY <1>2, <2>1, <2>2, <3>2, <4>2
      <4> QED
        BY <1>1, <4>1, <4>2
    <3>5. \A k, l \in 1 .. m + 1 : l < k => output_paths'[l] < output_paths'[k]
      <4> SUFFICES ASSUME NEW k \in 1 .. m + 1, NEW l \in 1 .. m + 1, l < k
                   PROVE  output_paths'[l] < output_paths'[k]
        OBVIOUS
      <4>1. l \in 1 .. m
        BY <1>1
      <4>2. output_paths[l] \in 1 .. n
        BY <2>1, <4>1
      <4>3. CASE k = m + 1
        BY <1>1, <3>2, <4>1, <4>2, <4>3
      <4>4. CASE k \in 1 .. m
        BY <2>1, <3>2, <4>1, <4>4
      <4> QED
        BY <1>1, <4>3, <4>4
    <3> QED
      BY <1>2, <1>5, <3>2, <3>4, <3>5 DEF PathsAreReported
  <2>4. CASE outcome \notin Counted
    <3>1. output_paths' = output_paths
      BY <2>4, AttemptGoesOn
    <3> QED
      BY <1>2, <1>5, <2>1, <2>2, <3>1 DEF PathsAreReported
  <2> QED
    BY <2>3, <2>4
<1>9. OutputFollowsChild' /\ WritesForSome'
  <2>1. \A i \in Attempts : attempt < i => xml[i] = Absent
    BY DEF IInv, OutputFollowsChild
  <2>2. CASE attempt' = attempt + 1 /\ child' = "started" /\ attempt # NAttemptsMax
    <3>1. attempt + 1 \in Attempts
      BY <1>1, <2>2 DEF Attempts
    <3> QED
      BY <1>1, <1>5, <2>1, <2>2, <3>1
         DEF OutputFollowsChild, WritesForSome, Attempts
  <2>3. CASE attempt' = attempt /\ status' # "attempts"
    BY <1>5, <2>1, <2>3 DEF OutputFollowsChild, WritesForSome
  <2> QED
    BY <2>2, <2>3, AttemptGoesOn
<1>10. MissingHasPassed' /\ PassedTestsRest'
  BY <1>5 DEF IInv, MissingHasPassed, PassedTestsRest
<1>11. MergedFits'
  <2>1. merged = Absent /\ rebot \notin Verdicts
    BY <1>1 DEF IInv, MergedFits
  <2> QED
    BY <1>5, <2>1, AttemptGoesOn, MarksAreNoFiles DEF MergedFits
<1> QED
  BY <1>3, <1>4, <1>7, <1>8, <1>9, <1>10, <1>11 DEF IInv

-----------------------------------------------------------------------------
(* The steps of rebot.                                                     *)

LEMMA RebotOpensHolds == ASSUME IInv, RebotOpensOutput PROVE IInv'
<1> USE DEF RebotOpensOutput
<1>1. UNCHANGED <<strategy, attempt, status, xml, attempt_reports, output_paths,
                  rebot>>
  BY DEF fixed, results
<1>2. TypeOK'
  BY DEF IInv, TypeOK, fixed, results, Files
<1>3. /\ ReportsKeepUp' /\ SuccessIsLast' /\ PathsAreReported'
      /\ OutputFollowsChild' /\ WritesForSome'
  BY <1>1 DEF IInv, ReportsKeepUp, SuccessIsLast, PathsAreReported,
              OutputFollowsChild, WritesForSome, Failed
<1>4. MissingHasPassed' /\ PassedTestsRest'
  BY SameFiles DEF results
<1>5. MergedFits'
  BY <1>1, MarksAreNoFiles DEF IInv, MergedFits
<1> QED
  BY <1>2, <1>3, <1>4, <1>5 DEF IInv

LEMMA RebotClosesHolds == ASSUME IInv, RebotClosesOutput PROVE IInv'
<1> USE DEF RebotClosesOutput
<1>1. UNCHANGED <<strategy, attempt, status, xml, attempt_reports, output_paths,
                  rebot>>
  BY DEF fixed, results
<1>2. \A k \in 1 .. Len(output_paths) : xml[output_paths[k]] \in Verdicts
  BY MarksAreNoFiles DEF IInv, MergedFits
<1>3. merged' \in Verdicts
  BY <1>2, MergeIsVerdicts DEF IInv, TypeOK
<1>4. TypeOK'
  BY <1>3 DEF IInv, TypeOK, fixed, results, Files
<1>5. /\ ReportsKeepUp' /\ SuccessIsLast' /\ PathsAreReported'
      /\ OutputFollowsChild' /\ WritesForSome'
  BY <1>1 DEF IInv, ReportsKeepUp, SuccessIsLast, PathsAreReported,
              OutputFollowsChild, WritesForSome, Failed
<1>6. /\ MissingHasPassed' /\ PassedTestsRest'
      /\ Merge(output_paths)' = Merge(output_paths)
  BY SameFiles DEF results
<1>7. merged' = Merge(output_paths)'
  BY <1>6
<1>8. MergedFits'
  BY <1>1, <1>2, <1>7, MarksAreNoFiles DEF IInv, MergedFits
<1> QED
  BY <1>4, <1>5, <1>6, <1>8 DEF IInv

LEMMA RebotEndsHolds ==
    ASSUME IInv, RebotExits \/ RebotTimesOut
    PROVE  IInv'
<1>1. Rebot(merged) \/ Rebot(Error)
  BY DEF RebotExits, RebotTimesOut
<1>2. /\ status = "rebot" /\ status' = "report" /\ child' = "none"
      /\ UNCHANGED <<fixed, strategy, attempt, xml, merged, attempt_reports,
                     output_paths>>
  BY <1>1 DEF Rebot, fixed
<1>3. rebot' = merged \/ rebot' = Error
  BY <1>1 DEF Rebot
<1>4. TypeOK'
  BY <1>1 DEF IInv, TypeOK, fixed, Rebot
<1>5. /\ ReportsKeepUp' /\ SuccessIsLast' /\ PathsAreReported'
      /\ OutputFollowsChild' /\ WritesForSome'
  BY <1>2 DEF IInv, ReportsKeepUp, SuccessIsLast, PathsAreReported,
              OutputFollowsChild, WritesForSome, Failed
<1>6. /\ MissingHasPassed' /\ PassedTestsRest'
      /\ Merge(output_paths)' = Merge(output_paths)
  BY <1>2, SameFiles
<1>7. Error \notin Verdicts
  BY MarksAreNoFiles
<1>8. MergedFits'
  BY <1>2, <1>3, <1>6, <1>7 DEF IInv, MergedFits
<1> QED
  BY <1>4, <1>5, <1>6, <1>8 DEF IInv

LEMMA Invariance == IInv /\ [Next]_vars => IInv'
<1> SUFFICES ASSUME IInv, [Next]_vars PROVE IInv'
  OBVIOUS
<1>1. CASE Cancel \/ SeesCancel \/ UNCHANGED vars
  BY <1>1, QuietHolds
<1>2. CASE RobotOpensOutput
  BY <1>2, RobotOpensHolds
<1>3. CASE RobotClosesOutput
  BY <1>3, RobotClosesHolds
<1>4. CASE RebotOpensOutput
  BY <1>4, RebotOpensHolds
<1>5. CASE RebotClosesOutput
  BY <1>5, RebotClosesHolds
<1>6. CASE RobotExits \/ RobotTimesOut \/ RobotRunFails
  BY <1>6, AttemptsEnd, AttemptEndsHolds
<1>7. CASE RebotExits \/ RebotTimesOut
  BY <1>7, RebotEndsHolds
<1> QED
  BY <1>1, <1>2, <1>3, <1>4, <1>5, <1>6, <1>7
     DEF Next, CommandRuns, CommandEnds, Terminated

LEMMA AlwaysIInv == Spec => []IInv
<1>1. IInv /\ UNCHANGED vars => IInv'
  BY Invariance
<1> QED
  BY InitHolds, Invariance, PTL DEF Spec

\* The output of every attempt that counts is given to rebot.
CountsAreMerged ==
    \A i \in 1 .. Len(attempt_reports) :
        attempt_reports[i] \in Counted =>
            \E k \in 1 .. Len(output_paths) : output_paths[k] = i

LEMMA CountsHold ==
    ASSUME IInv, CountsAreMerged, [Next]_vars
    PROVE  CountsAreMerged'
<1>1. CASE UNCHANGED <<attempt_reports, output_paths>>
  BY <1>1 DEF CountsAreMerged
<1>2. CASE \E outcome \in AttemptOutcomes : AttemptEnds(outcome)
  <2>1. PICK outcome \in AttemptOutcomes : AttemptEnds(outcome)
    BY <1>2
  <2> DEFINE n == Len(attempt_reports)
  <2>2. /\ n \in Nat /\ attempt_reports \in Seq(AttemptOutcomes)
        /\ output_paths \in Seq(Attempts) /\ attempt \in Attempts
        /\ attempt = n + 1
        /\ attempt_reports' = Append(attempt_reports, outcome)
        /\ output_paths' = IF outcome \in Counted
                           THEN Append(output_paths, attempt) ELSE output_paths
    BY <2>1, AttemptGoesOn, ReportedIsPast DEF IInv, TypeOK, ReportsKeepUp, AttemptEnds
  <2>3. /\ Len(attempt_reports') = n + 1
        /\ attempt_reports'[n + 1] = outcome
        /\ \A i \in 1 .. n : attempt_reports'[i] = attempt_reports[i]
    BY <2>2
  <2>4. \A i \in 1 .. Len(attempt_reports') : i \in 1 .. n \/ i = n + 1
    BY <2>2, <2>3
  <2>5. \A k \in 1 .. Len(output_paths) :
            /\ k \in 1 .. Len(output_paths')
            /\ output_paths'[k] = output_paths[k]
    BY <2>2
  <2>6. \A i \in 1 .. n : attempt_reports'[i] \in Counted =>
            \E k \in 1 .. Len(output_paths') : output_paths'[k] = i
    BY <2>3, <2>5 DEF CountsAreMerged
  <2>7. outcome \in Counted =>
            \E k \in 1 .. Len(output_paths') : output_paths'[k] = n + 1
    <3> SUFFICES ASSUME outcome \in Counted
                 PROVE  \E k \in 1 .. Len(output_paths') : output_paths'[k] = n + 1
      OBVIOUS
    <3>1. /\ Len(output_paths) + 1 \in 1 .. Len(output_paths')
          /\ output_paths'[Len(output_paths) + 1] = n + 1
      BY <2>2
    <3> QED
      BY <3>1
  <2> QED
    BY <2>3, <2>4, <2>6, <2>7 DEF CountsAreMerged
<1> QED
  BY <1>1, <1>2, AttemptsEnd
     DEF Next, CommandRuns, CommandEnds, Cancel, RobotOpensOutput,
         RobotClosesOutput, RebotOpensOutput, RebotClosesOutput, RebotExits,
         RebotTimesOut, Rebot, SeesCancel, Terminated, vars, results

LEMMA AlwaysCounted == Spec => []CountsAreMerged
<1>1. Init => CountsAreMerged
  BY DEF Init, CountsAreMerged
<1>2. IInv /\ CountsAreMerged /\ [Next]_vars => CountsAreMerged'
  BY CountsHold
<1> QED
  BY <1>1, <1>2, AlwaysIInv, PTL DEF Spec

-----------------------------------------------------------------------------
(* The theorems.                                                           *)

\* Every variable keeps its type; above all, only attempts that exist are
\* given to rebot, and what it merges is an output again.
THEOREM Typing == Spec => []TypeOK
<1>1. IInv => TypeOK
  BY DEF IInv
<1> QED
  BY <1>1, AlwaysIInv, PTL

\* The loop of run_attempts_with_rebot stops at the first success, and without
\* one it has used up every attempt.
THEOREM CompleteReports == Spec => []ReportIsComplete
<1>1. IInv => ReportIsComplete
  <2> SUFFICES ASSUME IInv PROVE ReportIsComplete
    OBVIOUS
  <2>1. Len(attempt_reports) \in Nat
    BY DEF IInv, TypeOK
  <2>2. \A i \in 1 .. Len(attempt_reports) - 1 :
            attempt_reports[i] # "AllTestsPassed"
    BY <2>1 DEF IInv, SuccessIsLast
  <2>3. status \in {"rebot", "report"} =>
            \/ Len(attempt_reports) = NAttemptsMax
            \/ attempt_reports[Len(attempt_reports)] = "AllTestsPassed"
    BY DEF IInv, ReportsKeepUp
  <2> QED
    BY <2>2, <2>3 DEF ReportIsComplete
<1> QED
  BY <1>1, AlwaysIInv, PTL

\* rebot is given outputs that exist, of attempts that were reported as having
\* run their tests, in the order of the attempts.
THEOREM ReportedOutputs == Spec => []OutputsAreReported
<1>1. IInv => OutputsAreReported
  <2> SUFFICES ASSUME IInv, NEW k \in 1 .. Len(output_paths)
               PROVE  /\ xml[output_paths[k]] # Absent
                      /\ attempt_reports[output_paths[k]] \in Counted
                      /\ \A l \in 1 .. k - 1 : output_paths[l] < output_paths[k]
    BY DEF OutputsAreReported, Counted
  <2>1. Len(output_paths) \in Nat
    BY DEF IInv, TypeOK
  <2>2. \A l \in 1 .. k - 1 : l \in 1 .. Len(output_paths) /\ l < k
    BY <2>1
  <2> QED
    BY <2>2 DEF IInv, PathsAreReported
<1> QED
  BY <1>1, AlwaysIInv, PTL

\* An incremental retry leaves alone what has passed in any earlier attempt.
THEOREM RestOfPassedTests == Spec => []PassedTestsRest
<1>1. IInv => PassedTestsRest
  BY DEF IInv
<1> QED
  BY <1>1, AlwaysIInv, PTL

\* The merged output of a run whose last attempt passed shows a pass for every
\* test: for one that the last attempt does not show, the last output given to
\* rebot that shows it is the one it passed in.  Only a test that passed in an
\* attempt whose report says that it does not count may be missing.
THEOREM AgreeingVerdicts == Spec => []VerdictsAgree
<1>1. IInv /\ CountsAreMerged => VerdictsAgree
  <2> SUFFICES ASSUME IInv, CountsAreMerged, rebot \in Verdicts,
                      attempt_reports[Len(attempt_reports)] = "AllTestsPassed",
                      NEW t \in Tests, ~RestedUncounted(t)
               PROVE  rebot[t] = "pass"
    BY DEF VerdictsAgree
  <2> DEFINE n == Len(attempt_reports)
             m == Len(output_paths)
  <2>1. /\ xml \in [Attempts -> Files] /\ output_paths \in Seq(Attempts)
        /\ attempt_reports \in Seq(AttemptOutcomes)
        /\ n \in Nat /\ m \in Nat /\ NAttemptsMax \in Nat
        /\ attempt \in 0 .. NAttemptsMax
    BY PlansAreConfigured DEF IInv, TypeOK
  <2>2. /\ rebot = Merge(output_paths) /\ status = "report" /\ merged # Absent
        /\ \A k \in 1 .. m : xml[output_paths[k]] \in Verdicts
    BY MarksAreNoFiles DEF IInv, MergedFits
  <2>3. \A k \in 1 .. m : output_paths[k] \in 1 .. n /\ output_paths[k] \in Attempts
    BY <2>1 DEF IInv, PathsAreReported
  <2>4. m >= 1 /\ n >= 1
    <3>1. output_paths # <<>>
      BY <2>2 DEF IInv, MergedFits
    <3>2. m >= 1
      BY <2>1, <3>1
    <3> QED
      BY <2>1, <2>3, <3>2
  <2>5. /\ n \in Attempts /\ output_paths[m] = n
        /\ xml[n] \in Verdicts /\ Failed(xml[n]) = {}
    <3>1. attempt_reports[n] = "AllTestsPassed" /\ n \in 1 .. n
      BY <2>1, <2>4
    <3>2. /\ xml[n] \in Verdicts /\ Failed(xml[n]) = {}
          /\ output_paths[m] = n
      BY <3>1 DEF IInv, SuccessIsLast
    <3>3. m \in 1 .. m
      BY <2>1, <2>4
    <3> QED
      BY <2>3, <3>2, <3>3
  <2>6. xml[n][t] \in {"pass", "none"}
    BY <2>5 DEF Failed, Verdicts
  <2>7. PICK k \in 1 .. m :
            /\ xml[output_paths[k]][t] = "pass"
            /\ \A l \in 1 .. m : k < l => xml[output_paths[l]][t] = "none"
    <3>1. CASE xml[n][t] = "pass"
      <4>1. m \in 1 .. m /\ \A l \in 1 .. m : ~(m < l)
        BY <2>1, <2>4
      <4> QED
        BY <2>5, <3>1, <4>1
    <3>2. CASE xml[n][t] = "none"
      <4>1. /\ strategy = "Incremental"
            /\ \E j \in Attempts : j < n /\ xml[j] \in Verdicts /\ xml[j][t] = "pass"
        BY <2>5, <3>2 DEF IInv, MissingHasPassed
      <4>2. PICK j \in Attempts : j < n /\ xml[j] \in Verdicts /\ xml[j][t] = "pass"
        BY <4>1
      <4>3. j \in 1 .. n
        BY <2>1, <4>2 DEF Attempts
      <4>4. PICK k \in 1 .. m : output_paths[k] = j
        BY <4>1, <4>2, <4>3 DEF CountsAreMerged, Counted, RestedUncounted
      <4>5. \A l \in 1 .. m : k < l => xml[output_paths[l]][t] = "none"
        <5> SUFFICES ASSUME NEW l \in 1 .. m, k < l
                     PROVE  xml[output_paths[l]][t] = "none"
          OBVIOUS
        <5>1. j < output_paths[l]
          BY <4>4 DEF IInv, PathsAreReported
        <5> QED
          BY <2>2, <2>3, <4>1, <4>2, <5>1 DEF IInv, PassedTestsRest
      <4> QED
        BY <4>2, <4>4, <4>5
    <3> QED
      BY <2>6, <3>1, <3>2
  <2>8. PICK last \in 1 .. m :
            /\ Merge(output_paths)[t] = xml[output_paths[last]][t]
            /\ xml[output_paths[last]][t] # "none"
            /\ \A l \in 1 .. m : xml[output_paths[l]][t] # "none" => l <= last
    <3>1. xml[output_paths[k]][t] # "none"
      BY <2>7
    <3> QED
      BY <2>1, <2>2, <3>1, MergeOfTest
  <2>9. k <= last /\ ~(k < last)
    BY <2>7, <2>8
  <2>10. k = last
    BY <2>1, <2>9
  <2> QED
    BY <2>2, <2>7, <2>8, <2>10
<1> QED
  BY <1>1, AlwaysIInv, AlwaysCounted, PTL

-----------------------------------------------------------------------------
(* The report that is promised.                                            *)

\* The story of the attempts is complete when they are over, not before.
LEMMA StoryFits ==
    ASSUME IInv
    PROVE  /\ status = "attempts" => ~Promised!Complete(attempt_reports)
           /\ status = "rebot" =>
                /\ Promised!Complete(attempt_reports)
                /\ Promised!ToMerge(attempt_reports)
<1>1. /\ NAttemptsMax \in Nat /\ attempt \in 0 .. NAttemptsMax
      /\ attempt_reports \in Seq(AttemptOutcomes) /\ output_paths \in Seq(Attempts)
      /\ Len(attempt_reports) \in Nat
  BY PlansAreConfigured DEF IInv, TypeOK
<1>2. ASSUME status = "attempts" PROVE ~Promised!Complete(attempt_reports)
  <2>1. Len(attempt_reports) < NAttemptsMax
    BY <1>1, <1>2 DEF IInv, ReportsKeepUp
  <2>2. attempt_reports # <<>> => Len(attempt_reports) \in 1 .. Len(attempt_reports)
    BY <1>1
  <2>3. attempt_reports # <<>> =>
            attempt_reports[Len(attempt_reports)] # "AllTestsPassed"
    BY <1>2, <2>2 DEF IInv, SuccessIsLast
  <2> QED
    BY <1>1, <2>1, <2>3 DEF Promised!Complete
<1>3. ASSUME status = "rebot"
      PROVE  /\ Promised!Complete(attempt_reports)
             /\ Promised!ToMerge(attempt_reports)
  <2>1. 1 \in 1 .. Len(output_paths)
    BY <1>1, <1>3 DEF IInv, MergedFits
  <2>2. /\ output_paths[1] \in 1 .. Len(attempt_reports)
        /\ attempt_reports[output_paths[1]] \in Counted
    BY <2>1 DEF IInv, PathsAreReported
  <2>3. Promised!ToMerge(attempt_reports)
    BY <2>2 DEF Promised!ToMerge, Counted
  <2>4. attempt_reports # <<>>
    BY <1>1, <2>2
  <2>5. Promised!Complete(attempt_reports)
    BY <1>1, <1>3, <2>4 DEF Promised!Complete, IInv, ReportsKeepUp
  <2> QED
    BY <2>3, <2>5
<1> QED
  BY <1>2, <1>3

LEMMA AttemptIsTried ==
    ASSUME IInv, IInv', CountsAreMerged',
           NEW outcome \in AttemptOutcomes, AttemptEnds(outcome)
    PROVE  Promised!Try(outcome)
<1>1. /\ NAttemptsMax \in Nat /\ attempt \in Attempts
      /\ attempt_reports \in Seq(AttemptOutcomes)
      /\ output_paths \in Seq(Attempts)
      /\ attempt = Len(attempt_reports) + 1
      /\ Len(attempt_reports) \in Nat
      /\ status = "attempts"
  BY PlansAreConfigured, ReportedIsPast
     DEF IInv, TypeOK, ReportsKeepUp, AttemptEnds
<1>2. /\ attempt_reports' = Append(attempt_reports, outcome)
      /\ Len(attempt_reports') = attempt
      /\ attempt_reports'[attempt] = outcome
      /\ attempt_reports' # <<>>
      /\ UNCHANGED rebot
  BY <1>1, AttemptGoesOn
<1>3. Promised!Complete(attempt_reports)' <=>
        attempt = NAttemptsMax \/ outcome = "AllTestsPassed"
  BY <1>2 DEF Promised!Complete
<1>4. Promised!ToMerge(attempt_reports)' <=> output_paths' # <<>>
  <2>1. ASSUME output_paths' # <<>> PROVE Promised!ToMerge(attempt_reports)'
    <3>1. 1 \in 1 .. Len(output_paths')
      BY <2>1 DEF IInv, TypeOK
    <3> QED
      BY <3>1 DEF IInv, PathsAreReported, Counted, Promised!ToMerge
  <2>2. ASSUME output_paths' = <<>> PROVE ~Promised!ToMerge(attempt_reports)'
    BY <2>2 DEF CountsAreMerged, Counted, Promised!ToMerge
  <2> QED
    BY <2>1, <2>2
<1>5. NextAttempt(outcome, output_paths')
  BY DEF AttemptEnds, Reported
<1>6. (IF status' \in {"attempts", "rebot"} THEN "running" ELSE status') =
        IF Promised!Complete(attempt_reports)' /\ ~Promised!ToMerge(attempt_reports)'
        THEN "report" ELSE "running"
  BY <1>1, <1>3, <1>4, <1>5 DEF NextAttempt
<1>7. ~Promised!Complete(attempt_reports)
  BY <1>1, StoryFits
<1> QED
  BY <1>1, <1>2, <1>6, <1>7 DEF Promised!Try

LEMMA EveryStepIsPromised ==
    ASSUME IInv, IInv', CountsAreMerged', [Next]_vars
    PROVE  [Promised!ReportNext]_(Promised!reportVars)
<1>1. CASE UNCHANGED <<status, attempt_reports, rebot>>
  BY <1>1 DEF Promised!reportVars
<1>2. CASE SeesCancel
  <2>1. Promised!GiveUp
    BY <1>2 DEF SeesCancel, results, Promised!GiveUp
  <2> QED
    BY <2>1 DEF Promised!ReportNext
<1>3. CASE RobotExits \/ RobotTimesOut \/ RobotRunFails
  BY <1>3, AttemptsEnd, AttemptIsTried DEF Promised!ReportNext
<1>4. CASE RebotExits \/ RebotTimesOut
  <2>1. \/ Rebot(merged) /\ merged # Absent
        \/ Rebot(Error)
    BY <1>4 DEF RebotExits, RebotTimesOut
  <2>2. PICK outcome \in (Files \ {Absent}) \cup {Error} : Rebot(outcome)
    BY <2>1 DEF IInv, TypeOK
  <2>3. Promised!Conclude(outcome)
    BY <2>2, StoryFits DEF Rebot, Promised!Conclude
  <2> QED
    BY <2>2, <2>3 DEF Promised!ReportNext
<1> QED
  BY <1>1, <1>2, <1>3, <1>4
     DEF Next, CommandRuns, CommandEnds, Cancel, RobotOpensOutput,
         RobotClosesOutput, RebotOpensOutput, RebotClosesOutput, Terminated,
         vars, results

\* run_attempts_with_rebot keeps the promise that its report makes: attempts one
\* by one until a success or the last, each told once, then one merge if and only
\* if an attempt left something that counts.  A cancelled run tells nothing.
THEOREM ReportIsImplemented == Spec => ImplementsReport
<1>1. Init => Promised!ReportInit
  BY PlansAreConfigured DEF Init, Promised!ReportInit
<1>2. IInv /\ IInv' /\ CountsAreMerged' /\ [Next]_vars
        => [Promised!ReportNext]_(Promised!reportVars)
  BY EveryStepIsPromised
<1> QED
  BY <1>1, <1>2, AlwaysIInv, AlwaysCounted, PTL
     DEF Spec, ImplementsReport, Promised!ReportSpec

-----------------------------------------------------------------------------
(* A run is over after a bounded number of steps.                          *)

ChildSteps ==
    CASE child = "started" -> 3
      [] child = "writing" -> 2
      [] child = "written" -> 1
      [] OTHER -> 0

\* No more steps than these are left: four for each attempt that is not begun, four
\* for rebot at most, and those of the command under way.
StepsLeft ==
    CASE status = "attempts" -> 4 * (NAttemptsMax - attempt) + 4 + ChildSteps
      [] status = "rebot" -> ChildSteps
      [] OTHER -> 0

ComesNearer ==
    /\ StepsLeft \in 0 .. 4 * NAttemptsMax + 3
    /\ CommandRuns \/ CommandEnds => StepsLeft' < StepsLeft
    /\ ~(CommandRuns \/ CommandEnds) => UNCHANGED <<StepsLeft, status>>

LEMMA StepsAreCounted ==
    ASSUME IInv
    PROVE  /\ ChildSteps \in 0 .. 3
           /\ status \in {"attempts", "rebot"} => ChildSteps >= 1
           /\ status = "attempts" =>
                /\ attempt \in 1 .. NAttemptsMax
                /\ NAttemptsMax \in Nat
                /\ StepsLeft = 4 * (NAttemptsMax - attempt) + 4 + ChildSteps
           /\ status = "rebot" => StepsLeft = ChildSteps
           /\ status \in {"report", "cancelled"} => StepsLeft = 0
           /\ StepsLeft \in 0 .. 4 * NAttemptsMax + 3
<1>1. /\ NAttemptsMax \in Nat /\ attempt \in 0 .. NAttemptsMax
      /\ status \in {"attempts", "rebot", "report", "cancelled"}
      /\ child \in {"none", "started", "writing", "written"}
  BY PlansAreConfigured DEF IInv, TypeOK
<1>2. ChildSteps \in 0 .. 3
  BY DEF ChildSteps
<1>3. status \in {"attempts", "rebot"} => child # "none"
  BY DEF IInv, OutputFollowsChild, MergedFits
<1>4. status \in {"attempts", "rebot"} => ChildSteps >= 1
  BY <1>1, <1>3 DEF ChildSteps
<1>5. status = "attempts" => attempt \in 1 .. NAttemptsMax
  BY ReportedIsPast DEF Attempts
<1>6. status = "rebot" => NAttemptsMax >= 1
  <2> SUFFICES ASSUME status = "rebot" PROVE NAttemptsMax >= 1
    OBVIOUS
  <2>1. output_paths \in Seq(Attempts) /\ output_paths # <<>>
    BY DEF IInv, TypeOK, MergedFits
  <2>2. output_paths[1] \in Attempts
    BY <2>1
  <2> QED
    BY <1>1, <2>2 DEF Attempts
<1> QED
  BY <1>1, <1>2, <1>4, <1>5, <1>6 DEF StepsLeft

LEMMA CommandsComeNearer ==
    ASSUME IInv, IInv', CommandRuns \/ CommandEnds
    PROVE  StepsLeft' < StepsLeft
<1>1. CASE RobotOpensOutput \/ RobotClosesOutput
  <2>1. /\ ChildSteps' < ChildSteps /\ ChildSteps' \in Nat /\ ChildSteps \in Nat
        /\ status = "attempts" /\ UNCHANGED <<status, attempt>>
    BY <1>1 DEF RobotOpensOutput, RobotClosesOutput, ChildSteps
  <2> QED
    BY <2>1, StepsAreCounted DEF StepsLeft
<1>2. CASE RebotOpensOutput \/ RebotClosesOutput
  <2>1. /\ ChildSteps' < ChildSteps /\ ChildSteps' \in Nat /\ ChildSteps \in Nat
        /\ status = "rebot" /\ UNCHANGED status
    BY <1>2 DEF RebotOpensOutput, RebotClosesOutput, ChildSteps
  <2> QED
    BY <2>1 DEF StepsLeft
<1>3. CASE RobotExits \/ RobotTimesOut \/ RobotRunFails
  <2>1. PICK outcome \in AttemptOutcomes : AttemptEnds(outcome)
    BY <1>3, AttemptsEnd
  <2>2. /\ status = "attempts"
        /\ attempt \in 1 .. NAttemptsMax /\ NAttemptsMax \in Nat
        /\ ChildSteps \in 1 .. 3
        /\ StepsLeft = 4 * (NAttemptsMax - attempt) + 4 + ChildSteps
    BY <2>1, StepsAreCounted DEF AttemptEnds
  <2>3. CASE attempt' = attempt + 1 /\ child' = "started" /\ status' = "attempts"
    <3>1. StepsLeft' = 4 * (NAttemptsMax - attempt') + 4 + 3
      BY <2>3 DEF StepsLeft, ChildSteps
    <3> QED
      BY <2>2, <2>3, <3>1
  <2>4. CASE status' = "report"
    <3>1. StepsLeft' = 0
      BY <2>4 DEF StepsLeft
    <3> QED
      BY <2>2, <3>1
  <2>5. CASE status' = "rebot" /\ child' = "started"
    <3>1. StepsLeft' = 3
      BY <2>5 DEF StepsLeft, ChildSteps
    <3> QED
      BY <2>2, <3>1
  <2> QED
    BY <2>1, <2>3, <2>4, <2>5, AttemptGoesOn
<1>4. CASE RebotExits \/ RebotTimesOut \/ SeesCancel
  <2>1. status \in {"attempts", "rebot"} /\ status' \in {"report", "cancelled"}
    BY <1>4 DEF RebotExits, RebotTimesOut, Rebot, SeesCancel
  <2>2. StepsLeft' = 0
    BY <2>1 DEF StepsLeft
  <2>3. StepsLeft \in Int /\ StepsLeft >= 1
    BY <2>1, StepsAreCounted
  <2> QED
    BY <2>2, <2>3
<1> QED
  BY <1>1, <1>2, <1>3, <1>4 DEF CommandRuns, CommandEnds

\* A run of a plan is over after at most four steps for each attempt and three for
\* rebot, whatever the commands do: no attempt is made twice, nothing goes back, and
\* what changes without a command's doing (the token) does not hold it up.  With the
\* fairness of the two timeouts this is why RunEnds holds.
THEOREM RunComesNearer == Spec => [][ComesNearer]_vars
<1>1. IInv /\ IInv' /\ Next => ComesNearer
  <2> SUFFICES ASSUME IInv, IInv', Next PROVE ComesNearer
    OBVIOUS
  <2>1. StepsLeft \in 0 .. 4 * NAttemptsMax + 3
    BY StepsAreCounted
  <2>2. CASE CommandRuns \/ CommandEnds
    BY <2>1, <2>2, CommandsComeNearer DEF ComesNearer
  <2>3. CASE ~(CommandRuns \/ CommandEnds)
    <3>1. UNCHANGED <<status, attempt, child>>
      BY <2>3 DEF Next, Cancel, Terminated, vars
    <3>2. UNCHANGED ChildSteps
      BY <3>1 DEF ChildSteps
    <3>3. UNCHANGED StepsLeft
      BY <3>1, <3>2 DEF StepsLeft
    <3> QED
      BY <2>1, <2>3, <3>1, <3>3 DEF ComesNearer
  <2> QED
    BY <2>2, <2>3
<1> QED
  BY <1>1, AlwaysIInv, PTL DEF Spec
=============================================================================
