------------------------------ MODULE RunResult ------------------------------
(***************************************************************************)
(* The book-keeping of internal/runner/run_result.go: what bktec remembers *)
(* of every test the runner has reported, over all the attempts of a job.  *)
(*                                                                         *)
(* A RunResult is a function from test identifiers to TestResult records;  *)
(* an identifier the Go map has no entry for is mapped to NoResult.  Go's  *)
(* counts of one kind of test are the cardinalities of the sets below.     *)
(***************************************************************************)
EXTENDS Naturals, FiniteSets

\* TestStatus: any word of a report that is not one of the first three is "unknown".
Reported == {"passed", "failed", "skipped", "unknown"}

\* Not a status of the code: the identifier is absent (from the map, or from a report).
Absent == "absent"

\* One entry of RunResult.tests.
TestResult == [status : Reported \cup {Absent}, executions : Nat, muted : BOOLEAN]

NoResult == [status |-> Absent, executions |-> 0, muted |-> FALSE]

\* NewRunResult: the map starts empty.
NewRunResult(Tests) == [t \in Tests |-> NoResult]

(***************************************************************************)
(* RecordTestResult for one test: the status is replaced, the execution    *)
(* counted, and the muted mark, once set, stays.                           *)
(***************************************************************************)
RecordOne(result, status, isMuted) ==
  [status     |-> status,
   executions |-> result.executions + 1,
   muted      |-> result.muted \/ isMuted]

\* Recording a report: one RecordTestResult for every test the report contains.
RecordAll(tests, report, mutedLookup) ==
  [t \in DOMAIN tests |-> IF report[t] = Absent
                            THEN tests[t]
                            ELSE RecordOne(tests[t], report[t], t \in mutedLookup)]

-----------------------------------------------------------------------------
\* The views of the map that the rest of the program reads.

Recorded(tests)         == {t \in DOMAIN tests : tests[t].status # Absent}
WithStatus(tests, s)    == {t \in DOMAIN tests : tests[t].status = s}
MutedTests(tests)       == {t \in DOMAIN tests : tests[t].muted}
FailedTests(tests)      == WithStatus(tests, "failed") \ MutedTests(tests)
FailedMutedTests(tests) == WithStatus(tests, "failed") \cap MutedTests(tests)
SkippedTests(tests)     == WithStatus(tests, "skipped")
PassedTests(tests)      == WithStatus(tests, "passed")

\* Every recorded test is passed, skipped, or failed and muted (the sum in Status).
AllAccounted(tests) ==
  Recorded(tests) \subseteq PassedTests(tests) \cup SkippedTests(tests) \cup FailedMutedTests(tests)

\* RunResult.Status: an error outside the tests hides everything else.
Status(tests, hasError) ==
  IF hasError THEN "error"
  ELSE IF Recorded(tests) = {} THEN "unknown"
  ELSE IF FailedTests(tests) # {} THEN "failed"
  ELSE IF AllAccounted(tests) THEN "passed"
  ELSE "unknown"

\* Fault: one muted failure is enough.
SomeMutedFailure(tests, hasError) ==
  Status(tests, hasError) \notin {"error", "unknown"} /\ FailedMutedTests(tests) # {}

\* Fault: a muted failure counts only when every recorded test is one.
EveryTestMutedFailure(tests, hasError) ==
  /\ Status(tests, hasError) \notin {"error", "unknown"}
  /\ FailedMutedTests(tests) = Recorded(tests)

\* RunResult.OnlyMutedFailures: something failed, and nothing that is not muted did.
OnlyMutedFailures(tests, hasError) ==
  /\ Status(tests, hasError) \notin {"error", "unknown"}
  /\ WithStatus(tests, "failed") # {}
  /\ WithStatus(tests, "failed") \subseteq MutedTests(tests)

\* Fault: a muted test that was skipped is counted as skipped and a muted failure twice.
StatisticsOverlapping(tests) ==
  LET passed  == PassedTests(tests) \ MutedTests(tests)
      onRetry == {t \in passed : tests[t].executions > 1}
  IN  [total            |-> Cardinality(Recorded(tests)),
       passedOnFirstRun |-> Cardinality(passed \ onRetry),
       passedOnRetry    |-> Cardinality(onRetry),
       mutedPassed      |-> Cardinality(PassedTests(tests) \cap MutedTests(tests)),
       mutedFailed      |-> Cardinality(FailedMutedTests(tests)),
       failed           |-> Cardinality(WithStatus(tests, "failed")),
       skipped          |-> Cardinality(SkippedTests(tests))]

\* RunResult.Statistics: each test is counted in at most one bucket.
Statistics(tests) ==
  LET unmuted == DOMAIN tests \ MutedTests(tests)
      passed  == PassedTests(tests) \cap unmuted
      onRetry == {t \in passed : tests[t].executions > 1}
  IN  [total            |-> Cardinality(Recorded(tests)),
       passedOnFirstRun |-> Cardinality(passed \ onRetry),
       passedOnRetry    |-> Cardinality(onRetry),
       mutedPassed      |-> Cardinality(PassedTests(tests) \cap MutedTests(tests)),
       mutedFailed      |-> Cardinality(FailedMutedTests(tests)),
       failed           |-> Cardinality(FailedTests(tests)),
       skipped          |-> Cardinality(SkippedTests(tests) \cap unmuted)]

=============================================================================
