--------------------------- MODULE RunnerJobProofs ---------------------------
(***************************************************************************)
(* What TestRun promises for every set of tests, of reports and of         *)
(* configurations: type correctness, and that the exit status of a job is  *)
(* the verdict its recorded results give.                                  *)
(*                                                                         *)
(* A job with a suite, run by any of the programs, is a job of TestRun:    *)
(* what a program does with its suite, and what its runner reads of it, is *)
(* among what TestRun lets a runner do.  So everything proved of TestRun   *)
(* holds of it.  And what it records is what happened to the suite: an     *)
(* invariant of its own, from which it follows what no job leaves          *)
(* unnoticed, and what its retries run.                                    *)
(***************************************************************************)
EXTENDS RunnerJob, FiniteSetTheorems, TLAPS

-----------------------------------------------------------------------------
(* Type correctness. *)

LEMMA EmptyReportType == EmptyReport \in Report
  BY DEF EmptyReport, Report, Reported, Absent

LEMMA WrittenType ==
  ASSUME TypeOK, NEW kind \in {"garbage", "readable"}, NEW says \in Report
  PROVE  Written(kind, says) \in File
  BY DEF TypeOK, Written, File

LEMMA UntouchedType == TypeOK => Untouched \in File
  BY EmptyReportType, WrittenType DEF TypeOK, Untouched

LEMMA EndsType == Ends \subseteq Error
  <1>1. NoError \in Error
    BY DEF NoError, Error
  <1>2. ExitCodes \subseteq Nat /\ Signals \subseteq Nat
    BY TestRunAssumption DEF TestRunAssumption
  <1>3. [kind : {"exit"}, code : ExitCodes] \subseteq Error
    BY <1>2 DEF Error
  <1>4. [kind : {"signal"}, code : Signals] \subseteq Error
    BY <1>2 DEF Error
  <1> QED
    BY <1>1, <1>3, <1>4 DEF Ends

\* Recording a report keeps the map a map of test results.
LEMMA RecordAllType ==
  ASSUME NEW results \in [Tests -> TestResult],
         NEW report \in [Tests -> Reported \cup {Absent}],
         NEW lookup
  PROVE  RecordAll(results, report, lookup) \in [Tests -> TestResult]
  <1> SUFFICES ASSUME NEW t \in Tests
               PROVE  RecordAll(results, report, lookup)[t] \in TestResult
    BY DEF RecordAll
  <1>1. RecordOne(results[t], report[t], t \in lookup) \in TestResult
    BY DEF RecordOne, TestResult
  <1> QED
    BY <1>1 DEF RecordAll

\* A statistic is a record of natural numbers: there are finitely many tests.
LEMMA StatisticsType ==
  ASSUME NEW results \in [Tests -> TestResult]
  PROVE  Statistics(results) \in Statistic
  <1>1. \A S \in SUBSET Tests : Cardinality(S) \in Nat
    BY TestRunAssumption, FS_Subset, FS_CardinalityType DEF TestRunAssumption
  <1> DEFINE unmuted == DOMAIN results \ MutedTests(results)
             passed  == PassedTests(results) \cap unmuted
             onRetry == {t \in passed : results[t].executions > 1}
  <1>2. /\ Recorded(results) \in SUBSET Tests
        /\ passed \ onRetry \in SUBSET Tests
        /\ onRetry \in SUBSET Tests
        /\ PassedTests(results) \cap MutedTests(results) \in SUBSET Tests
        /\ FailedMutedTests(results) \in SUBSET Tests
        /\ FailedTests(results) \in SUBSET Tests
        /\ SkippedTests(results) \cap unmuted \in SUBSET Tests
    BY DEF Recorded, PassedTests, MutedTests, FailedMutedTests, FailedTests, SkippedTests, WithStatus
  <1>3. /\ Cardinality(Recorded(results)) \in Nat
        /\ Cardinality(passed \ onRetry) \in Nat
        /\ Cardinality(onRetry) \in Nat
        /\ Cardinality(PassedTests(results) \cap MutedTests(results)) \in Nat
        /\ Cardinality(FailedMutedTests(results)) \in Nat
        /\ Cardinality(FailedTests(results)) \in Nat
        /\ Cardinality(SkippedTests(results) \cap unmuted) \in Nat
    BY <1>1, <1>2
  <1> QED
    BY <1>3 DEF Statistics, Statistic

LEMMA AppendType ==
  ASSUME NEW S, NEW seq \in Seq(S), NEW e \in S
  PROVE  Append(seq, e) \in Seq(S) /\ Append(seq, e) # <<>>
  <1>1. Append(seq, e) \in Seq(S)
    OBVIOUS
  <1>2. Len(Append(seq, e)) = Len(seq) + 1 /\ Len(seq) \in Nat
    OBVIOUS
  <1>3. Len(<<>>) = 0
    OBVIOUS
  <1> QED
    BY <1>1, <1>2, <1>3

\* The timeline stays a sequence of events.
LEMMA StartedType ==
  TypeOK => /\ Append(timeline, <<"start", attempt>>) \in Seq(Event)
            /\ Append(timeline, <<"end", attempt>>) \in Seq(Event)
  BY DEF TypeOK, Event

LEMMA StartedNonEmpty ==
  TypeOK => /\ Append(timeline, <<"start", attempt>>) # <<>>
            /\ Append(timeline, <<"end", attempt>>) # <<>>
  <1> SUFFICES ASSUME TypeOK
               PROVE  \A e \in Event : Append(timeline, e) # <<>>
    BY DEF TypeOK, Event
  <1> QED
    BY AppendType DEF TypeOK

LEMMA InitTypeOK == Init => TypeOK
  <1> SUFFICES ASSUME Init PROVE TypeOK
    OBVIOUS
  <1>1. tests \in [Tests -> TestResult]
    BY DEF Init, NewRunResult, NoResult, TestResult, Absent
  <1>2. cfg \in Config /\ file \in File
    BY TestRunAssumption DEF Init, TestRunAssumption
  <1>3. 0 <= cfg.maxRetries
    BY <1>2 DEF Config
  <1>4. pc \in Steps /\ testCases \in SUBSET Tests /\ attempt \in Nat /\ attempt <= cfg.maxRetries
    BY <1>3 DEF Init, Steps
  <1>5. runErr \in Error /\ exitStatus \in Int
    BY DEF Init, NoError, Error, Running
  <1>6. /\ timeline \in Seq(Event) /\ uploads \in Seq(Nat)
        /\ posted \in Seq([statistics : Statistic, timeline : Seq(Event)])
    BY DEF Init
  <1> QED
    BY <1>1, <1>2, <1>4, <1>5, <1>6 DEF Init, TypeOK

LEMMA NextTypeOK == TypeOK /\ [Next]_vars => TypeOK'
  <1> SUFFICES ASSUME TypeOK, [Next]_vars PROVE TypeOK'
    OBVIOUS
  <1> USE DEF TypeOK, Steps, result, output, conduct
  <1>1. CASE NoTests
    BY <1>1 DEF NoTests, Error, OtherError, NoError
  <1>2. CASE StartLoop
    BY <1>2 DEF StartLoop
  <1>3. CASE BuildCommandFails
    <2>1. timeline' \in Seq(Event)
      BY <1>3, StartedType DEF BuildCommandFails
    <2> QED
      BY <1>3, <2>1 DEF BuildCommandFails, Error, OtherError
  <1>4. CASE RunnerDoesNotStart
    <2>1. timeline' \in Seq(Event)
      BY <1>4, StartedType DEF RunnerDoesNotStart
    <2> QED
      BY <1>4, <2>1, UntouchedType DEF RunnerDoesNotStart, Error, OtherError
  <1>5. CASE InvokeRunner
    <2>1. PICK end \in Ends, f \in File : RunnerEnds(end, f)
      <3>1. Written("garbage", EmptyReport) \in File
        BY EmptyReportType, WrittenType
      <3>2. \A r \in Reports : Written("readable", r) \in File
        BY WrittenType, TestRunAssumption DEF TestRunAssumption
      <3> QED
        BY <1>5, <3>1, <3>2, UntouchedType DEF InvokeRunner
    <2>2. end \in Error
      BY <2>1, EndsType
    <2>4. timeline' \in Seq(Event)
      BY <2>1, StartedType DEF RunnerEnds
    <2>5. signalled' \in BOOLEAN /\ truthful' \in BOOLEAN /\ orderly' \in BOOLEAN
      BY <2>1 DEF RunnerEnds
    <2> QED
      BY <2>1, <2>2, <2>4, <2>5 DEF RunnerEnds
  <1>6. CASE RecordReport
    <2>1. recordable \in [Tests -> Reported \cup {Absent}]
      BY DEF recordable, File, Report
    <2>2. tests' \in [Tests -> TestResult]
      BY <1>6, <2>1, RecordAllType DEF RecordReport
    <2>3. runError' \in BOOLEAN
      BY <1>6 DEF RecordReport
    <2> QED
      BY <1>6, <2>2, <2>3 DEF RecordReport
  <1>7. CASE UploadResults
    <2>1. timeline' \in Seq(Event)
      BY <1>7, StartedType DEF UploadResults
    <2> QED
      BY <1>7, <2>1 DEF UploadResults, File
  <1>8. CASE Retry
    <2>1. testCases' \in SUBSET Tests
      BY <1>8 DEF Retry, retryCases, failedTests, failedMutedTests, FailedTests,
                  FailedMutedTests, WithStatus
    <2>2. attempt' \in Nat /\ attempt' <= cfg.maxRetries
      BY <1>8 DEF Retry, ShouldRetry, Config
    <2> QED
      BY <1>8, <2>1, <2>2 DEF Retry
  <1>9. CASE StopRetrying
    BY <1>9 DEF StopRetrying
  <1>10. CASE ExitOnSignal
    BY <1>10 DEF ExitOnSignal, Error
  <1>11. CASE PromiseFailure
    BY <1>11 DEF PromiseFailure
  <1>12. CASE SendMetadata
    <2>1. Statistics(tests) \in Statistic
      BY StatisticsType
    <2> DEFINE post == [statistics |-> Statistics(tests), timeline |-> timeline]
               Post == [statistics : Statistic, timeline : Seq(Event)]
    <2>2. post \in Post
      BY <2>1
    <2>3. posted' \in Seq(Post)
      <3>1. posted \in Seq(Post)
        OBVIOUS
      <3>2. Append(posted, post) \in Seq(Post)
        BY <2>2, <3>1, AppendType
      <3>3. posted' = posted \/ posted' = Append(posted, post)
        BY <1>12 DEF SendMetadata
      <3> QED
        BY <3>1, <3>2, <3>3
    <2> QED
      BY <1>12, <2>3 DEF SendMetadata
  <1>13. CASE Exit
    BY <1>13 DEF Exit, ExitCode, Error
  <1>14. CASE UNCHANGED vars
    BY <1>14 DEF vars
  <1> QED
    BY <1>1, <1>2, <1>3, <1>4, <1>5, <1>6, <1>7, <1>8, <1>9, <1>10, <1>11, <1>12, <1>13, <1>14
    DEF Next

\* Every variable of a job keeps a value of its kind.
THEOREM TypeCorrect == Spec => []TypeOK
  BY InitTypeOK, NextTypeOK, PTL DEF Spec

-----------------------------------------------------------------------------
(***************************************************************************)
(* The verdict.  VerdictInv is inductive relative to TypeOK: what is       *)
(* failing is always in the next invocation's tests, so an orderly one     *)
(* that succeeds leaves no failure behind.                                 *)
(***************************************************************************)

\* What a report does to one test: it is recorded, or left as it was.
LEMMA RecordedOrKept ==
  ASSUME NEW results \in [Tests -> TestResult],
         NEW report \in [Tests -> Reported \cup {Absent}],
         NEW lookup,
         NEW t \in Tests
  PROVE  LET r == RecordAll(results, report, lookup)
         IN  /\ report[t] = Absent => r[t] = results[t]
             /\ report[t] # Absent => /\ r[t].status = report[t]
                                      /\ r[t].muted = (results[t].muted \/ t \in lookup)
  BY DEF RecordAll, RecordOne

\* The views of the map, test by test.
LEMMA Views ==
  ASSUME NEW results \in [Tests -> TestResult]
  PROVE  /\ FailedTests(results) = {t \in Tests : results[t].status = "failed" /\ ~results[t].muted}
         /\ WithStatus(results, "failed") = {t \in Tests : results[t].status = "failed"}
         /\ WithStatus(results, "unknown") = {t \in Tests : results[t].status = "unknown"}
         /\ MutedTests(results) = {t \in Tests : results[t].muted}
         /\ Recorded(results) = {t \in Tests : results[t].status # Absent}
  BY DEF FailedTests, WithStatus, MutedTests, Recorded

\* If only muted tests failed, at least one did, no status is unknown and there is no
\* error, a run that exits with 1 is taken for a success.
LEMMA MutedFailuresOnly ==
  ASSUME NEW results \in [Tests -> TestResult],
         WithStatus(results, "failed") # {},
         WithStatus(results, "unknown") = {},
         FailedTests(results) = {}
  PROVE  OnlyMutedFailures(results, FALSE)
  <1>1. WithStatus(results, "failed") \subseteq MutedTests(results)
    BY DEF FailedTests
  <1>2. Recorded(results) # {}
    BY Views DEF Absent
  <1>3. AllAccounted(results)
    BY DEF AllAccounted, Recorded, PassedTests, SkippedTests, FailedMutedTests, FailedTests,
           WithStatus, MutedTests, TestResult, Reported
  <1>4. Status(results, FALSE) = "passed"
    BY <1>2, <1>3 DEF Status
  <1> QED
    BY <1>1, <1>4 DEF OnlyMutedFailures

\* And only then: whoever OnlyMutedFailures lets pass has no other failure and no error.
LEMMA OnlyMutedMeansNoFailure ==
  ASSUME NEW results \in [Tests -> TestResult], NEW err \in BOOLEAN,
         OnlyMutedFailures(results, err)
  PROVE  FailedTests(results) = {} /\ err = FALSE
  BY DEF OnlyMutedFailures, FailedTests, Status

LEMMA InitVerdict == Init => VerdictInv
  <1> SUFFICES ASSUME Init PROVE VerdictInv
    OBVIOUS
  <1>1. failedTests = {} /\ WithStatus(tests, "unknown") = {}
    BY DEF Init, failedTests, FailedTests, WithStatus, NewRunResult, NoResult, Absent
  <1> QED
    BY <1>1 DEF Init, VerdictInv, AskedForFailures, RunnerConduct, RecordAgrees, TruthfulRecord,
                NoMissedFailure, NoFalseAlarm, Exited

\* Reading the file of an invocation.
LEMMA RecordVerdict ==
  ASSUME TypeOK, VerdictInv, RecordReport
  PROVE  RecordAgrees' /\ TruthfulRecord'
  <1> DEFINE reads == ReadsFile /\ file.kind = "readable"
  <1>1. /\ pc = "read" /\ pc' = "upload"
        /\ ~runError /\ failedTests \subseteq testCases
        /\ UNCHANGED <<cfg, testCases, attempt, file, runErr, timeline, truthful, orderly>>
    BY DEF RecordReport, VerdictInv, AskedForFailures, conduct
  <1>2. tests' = IF reads THEN RecordAll(tests, recordable, mutedLookup) ELSE tests
    BY DEF RecordReport
  <1>3. runError' = ((reads /\ FailedOutside(file)) \/ CollectionError)
    BY <1>1 DEF RecordReport
  <1>4. recordable \in [Tests -> Reported \cup {Absent}]
    BY DEF TypeOK, recordable, File, Report
  <1>5. tests \in [Tests -> TestResult] /\ tests' \in [Tests -> TestResult]
    BY <1>2, <1>4, RecordAllType DEF TypeOK
  <1>6. /\ truthful => IsTruthful(runErr, file)
        /\ orderly => truthful /\ IsComplete(file)
        /\ truthful => WithStatus(tests, "unknown") = {}
    BY <1>1 DEF VerdictInv, RunnerConduct, TruthfulRecord
  <1>7. file.says \in Report
    BY DEF TypeOK, File
  \* A test the retry filter leaves out was not asked for and is not a failure.
  <1>8. \A t \in Tests : \/ recordable[t] = file.says.results[t]
                         \/ /\ recordable[t] = Absent
                            /\ t \notin testCases
                            /\ file.says.results[t] = "skipped"
    BY DEF recordable, FilteredOut
  <1>9. ASSUME truthful PROVE WithStatus(tests', "unknown") = {}
    <2>1. \A t \in Tests : file.says.results[t] # "unknown"
      BY <1>6, <1>9 DEF IsTruthful
    <2>2. \A t \in Tests : tests'[t].status # "unknown"
      <3> SUFFICES ASSUME NEW t \in Tests PROVE tests'[t].status # "unknown"
        OBVIOUS
      <3>1. tests[t].status # "unknown"
        BY <1>5, <1>6, <1>9, Views
      <3>2. recordable[t] # "unknown"
        BY <1>8, <2>1 DEF Absent
      <3> QED
        BY <1>2, <1>4, <1>5, <3>1, <3>2, RecordedOrKept
    <2> QED
      BY <1>5, <2>2, Views
  <1>10. ASSUME truthful
         PROVE  /\ runErr \in {NoError, [kind |-> "exit", code |-> 1]}
                /\ file.kind = "readable"
                /\ ~CollectionError
                /\ runErr.kind = "exit" <=>
                     ((\E t \in Tests : file.says.results[t] = "failed") \/ FailedOutside(file))
    BY <1>6, <1>10 DEF IsTruthful, CollectionError, NoError
  <1>11. ASSUME truthful, cfg.runner # "unread" PROVE reads
    <2>1. cfg.runner \in Runners
      BY DEF TypeOK, Config
    <2> QED
      BY <1>10, <1>11, <2>1 DEF ReadsFile, Runners, NoError
  <1>12. ASSUME truthful, cfg.runner # "unread", runErr.kind = "exit"
         PROVE  WithStatus(tests', "failed") # {} \/ runError'
    <2>1. CASE FailedOutside(file)
      BY <1>3, <1>11, <1>12, <2>1
    <2>2. CASE ~FailedOutside(file)
      <3>1. PICK t \in Tests : file.says.results[t] = "failed"
        BY <1>10, <1>12, <2>2
      <3>2. recordable[t] = "failed"
        BY <1>8, <3>1
      <3>3. tests'[t].status = "failed"
        BY <1>2, <1>4, <1>5, <1>11, <1>12, <3>2, RecordedOrKept DEF Absent
      <3> QED
        BY <1>5, <3>3, Views
    <2> QED
      BY <2>1, <2>2
  <1>13. ASSUME orderly, cfg.runner # "unread", runErr = NoError
         PROVE  failedTests' = {} /\ ~runError'
    <2>1. truthful /\ IsComplete(file)
      BY <1>6, <1>13
    <2>2. ~FailedOutside(file) /\ \A t \in Tests : file.says.results[t] # "failed"
      BY <1>10, <1>13, <2>1 DEF NoError
    <2>3. \A t \in Tests : ~(tests'[t].status = "failed" /\ ~tests'[t].muted)
      <3> SUFFICES ASSUME NEW t \in Tests, tests'[t].status = "failed", ~tests'[t].muted
                   PROVE  FALSE
        OBVIOUS
      <3>1. recordable[t] # "failed"
        BY <1>8, <2>2 DEF Absent
      <3>2. recordable[t] = Absent
        BY <1>2, <1>4, <1>5, <1>11, <1>13, <2>1, <3>1, RecordedOrKept
      <3>3. tests'[t] = tests[t]
        BY <1>2, <1>4, <1>5, <1>11, <1>13, <2>1, <3>2, RecordedOrKept
      <3>4. t \in testCases
        BY <1>1, <1>5, <3>3, Views DEF failedTests
      <3>5. file.says.results[t] # Absent
        BY <2>1, <3>4 DEF IsComplete
      <3> QED
        BY <1>8, <3>2, <3>4, <3>5
    <2>4. failedTests' = {}
      BY <1>5, <2>3, Views DEF failedTests
    <2> QED
      BY <1>3, <1>10, <2>1, <2>2, <2>4
  <1>14. RecordAgrees'
    BY <1>1, <1>10, <1>12, <1>13 DEF RecordAgrees, RanReadableRunner
  <1>15. TruthfulRecord'
    BY <1>1, <1>6, <1>9 DEF TruthfulRecord
  <1> QED
    BY <1>14, <1>15

LEMMA NextVerdict == TypeOK /\ TypeOK' /\ VerdictInv /\ [Next]_vars => VerdictInv'
  <1> SUFFICES ASSUME TypeOK, TypeOK', VerdictInv, [Next]_vars PROVE VerdictInv'
    OBVIOUS
  <1>0. tests \in [Tests -> TestResult]
    BY DEF TypeOK
  <1> USE DEF VerdictInv, AskedForFailures, RunnerConduct, TruthfulRecord, failedTests,
              result, output, conduct
  <1>1. CASE NoTests
    BY <1>1 DEF NoTests, RecordAgrees, RanReadableRunner, NoMissedFailure, NoFalseAlarm, Exited
  <1>2. CASE StartLoop
    BY <1>2 DEF StartLoop, RecordAgrees, NoMissedFailure, NoFalseAlarm, Exited
  <1>3. CASE BuildCommandFails
    BY <1>3, StartedNonEmpty DEF BuildCommandFails, RecordAgrees, NoMissedFailure, NoFalseAlarm, Exited
  <1>4. CASE RunnerDoesNotStart
    BY <1>4, StartedNonEmpty DEF RunnerDoesNotStart, RecordAgrees, NoMissedFailure, NoFalseAlarm, Exited
  <1>5. CASE InvokeRunner
    <2>1. PICK end, f : RunnerEnds(end, f)
      BY <1>5 DEF InvokeRunner
    <2>2. IsTruthful(end, f) => IsTruthful(runErr, file)'
      BY <2>1 DEF RunnerEnds, IsTruthful, FailedOutside
    <2>3. IsComplete(f) => IsComplete(file)'
      BY <2>1 DEF RunnerEnds, IsComplete
    <2> QED
      BY <2>1, <2>2, <2>3, StartedNonEmpty DEF RunnerEnds, RecordAgrees, NoMissedFailure, NoFalseAlarm, Exited
  <1>6. CASE RecordReport
    <2>1. RecordAgrees' /\ TruthfulRecord'
      BY <1>6, RecordVerdict
    <2> QED
      BY <1>6, <2>1 DEF RecordReport, NoMissedFailure, NoFalseAlarm, Exited
  <1>7. CASE UploadResults
    BY <1>7, StartedNonEmpty DEF UploadResults, RecordAgrees, RanReadableRunner, NoMissedFailure, NoFalseAlarm, Exited
  <1>8. CASE Retry
    <2>1. ~runError
      BY <1>8 DEF Retry, ShouldRetry, Status
    <2> QED
      BY <1>8, <2>1 DEF Retry, retryCases, RecordAgrees, NoMissedFailure, NoFalseAlarm, Exited
  <1>9. CASE StopRetrying
    BY <1>9 DEF StopRetrying, RecordAgrees, RanReadableRunner, NoMissedFailure, NoFalseAlarm, Exited
  <1>10. CASE ExitOnSignal
    BY <1>10 DEF ExitOnSignal, RecordAgrees, RanReadableRunner, NoMissedFailure, NoFalseAlarm,
                 Exited, NoError
  <1>11. CASE PromiseFailure
    BY <1>11 DEF PromiseFailure, RecordAgrees, RanReadableRunner, NoMissedFailure, NoFalseAlarm, Exited
  <1>12. CASE SendMetadata
    BY <1>12 DEF SendMetadata, RecordAgrees, RanReadableRunner, NoMissedFailure, NoFalseAlarm, Exited
  <1>13. CASE Exit
    <2>1. /\ pc = "exit" /\ pc' = "exited" /\ exitStatus' = ExitCode
          /\ UNCHANGED <<cfg, tests, runError, runErr, timeline, truthful, orderly>>
      BY <1>13 DEF Exit
    <2>2. NoMissedFailure'
      <3> SUFFICES ASSUME orderly, RanReadableRunner, ExitCode = 0
                   PROVE  failedTests = {} /\ ~runError
        BY <2>1 DEF NoMissedFailure, RanReadableRunner
      <3>1. CASE runErr = NoError
        BY <2>1, <3>1 DEF RecordAgrees
      <3>2. CASE runErr = [kind |-> "exit", code |-> 1]
        <4>1. OnlyMutedFailures(tests, runError)
          BY <3>2 DEF ExitCode, Suppressed
        <4> QED
          BY <1>0, <4>1, OnlyMutedMeansNoFailure DEF TypeOK
      <3> QED
        BY <2>1, <3>1, <3>2 DEF RecordAgrees
    <2>3. NoFalseAlarm'
      <3> SUFFICES ASSUME truthful, RanReadableRunner, ExitCode # 0, failedTests = {}, ~runError
                   PROVE  FALSE
        BY <2>1 DEF NoFalseAlarm, RanReadableRunner
      <3>1. runErr = [kind |-> "exit", code |-> 1]
        BY <2>1 DEF RecordAgrees, ExitCode, NoError
      <3>2. WithStatus(tests, "failed") # {} /\ WithStatus(tests, "unknown") = {}
        BY <2>1, <3>1 DEF RecordAgrees
      <3>3. OnlyMutedFailures(tests, FALSE)
        BY <1>0, <3>2, MutedFailuresOnly
      <3>4. runError = FALSE
        BY DEF TypeOK
      <3> QED
        BY <3>1, <3>3, <3>4 DEF ExitCode, Suppressed
    <2> QED
      BY <2>1, <2>2, <2>3 DEF RecordAgrees
  <1>14. CASE UNCHANGED vars
    BY <1>14 DEF vars, RecordAgrees, RanReadableRunner, NoMissedFailure, NoFalseAlarm, Exited,
                 IsTruthful, FailedOutside, IsComplete
  <1> QED
    BY <1>1, <1>2, <1>3, <1>4, <1>5, <1>6, <1>7, <1>8, <1>9, <1>10, <1>11, <1>12, <1>13, <1>14
    DEF Next

THEOREM VerdictInvariant == Spec => []VerdictInv
  BY InitTypeOK, NextTypeOK, InitVerdict, NextVerdict, PTL DEF Spec

\* With runners that do what their documentation says, a job that exits 0 has no failure
\* to hide, whatever was retried, muted, stale or filtered on the way.
THEOREM NoFailureIsMissed == Spec => []NoMissedFailure
  <1>1. VerdictInv => NoMissedFailure
    BY DEF VerdictInv
  <1> QED
    BY <1>1, VerdictInvariant, PTL

\* And a job that exits non-zero has one to show: muted failures alone never fail it.
THEOREM NoAlarmIsFalse == Spec => []NoFalseAlarm
  <1>1. VerdictInv => NoFalseAlarm
    BY DEF VerdictInv
  <1> QED
    BY <1>1, VerdictInvariant, PTL

-----------------------------------------------------------------------------
(***************************************************************************)
(* The retry loop, whatever the runner does: no truthfulness is assumed.   *)
(***************************************************************************)

LEMMA InitLoop == Init => LoopInv
  <1> SUFFICES ASSUME Init PROVE LoopInv
    OBVIOUS
  <1>1. failedTests = {}
    BY DEF Init, failedTests, FailedTests, WithStatus, NewRunResult, NoResult, Absent
  <1> QED
    BY <1>1 DEF Init, LoopInv

LEMMA NextLoop == TypeOK /\ LoopInv /\ [Next]_vars => LoopInv'
  <1> SUFFICES ASSUME TypeOK, LoopInv, [Next]_vars PROVE LoopInv'
    OBVIOUS
  <1> USE DEF LoopInv, failedTests, result, output, conduct
  <1>1. CASE NoTests
    BY <1>1 DEF NoTests
  <1>2. CASE StartLoop
    BY <1>2 DEF StartLoop
  <1>3. CASE BuildCommandFails
    BY <1>3, StartedNonEmpty DEF BuildCommandFails
  <1>4. CASE RunnerDoesNotStart
    BY <1>4, StartedNonEmpty DEF RunnerDoesNotStart
  <1>5. CASE InvokeRunner
    BY <1>5, StartedNonEmpty DEF InvokeRunner, RunnerEnds
  <1>6. CASE RecordReport
    BY <1>6 DEF RecordReport
  <1>7. CASE UploadResults
    BY <1>7, StartedNonEmpty DEF UploadResults
  <1>8. CASE Retry
    BY <1>8 DEF Retry, ShouldRetry
  <1>9. CASE StopRetrying
    <2>1. FailedTests(tests) # {} => attempt = cfg.maxRetries \/ runError
      <3>1. FailedTests(tests) # {} => retryCases # {}
        BY DEF retryCases
      <3>2. FailedTests(tests) # {} /\ ~runError => Status(tests, runError) # "error"
        BY DEF Status
      <3> QED
        BY <1>9, <3>1, <3>2 DEF StopRetrying, ShouldRetry
    <2> QED
      BY <1>9, <2>1 DEF StopRetrying
  <1>10. CASE ExitOnSignal
    BY <1>10 DEF ExitOnSignal
  <1>11. CASE PromiseFailure
    BY <1>11 DEF PromiseFailure
  <1>12. CASE SendMetadata
    BY <1>12 DEF SendMetadata
  <1>13. CASE Exit
    BY <1>13 DEF Exit
  <1>14. CASE UNCHANGED vars
    BY <1>14 DEF vars
  <1> QED
    BY <1>1, <1>2, <1>3, <1>4, <1>5, <1>6, <1>7, <1>8, <1>9, <1>10, <1>11, <1>12, <1>13, <1>14
    DEF Next

\* The inductive invariant of the retry loop.
THEOREM LoopInvariant == Spec => []LoopInv
  BY InitTypeOK, NextTypeOK, InitLoop, NextLoop, PTL DEF Spec

\* promise-failure is never run while an attempt is left that could clear the failure.
THEOREM PromiseIsFinal == Spec => []PromiseOnlyWhenFinal
  <1>1. LoopInv => PromiseOnlyWhenFinal
    BY DEF LoopInv, PromiseOnlyWhenFinal
  <1> QED
    BY <1>1, LoopInvariant, PTL

-----------------------------------------------------------------------------
(***************************************************************************)
(* What bktec reports: the files it uploads, the events and the statistics.*)
(***************************************************************************)

LEMMA AppendProperties ==
  ASSUME NEW S, NEW seq \in Seq(S), NEW e \in S
  PROVE  Len(seq) \in Nat /\ Len(Append(seq, e)) = Len(seq) + 1
OBVIOUS

\* Half of the events, rounded down, are those of attempts that have ended.
LEMMA HalfOfEvents ==
  ASSUME NEW n \in Nat
  PROVE  (2 * n) \div 2 = n /\ (2 * n + 1) \div 2 = n /\ (2 * n + 2) \div 2 = n + 1
OBVIOUS

\* The numbers up to n, and the next one.
LEMMA NextUpload ==
  ASSUME NEW n \in Nat
  PROVE  Append([i \in 1 .. n |-> i], n + 1) = [i \in 1 .. n + 1 |-> i]
OBVIOUS

LEMMA InitReports == Init => ReportsInv
  <1> SUFFICES ASSUME Init PROVE ReportsInv
    OBVIOUS
  <1>1. Len(timeline) = 0 /\ Len(timeline) \div 2 = 0
    BY DEF Init
  <1>2. uploads = [i \in 1 .. 0 |-> i]
    BY DEF Init
  <1> QED
    BY <1>1, <1>2 DEF Init, ReportsInv

\* An invocation of the runner, whatever becomes of it.
LEMMA StartReports ==
  ASSUME TypeOK, ReportsInv, pc = "invoke", pc' \in {"read", "upload"},
         timeline' = Append(timeline, <<"start", attempt>>),
         orderly' => orderly /\ file'.kind = "readable" /\ file'.writer = attempt + 1,
         UNCHANGED <<cfg, attempt, tests, uploads, posted>>
  PROVE  ReportsInv'
  <1> timeline \in Seq(Event) /\ <<"start", attempt>> \in Event /\ attempt \in Nat
    BY DEF TypeOK, Event
  <1>1. Len(timeline') = 2 * attempt + 1 /\ Len(timeline) = 2 * attempt
    <2>1. Len(timeline') = Len(timeline) + 1
      BY AppendProperties
    <2> QED
      BY <2>1 DEF ReportsInv
  <1>2. Len(timeline') \div 2 = attempt /\ Len(timeline) \div 2 = attempt
    BY <1>1, HalfOfEvents
  <1>3. HasResultFormat' <=> HasResultFormat
    BY DEF HasResultFormat
  <1> QED
    BY <1>1, <1>2, <1>3 DEF ReportsInv

LEMMA NextReports == TypeOK /\ ReportsInv /\ [Next]_vars => ReportsInv'
  <1> SUFFICES ASSUME TypeOK, ReportsInv, [Next]_vars PROVE ReportsInv'
    OBVIOUS
  <1> USE DEF result, output, conduct
  <1>1. CASE NoTests
    BY <1>1 DEF NoTests, ReportsInv, HasResultFormat
  <1>2. CASE StartLoop
    <2>1. Len(timeline) = 2 * attempt
      BY <1>2 DEF StartLoop, ReportsInv
    <2> QED
      BY <1>2, <2>1 DEF StartLoop, ReportsInv, HasResultFormat
  <1>3. CASE BuildCommandFails
    BY <1>3, StartReports DEF BuildCommandFails
  <1>4. CASE RunnerDoesNotStart
    BY <1>4, StartReports DEF RunnerDoesNotStart
  <1>5. CASE InvokeRunner
    <2>1. \E end \in Ends : \E f : RunnerEnds(end, f)
      BY <1>5 DEF InvokeRunner
    <2>2. PICK end, f : RunnerEnds(end, f)
      BY <2>1
    <2> QED
      BY <2>2, StartReports DEF RunnerEnds, IsTruthful
  <1>6. CASE RecordReport
    <2>1. posted = <<>>
      BY <1>6 DEF RecordReport, ReportsInv
    <2> QED
      BY <1>6, <2>1 DEF RecordReport, ReportsInv, HasResultFormat
  <1>7. CASE UploadResults
    <2> timeline \in Seq(Event) /\ <<"end", attempt>> \in Event /\ attempt \in Nat
      BY DEF TypeOK, Event
    <2>1. Len(timeline') = 2 * attempt + 2 /\ Len(timeline) = 2 * attempt + 1
      <3>1. Len(timeline') = Len(timeline) + 1
        BY <1>7, AppendProperties DEF UploadResults
      <3>2. Len(timeline) = 2 * attempt + 1
        BY <1>7 DEF UploadResults, ReportsInv
      <3> QED
        BY <3>1, <3>2
    <2>2. Len(timeline) \div 2 = attempt /\ Len(timeline') \div 2 = attempt + 1
      BY <2>1, HalfOfEvents
    <2>3. orderly /\ cfg.uploadResults /\ HasResultFormat => uploads' = [i \in 1 .. attempt + 1 |-> i]
      <3>1. orderly /\ cfg.uploadResults /\ HasResultFormat =>
              uploads = [i \in 1 .. attempt |-> i] /\ uploads' = Append(uploads, attempt + 1)
        BY <1>7, <2>2 DEF UploadResults, ReportsInv
      <3> QED
        BY <3>1, NextUpload DEF TypeOK
    <2> QED
      BY <1>7, <2>1, <2>2, <2>3 DEF UploadResults, ReportsInv, HasResultFormat
  <1>8. CASE Retry
    <2>1. Len(timeline) = 2 * attempt + 2 /\ attempt' = attempt + 1
      BY <1>8 DEF Retry, ReportsInv
    <2>2. Len(timeline) = 2 * attempt'
      BY <2>1 DEF TypeOK
    <2> QED
      BY <1>8, <2>2 DEF Retry, ReportsInv, HasResultFormat
  <1>9. CASE StopRetrying \/ ExitOnSignal \/ PromiseFailure \/ Exit
    BY <1>9 DEF StopRetrying, ExitOnSignal, PromiseFailure, Exit, ReportsInv, HasResultFormat
  <1>10. CASE SendMetadata
    <2>1. posted = <<>>
      BY <1>10 DEF SendMetadata, ReportsInv
    <2> DEFINE post == [statistics |-> Statistics(tests), timeline |-> timeline]
    <2>2. posted' = <<>> \/ posted' = <<post>>
      BY <1>10, <2>1 DEF SendMetadata
    <2>3. \A i \in DOMAIN posted' : posted'[i].statistics = Statistics(tests)
      BY <2>2
    <2> QED
      BY <1>10, <2>3 DEF SendMetadata, ReportsInv, HasResultFormat
  <1>11. CASE UNCHANGED vars
    BY <1>11 DEF vars, ReportsInv, HasResultFormat
  <1> QED
    BY <1>1, <1>2, <1>3, <1>4, <1>5, <1>6, <1>7, <1>8, <1>9, <1>10, <1>11 DEF Next

\* The inductive invariant of what is reported.
THEOREM ReportsInvariant == Spec => []ReportsInv
  BY InitTypeOK, NextTypeOK, InitReports, NextReports, PTL DEF Spec

\* In an orderly job every attempt uploads its own result file, once and in order; a stale
\* one of an earlier job is not uploaded.
THEOREM UploadsAreOrderly == Spec => []OrderlyUploads
  <1>1. ReportsInv => OrderlyUploads
    BY DEF ReportsInv, OrderlyUploads
  <1> QED
    BY <1>1, ReportsInvariant, PTL

LEMMA DisjointCount ==
  ASSUME NEW A, NEW B, IsFiniteSet(A), IsFiniteSet(B), A \cap B = {}
  PROVE  /\ IsFiniteSet(A \cup B)
         /\ Cardinality(A \cup B) = Cardinality(A) + Cardinality(B)
         /\ Cardinality(A) \in Nat /\ Cardinality(B) \in Nat
  <1>1. Cardinality(A \cap B) = 0
    BY FS_EmptySet
  <1>2. Cardinality(A) \in Nat /\ Cardinality(B) \in Nat
    BY FS_CardinalityType
  <1>3. /\ IsFiniteSet(A \cup B)
        /\ Cardinality(A \cup B) = Cardinality(A) + Cardinality(B) - Cardinality(A \cap B)
    BY FS_Union
  <1> QED
    BY <1>1, <1>2, <1>3

\* The buckets of the statistics have no test in common, and with the tests no bucket is
\* for they have all that were recorded.
LEMMA BucketsAddUp ==
  ASSUME tests \in [Tests -> TestResult]
  PROVE  Statistics(tests).total = BucketSum(Statistics(tests)) + Cardinality(Unbucketed)
  <1> DEFINE unmuted == DOMAIN tests \ MutedTests(tests)
             passed  == PassedTests(tests) \cap unmuted
             onRetry == {t \in passed : tests[t].executions > 1}
             A == passed \ onRetry
             B == onRetry
             C == PassedTests(tests) \cap MutedTests(tests)
             D == FailedMutedTests(tests)
             E == FailedTests(tests)
             F == SkippedTests(tests) \cap unmuted
             G == Unbucketed
  <1>1. \A S \in SUBSET Tests : IsFiniteSet(S)
    BY TestRunAssumption, FS_Subset DEF TestRunAssumption
  <1> USE DEF Recorded, PassedTests, MutedTests, FailedMutedTests, FailedTests, SkippedTests,
              WithStatus, Unbucketed
  <1>2. /\ A \in SUBSET Tests /\ B \in SUBSET Tests /\ C \in SUBSET Tests /\ D \in SUBSET Tests
        /\ E \in SUBSET Tests /\ F \in SUBSET Tests /\ G \in SUBSET Tests
    OBVIOUS
  <1>3. /\ A \cap B = {} /\ (A \cup B) \cap C = {}
        /\ (A \cup B \cup C) \cap D = {}
        /\ (A \cup B \cup C \cup D) \cap E = {}
        /\ (A \cup B \cup C \cup D \cup E) \cap F = {}
        /\ (A \cup B \cup C \cup D \cup E \cup F) \cap G = {}
    OBVIOUS
  <1>4. Recorded(tests) = A \cup B \cup C \cup D \cup E \cup F \cup G
    <2>1. \A t \in Tests : tests[t].status \in Reported \cup {Absent}
      BY DEF TestResult
    <2> QED
      BY <2>1 DEF Reported, Absent
  <1>5. /\ Statistics(tests).total = Cardinality(Recorded(tests))
        /\ BucketSum(Statistics(tests)) = Cardinality(A) + Cardinality(B) + Cardinality(C)
                                         + Cardinality(D) + Cardinality(E) + Cardinality(F)
    BY DEF Statistics, BucketSum
  <1> HIDE DEF A, B, C, D, E, F, G, Recorded, PassedTests, MutedTests, FailedMutedTests, FailedTests,
               SkippedTests, WithStatus, Unbucketed
  <1>6. /\ IsFiniteSet(A) /\ IsFiniteSet(B) /\ IsFiniteSet(C) /\ IsFiniteSet(D) /\ IsFiniteSet(E)
        /\ IsFiniteSet(F) /\ IsFiniteSet(G)
    BY <1>1, <1>2
  <1>7. IsFiniteSet(A \cup B) /\ Cardinality(A \cup B) = Cardinality(A) + Cardinality(B)
    BY <1>3, <1>6, DisjointCount
  <1>8. /\ IsFiniteSet(A \cup B \cup C)
        /\ Cardinality(A \cup B \cup C) = Cardinality(A \cup B) + Cardinality(C)
    BY <1>3, <1>6, <1>7, DisjointCount
  <1>9. /\ IsFiniteSet(A \cup B \cup C \cup D)
        /\ Cardinality(A \cup B \cup C \cup D) = Cardinality(A \cup B \cup C) + Cardinality(D)
    BY <1>3, <1>6, <1>8, DisjointCount
  <1>10. /\ IsFiniteSet(A \cup B \cup C \cup D \cup E)
         /\ Cardinality(A \cup B \cup C \cup D \cup E) = Cardinality(A \cup B \cup C \cup D) + Cardinality(E)
    BY <1>3, <1>6, <1>9, DisjointCount
  <1>11. /\ IsFiniteSet(A \cup B \cup C \cup D \cup E \cup F)
         /\ Cardinality(A \cup B \cup C \cup D \cup E \cup F)
              = Cardinality(A \cup B \cup C \cup D \cup E) + Cardinality(F)
    BY <1>3, <1>6, <1>10, DisjointCount
  <1>12. Cardinality(A \cup B \cup C \cup D \cup E \cup F \cup G)
           = Cardinality(A \cup B \cup C \cup D \cup E \cup F) + Cardinality(G)
    BY <1>3, <1>6, <1>11, DisjointCount
  <1>13. /\ Cardinality(A) \in Nat /\ Cardinality(B) \in Nat /\ Cardinality(C) \in Nat
         /\ Cardinality(D) \in Nat /\ Cardinality(E) \in Nat /\ Cardinality(F) \in Nat
         /\ Cardinality(G) \in Nat
    BY <1>6, FS_CardinalityType
  <1>14. Cardinality(G) = Cardinality(Unbucketed)
    BY DEF G
  <1> QED
    BY <1>4, <1>5, <1>7, <1>8, <1>9, <1>10, <1>11, <1>12, <1>13, <1>14

\* For any number of tests, attempts and statuses: no test is counted in two buckets, and
\* the total exceeds their sum by the tests no bucket is for.
THEOREM StatisticsAreRight == Spec => []StatisticsAddUp
  <1>1. TypeOK /\ ReportsInv => StatisticsAddUp
    BY BucketsAddUp DEF TypeOK, ReportsInv, StatisticsAddUp
  <1> QED
    BY <1>1, TypeCorrect, ReportsInvariant, PTL

-----------------------------------------------------------------------------
\* The types, the verdict, the retry loop and the reports together.
THEOREM JobInvariant == Spec => []JobInv
  BY TypeCorrect, VerdictInvariant, LoopInvariant, ReportsInvariant, PTL DEF JobInv

\* A retry asks for every unmuted failure, and for nothing but failures.
THEOREM RetriesAskForFailures == Spec => RetriesFailuresOnly
  <1>1. [Next]_vars => [pc' = "invoke" /\ attempt' # attempt =>
                          /\ failedTests \subseteq testCases'
                          /\ testCases' \subseteq WithStatus(tests, "failed")
                          /\ testCases' # {}
                          /\ ~cfg.retryForMuted => testCases' \cap MutedTests(tests) = {}]_vars
    <2> SUFFICES ASSUME Next, pc' = "invoke", attempt' # attempt
                 PROVE  /\ failedTests \subseteq testCases'
                        /\ testCases' \subseteq WithStatus(tests, "failed")
                        /\ testCases' # {}
                        /\ ~cfg.retryForMuted => testCases' \cap MutedTests(tests) = {}
      OBVIOUS
    <2>1. Retry
      BY DEF Next, NoTests, StartLoop, BuildCommandFails, RunnerDoesNotStart, InvokeRunner,
         RunnerEnds, RecordReport, UploadResults, StopRetrying, ExitOnSignal, PromiseFailure,
         SendMetadata, Exit
    <2>2. testCases' = retryCases /\ retryCases # {}
      BY <2>1 DEF Retry, ShouldRetry
    <2> QED
      BY <2>2 DEF retryCases, failedTests, failedMutedTests, FailedTests, FailedMutedTests
  <1> QED
    BY <1>1, PTL DEF Spec, RetriesFailuresOnly

\* No runner is invoked once an error outside the tests is recorded.
THEOREM ErrorStopsTheLoop == Spec => ErrorIsTerminal
  <1>1. VerdictInv /\ [Next]_vars => [runError => UNCHANGED <<attempt, testCases>> /\ pc' # "invoke"]_vars
    <2> SUFFICES ASSUME VerdictInv, Next, runError
                 PROVE  UNCHANGED <<attempt, testCases>> /\ pc' # "invoke"
      OBVIOUS
    <2>1. pc \notin {"assign", "invoke", "read"}
      BY DEF VerdictInv, AskedForFailures
    <2>2. ~ShouldRetry
      BY DEF ShouldRetry, Status
    <2> QED
      BY <2>1, <2>2 DEF Next, NoTests, StartLoop, BuildCommandFails, RunnerDoesNotStart,
         InvokeRunner, RunnerEnds, RecordReport, UploadResults, Retry, StopRetrying, ExitOnSignal,
         PromiseFailure, SendMetadata, Exit
  <1> QED
    BY <1>1, VerdictInvariant, PTL DEF Spec, ErrorIsTerminal

-----------------------------------------------------------------------------
(***************************************************************************)
(* A job implements BoundedRetry: every step of it is a round, another     *)
(* round for failing tests only, the end of the rounds, or a stutter.      *)
(***************************************************************************)

LEMMA InitRounds == Init => Rounds!Init
  <1> SUFFICES ASSUME Init PROVE Rounds!Init
    OBVIOUS
  <1>1. WithStatus(tests, "failed") = {}
    BY DEF Init, WithStatus, NewRunResult, NoResult, Absent
  <1>2. cfg \in Config
    BY TestRunAssumption DEF Init, TestRunAssumption
  <1> QED
    BY <1>1, <1>2 DEF Init, Rounds!Init, Config

LEMMA NextRounds ==
  TypeOK /\ TypeOK' /\ LoopInv /\ LoopInv' /\ [Next]_vars => [Rounds!Next]_(Rounds!vars)
  <1> SUFFICES ASSUME TypeOK, TypeOK', LoopInv, LoopInv', [Next]_vars
               PROVE  Rounds!Next \/ UNCHANGED Rounds!vars
    OBVIOUS
  <1>0. /\ attempt \in Nat /\ cfg.maxRetries \in Nat /\ attempt <= cfg.maxRetries
        /\ tests \in [Tests -> TestResult] /\ tests' \in [Tests -> TestResult]
    BY DEF TypeOK, Config
  <1> USE DEF LoopInv, result, output, conduct, Rounds!vars, Rounds!Next
  <1>1. CASE NoTests
    BY <1>1 DEF NoTests, Rounds!Stop
  <1>2. CASE StartLoop
    BY <1>2 DEF StartLoop
  <1>3. CASE BuildCommandFails
    <2>1. WithStatus(tests, "failed") \in SUBSET Tests
      BY <1>0 DEF WithStatus
    <2> QED
      BY <1>3, <2>1, StartedNonEmpty DEF BuildCommandFails, Rounds!Round
  <1>4. CASE RunnerDoesNotStart
    BY <1>4 DEF RunnerDoesNotStart
  <1>5. CASE InvokeRunner
    BY <1>5 DEF InvokeRunner, RunnerEnds
  <1>6. CASE RecordReport
    <2>1. WithStatus(tests', "failed") \in SUBSET Tests
      BY <1>0 DEF WithStatus
    <2>2. /\ pc = "read" /\ pc' = "upload" /\ timeline' = timeline
          /\ UNCHANGED <<testCases, attempt, cfg>>
      BY <1>6 DEF RecordReport
    <2> QED
      BY <2>1, <2>2 DEF Rounds!Round
  <1>7. CASE UploadResults
    BY <1>7, StartedNonEmpty DEF UploadResults
  <1>8. CASE Retry
    <2>1. /\ retryCases # {} /\ attempt # cfg.maxRetries
          /\ pc = "decide" /\ testCases' = retryCases /\ attempt' = attempt + 1 /\ pc' = "invoke"
          /\ UNCHANGED <<cfg, tests, timeline>>
      BY <1>8 DEF Retry, ShouldRetry
    <2>2. retryCases \subseteq WithStatus(tests, "failed")
      BY DEF retryCases, failedTests, failedMutedTests, FailedTests, FailedMutedTests
    <2>3. cfg.maxRetries - attempt > 0 /\ cfg.maxRetries - (attempt + 1) = (cfg.maxRetries - attempt) - 1
      BY <1>0, <2>1
    <2> QED
      BY <2>1, <2>2, <2>3 DEF Rounds!Again
  <1>9. CASE StopRetrying
    BY <1>9 DEF StopRetrying, Rounds!Stop
  <1>10. CASE ExitOnSignal
    BY <1>10 DEF ExitOnSignal
  <1>11. CASE PromiseFailure
    BY <1>11 DEF PromiseFailure
  <1>12. CASE SendMetadata
    BY <1>12 DEF SendMetadata
  <1>13. CASE Exit
    BY <1>13 DEF Exit
  <1>14. CASE UNCHANGED vars
    BY <1>14 DEF vars
  <1> QED
    BY <1>1, <1>2, <1>3, <1>4, <1>5, <1>6, <1>7, <1>8, <1>9, <1>10, <1>11, <1>12, <1>13, <1>14
    DEF Next

\* The safety part of ImplementsRounds.
THEOREM JobImplementsRounds == Spec => Rounds!Spec
  <1>1. Spec => [](TypeOK /\ LoopInv)
    BY TypeCorrect, LoopInvariant, PTL
  <1> QED
    BY <1>1, InitRounds, NextRounds, PTL DEF Spec, Rounds!Spec

-----------------------------------------------------------------------------
(***************************************************************************)
(* A job with a suite.                                                     *)
(***************************************************************************)

\* What never changes of a job with a suite.
Given == scenario \in Scenarios /\ cfg.runner \in Kinds(program)

-----------------------------------------------------------------------------
(***************************************************************************)
(* What a runner reads.                                                    *)
(***************************************************************************)

\* Whatever a program writes of a test, a status is read from it.
LEMMA StatusReadType ==
  ASSUME NEW p \in Programs \ {"cypress"}, NEW e \in Entries(p)
  PROVE  StatusRead(p, e.written) \in Reported
<1>1. CASE p = "rspec"
  BY <1>1 DEF StatusRead, RspecStatus, Reported
<1>2. CASE p = "jest"
  BY <1>2 DEF StatusRead, JestStatus, Reported
<1>3. CASE p = "vitest"
  BY <1>3 DEF StatusRead, VitestStatus, JestStatus, Reported
<1>4. CASE p = "playwright"
  BY <1>4 DEF StatusRead, PlaywrightStatus, Reported
<1>5. CASE p = "cucumber"
  <2>1. AggregatedStatus(e.written) \in {"failed", "pending", "passed"}
    BY DEF AggregatedStatus
  <2>2. StatusRead(p, e.written) = CucumberStatus(e.written)
    BY <1>5 DEF StatusRead
  <2> QED
    BY <2>1, <2>2 DEF CucumberStatus, Reported
<1>6. CASE p = "gotestjsonl"
  <2>1. StatusRead(p, e.written) = GoJSONLStatus(e.written)
    BY <1>6 DEF StatusRead
  <2>2. GoJSONLStatus(e.written) \in {"failed", "skipped", "passed"}
    BY DEF GoJSONLStatus
  <2> QED
    BY <2>1, <2>2 DEF Reported
<1>7. CASE p \in {"pytestjunit", "gotestjunit", "custom"}
  <2>1. StatusRead(p, e.written) = JUnitStatus(e.written)
    BY <1>7 DEF StatusRead
  <2>2. JUnitStatus(e.written) \in {"failed", "skipped", "passed"}
    BY DEF JUnitStatus
  <2> QED
    BY <2>1, <2>2 DEF Reported
<1>8. CASE p = "pytestjson"
  BY <1>8 DEF StatusRead, Entries, Entry, Reported
<1> QED
  BY <1>1, <1>2, <1>3, <1>4, <1>5, <1>6, <1>7, <1>8 DEF Programs

\* A test that a pattern left out is read as skipped.
LEMMA FilteredIsSkipped ==
  ASSUME NEW p \in PatternPrograms
  PROVE  StatusRead(p, FilteredEntry(p)) = "skipped"
<1>1. CASE p = "jest"
  BY <1>1 DEF StatusRead, FilteredEntry, JestStatus
<1>2. CASE p = "vitest"
  BY <1>2 DEF StatusRead, FilteredEntry, VitestStatus
<1> QED
  BY <1>1, <1>2 DEF PatternPrograms

\* The result file of any program but cypress is a report.
LEMMA ResultsReadType ==
  ASSUME program \in Programs \ {"cypress"}, NEW fault, NEW S, NEW entry \in [S -> Entries(program)]
  PROVE  [results |-> ResultsRead(fault, entry), outside |-> ErrorsRead(fault)] \in Report
<1>1. ASSUME NEW t \in S
      PROVE  StatusRead(program, entry[t].written) \in Reported
  <2>1. entry[t] \in Entries(program)
    OBVIOUS
  <2> QED
    BY <2>1, StatusReadType
<1>2. ASSUME NEW t \in Tests, t \in FilteredTests(fault)
      PROVE  StatusRead(program, FilteredEntry(program)) \in Reported
  <2>1. program \in PatternPrograms
    BY <1>2 DEF FilteredTests
  <2> QED
    BY <2>1, FilteredIsSkipped DEF Reported
<1>3. ASSUME NEW t \in Tests
      PROVE  (IF t \in DOMAIN entry THEN StatusRead(program, entry[t].written)
              ELSE IF t \in FilteredTests(fault) THEN StatusRead(program, FilteredEntry(program))
              ELSE IF program \in GoPrograms /\ t \in {TestMain(program, f) : f \in FailedPackages(fault, entry)}
                THEN "failed"
              ELSE Absent) \in Reported \cup {Absent}
  <2>1. DOMAIN entry = S
    OBVIOUS
  <2>2. CASE t \in S
    BY <1>1, <2>1, <2>2
  <2>3. CASE t \notin S /\ t \in FilteredTests(fault)
    BY <1>2, <2>1, <2>3
  <2>4. CASE t \notin S /\ t \notin FilteredTests(fault)
    <3>1. "failed" \in Reported
      BY DEF Reported
    <3> QED
      BY <2>1, <2>4, <3>1
  <2> QED
    BY <2>2, <2>3, <2>4
<1>4. ResultsRead(fault, entry) \in [Tests -> Reported \cup {Absent}]
  BY <1>3 DEF ResultsRead
<1>5. ErrorsRead(fault) \in BOOLEAN
  BY DEF ErrorsRead
<1> QED
  BY <1>4, <1>5 DEF Report

-----------------------------------------------------------------------------
(***************************************************************************)
(* Every step is a step of TestRun.                                        *)
(***************************************************************************)

\* A program that runs its suite is a runner that ends in one of the ways TestRun has,
\* and leaves one of the files it has.
LEMMA RunSuiteInvokes ==
  ASSUME Report \subseteq Reports, {1, 2, 4} \subseteq ExitCodes, Given, RunSuite
  PROVE  InvokeRunner
<1>1. PICK fault \in [filesRead -> {"no"} \cup scenario.faults] :
        \E entry \in [Executed(fault) -> Entries(program)] :
          RunnerEnds(EndOf(fault, entry), FileWritten(fault, entry))
  BY DEF RunSuite
<1>2. PICK entry \in [Executed(fault) -> Entries(program)] :
        RunnerEnds(EndOf(fault, entry), FileWritten(fault, entry))
  BY <1>1
<1>3. EndOf(fault, entry) \in Ends
  BY DEF EndOf, Ends, NoError
<1>4. program \in Programs
  BY RunnerJobAssumption DEF Given, program, Scenario
<1>5. CASE program = "cypress"
  <2>1. cfg.runner = "unread"
    BY <1>5 DEF Given, Kinds
  <2>2. FileWritten(fault, entry) = Untouched
    BY <1>5, <2>1 DEF FileWritten, Untouched
  <2> QED
    BY <1>2, <1>3, <2>2 DEF InvokeRunner
<1>6. CASE program = "cucumber" /\ ErrorsRead(fault)
  <2>1. FileWritten(fault, entry) = Written("garbage", EmptyReport)
    BY <1>6 DEF FileWritten
  <2> QED
    BY <1>2, <1>3, <2>1 DEF InvokeRunner
<1>7. CASE program # "cypress" /\ ~(program = "cucumber" /\ ErrorsRead(fault))
  <2> DEFINE r == [results |-> ResultsRead(fault, entry), outside |-> ErrorsRead(fault)]
  <2>1. r \in Reports
    BY <1>4, <1>7, ResultsReadType
  <2>2. FileWritten(fault, entry) = Written("readable", r)
    BY <1>7 DEF FileWritten
  <2> QED
    BY <1>2, <1>3, <2>1, <2>2 DEF InvokeRunner
<1> QED
  BY <1>5, <1>6, <1>7

LEMMA SuiteStep ==
  ASSUME Report \subseteq Reports, {1, 2, 4} \subseteq ExitCodes, Given, [SuiteNext]_jobVars
  PROVE  [Next]_vars /\ Given'
<1>1. CASE RunSuite
  <2>1. InvokeRunner
    BY <1>1, RunSuiteInvokes
  <2>2. cfg' = cfg /\ scenario' = scenario
    BY <1>1 DEF RunSuite, RunnerEnds
  <2> QED
    BY <2>1, <2>2 DEF Next, Given, program
<1>2. CASE RefusePaths
  <2>1. RunnerEnds([kind |-> "exit", code |-> 4], Untouched)
    BY <1>2 DEF RefusePaths
  <2>2. [kind |-> "exit", code |-> 4] \in Ends
    BY DEF Ends
  <2>3. InvokeRunner
    BY <2>1, <2>2 DEF InvokeRunner
  <2>4. cfg' = cfg /\ scenario' = scenario
    BY <1>2, <2>1 DEF RefusePaths, suiteVars, RunnerEnds
  <2> QED
    BY <2>3, <2>4 DEF Next, Given, program
<1>3. CASE Killed
  <2>1. PICK s \in Signals : RunnerEnds([kind |-> "signal", code |-> s], Untouched)
    BY <1>3 DEF Killed
  <2>2. [kind |-> "signal", code |-> s] \in Ends
    BY DEF Ends
  <2>3. InvokeRunner
    BY <2>1, <2>2 DEF InvokeRunner
  <2>4. cfg' = cfg /\ scenario' = scenario
    BY <1>3, <2>1 DEF Killed, suiteVars, RunnerEnds
  <2> QED
    BY <2>3, <2>4 DEF Next, Given, program
<1>4. CASE NothingToRetry
  <2>1. BuildCommandFails /\ UNCHANGED <<cfg, scenario>>
    BY <1>4 DEF NothingToRetry, suiteVars, BuildCommandFails
  <2> QED
    BY <2>1 DEF Next, Given, program
<1>5. CASE JobStep
  <2>1. Next /\ scenario' = scenario
    BY <1>5 DEF JobStep, Next, suiteVars
  <2>2. cfg' = cfg
    BY <1>5 DEF JobStep, NoTests, StartLoop, RunnerDoesNotStart, RecordReport, UploadResults, Retry,
                StopRetrying, ExitOnSignal, PromiseFailure, SendMetadata, Exit
  <2> QED
    BY <2>1, <2>2 DEF Given, program
<1>6. CASE UNCHANGED jobVars
  BY <1>6 DEF jobVars, suiteVars, vars, Given, program
<1> QED
  BY <1>1, <1>2, <1>3, <1>4, <1>5, <1>6 DEF SuiteNext

\* If runners may report anything, and exit with the codes their programs have, a job with a
\* suite implements TestRun: its runner never does what the proofs of TestRun leave out.
THEOREM SuiteImplementsJob ==
  ASSUME Report \subseteq Reports, {1, 2, 4} \subseteq ExitCodes
  PROVE  SuiteSpec => Spec
<1>1. SuiteInit => Init /\ Given
  BY DEF SuiteInit, Given
<1>2. Given /\ [SuiteNext]_jobVars => [Next]_vars /\ Given'
  BY SuiteStep
<1> QED
  BY <1>1, <1>2, PTL DEF SuiteSpec, Spec

\* So the verdict of such a job, and its retry loop, are as they should be (run.go, Run and
\* runTestsWithRetry).
THEOREM SuiteJobInvariant ==
  ASSUME Report \subseteq Reports, {1, 2, 4} \subseteq ExitCodes
  PROVE  SuiteSpec => []JobInv
<1>1. SuiteSpec => Spec
  BY SuiteImplementsJob
<1> QED
  BY <1>1, JobInvariant, PTL

-----------------------------------------------------------------------------
(***************************************************************************)
(* What a program runs, and what is read of it.                            *)
(***************************************************************************)

LEMMA ScenarioType ==
  ASSUME scenario \in Scenarios
  PROVE  /\ program \in Programs /\ suite \subseteq Tests
         /\ scenario.faults \subseteq {"unloadable", "crashed"}
         /\ program \in GoPrograms =>
              {TestMain(program, f) : f \in FilesOf(suite)} \subseteq Tests \ (suite \cup Muted)
<1>1. scenario \in Scenario
  BY RunnerJobAssumption
<1> QED
  BY <1>1, RunnerJobAssumption DEF Scenario, program, suite

\* Every entry says what happened.
LEMMA HappenedType ==
  ASSUME NEW p \in Programs, NEW e \in Entries(p)
  PROVE  e.happened \in {"passed", "failed", "skipped"}
<1>1. CASE p \in {"pytestjunit", "gotestjunit", "custom"}
  BY <1>1 DEF Entries, JUnitEntries, Entry
<1>2. CASE p \in {"rspec", "jest", "vitest", "pytestjson", "cypress"}
  BY <1>2 DEF Entries, Entry
<1>3. CASE p = "playwright"
  BY <1>3 DEF Entries, Entry
<1>4. CASE p = "cucumber"
  BY <1>4 DEF Entries, Entry
<1>5. CASE p = "gotestjsonl"
  BY <1>5 DEF Entries, Entry
<1> QED
  BY <1>1, <1>2, <1>3, <1>4, <1>5 DEF Programs

\* The status read from an entry is what happened to the test, whatever the program.
LEMMA StatusReadIsTrue ==
  ASSUME NEW p \in Programs \ {"cypress"}, NEW e \in Entries(p)
  PROVE  StatusRead(p, e.written) = e.happened
<1>1. CASE p = "rspec"
  BY <1>1 DEF StatusRead, RspecStatus, Entries, Entry
<1>2. CASE p = "jest"
  BY <1>2 DEF StatusRead, JestStatus, Entries, Entry
<1>3. CASE p = "vitest"
  BY <1>3 DEF StatusRead, VitestStatus, JestStatus, Entries, Entry
<1>4. CASE p = "playwright"
  BY <1>4 DEF StatusRead, PlaywrightStatus, Entries, Entry
<1>5. CASE p = "cucumber"
  <2>1. StatusRead(p, e.written) = CucumberStatus(e.written)
    BY <1>5 DEF StatusRead
  <2>2. CASE e = Entry("passed", <<"passed", "passed">>)
    <3>1. AggregatedStatus(e.written) = "passed"
      BY <2>2 DEF AggregatedStatus, Entry
    <3> QED
      BY <2>1, <2>2, <3>1 DEF CucumberStatus, Entry
  <2>3. CASE e \in {Entry("failed", <<"failed", "skipped">>), Entry("failed", <<"passed", "undefined">>)}
    <3>1. \E i \in DOMAIN e.written : e.written[i] \in {"failed", "undefined", "errored"}
      <4>1. CASE e = Entry("failed", <<"failed", "skipped">>)
        <5>1. e.written = <<"failed", "skipped">>
          BY <4>1 DEF Entry
        <5>2. 1 \in DOMAIN e.written /\ e.written[1] = "failed"
          BY <5>1
        <5> QED
          BY <5>2
      <4>2. CASE e = Entry("failed", <<"passed", "undefined">>)
        <5>1. e.written = <<"passed", "undefined">>
          BY <4>2 DEF Entry
        <5>2. 2 \in DOMAIN e.written /\ e.written[2] = "undefined"
          BY <5>1
        <5> QED
          BY <5>2
      <4> QED
        BY <2>3, <4>1, <4>2
    <3>2. AggregatedStatus(e.written) = "failed"
      BY <3>1 DEF AggregatedStatus
    <3> QED
      BY <2>1, <2>3, <3>2 DEF CucumberStatus, Entry
  <2>4. CASE e = Entry("skipped", <<"pending", "skipped">>)
    <3>1. e.written = <<"pending", "skipped">>
      BY <2>4 DEF Entry
    <3>2. AggregatedStatus(e.written) = "pending"
      BY <3>1 DEF AggregatedStatus
    <3> QED
      BY <2>1, <2>4, <3>2 DEF CucumberStatus, Entry
  <2> QED
    BY <1>5, <2>2, <2>3, <2>4 DEF Entries
<1>6. CASE p = "gotestjsonl"
  <2>1. StatusRead(p, e.written) = GoJSONLStatus(e.written)
    BY <1>6 DEF StatusRead
  <2>2. CASE e = Entry("passed", <<"pass">>)
    <3>1. e.written = <<"pass">> /\ e.happened = "passed"
      BY <2>2 DEF Entry
    <3> QED
      BY <2>1, <3>1 DEF GoJSONLStatus
  <2>3. CASE e = Entry("failed", <<"fail">>) \/ e = Entry("failed", <<"fail", "pass">>)
    <3>1. e.written = <<"fail">> \/ e.written = <<"fail", "pass">>
      BY <2>3 DEF Entry
    <3>2. 1 \in DOMAIN e.written /\ e.written[1] = "fail"
      BY <3>1
    <3>3. e.happened = "failed"
      BY <2>3 DEF Entry
    <3> QED
      BY <2>1, <3>2, <3>3 DEF GoJSONLStatus
  <2>4. CASE e = Entry("skipped", <<"skip">>)
    <3>1. e.written = <<"skip">> /\ e.happened = "skipped"
      BY <2>4 DEF Entry
    <3> QED
      BY <2>1, <3>1 DEF GoJSONLStatus
  <2> QED
    BY <1>6, <2>2, <2>3, <2>4 DEF Entries
<1>7. CASE p \in {"pytestjunit", "gotestjunit", "custom"}
  <2>1. StatusRead(p, e.written) = JUnitStatus(e.written)
    BY <1>7 DEF StatusRead
  <2>2. e \in JUnitEntries
    BY <1>7 DEF Entries
  <2> QED
    BY <2>1, <2>2 DEF JUnitStatus, JUnitEntries, Entry
<1>8. CASE p = "pytestjson"
  BY <1>8 DEF StatusRead, Entries, Entry
<1> QED
  BY <1>1, <1>2, <1>3, <1>4, <1>5, <1>6, <1>7, <1>8 DEF Programs

LEMMA SelectedInSuite ==
  ASSUME NEW p, NEW S, NEW asked
  PROVE  Selected(p, S, asked) \subseteq S
BY DEF Selected

LEMMA SelectedGrows ==
  ASSUME NEW p, NEW S, NEW asked, NEW a \in asked
  PROVE  Selected(p, S, {a}) \subseteq Selected(p, S, asked)
<1>1. Packages({a}) \subseteq Packages(asked)
  BY DEF Packages
<1>2. PathsOf(p, {a}) \subseteq PathsOf(p, asked)
  BY DEF PathsOf
<1>3. CASE p \in PatternPrograms
  <2>1. \A as : Selected(p, S, as) = {t \in S : \E b \in as : Matches(PatternOf(p, b), t)}
    BY <1>3 DEF Selected, PatternPrograms, GoPrograms
  <2> QED
    BY <2>1
<1>4. CASE p \notin PatternPrograms /\ p \in GoPrograms
  BY <1>1, <1>4 DEF Selected
<1>5. CASE p \notin PatternPrograms /\ p \notin GoPrograms
  BY <1>2, <1>5 DEF Selected
<1> QED
  BY <1>3, <1>4, <1>5

LEMMA RefusalGrows ==
  ASSUME NEW p, NEW S, NEW asked, NEW a \in asked, RefusesPaths(p, S, {a})
  PROVE  RefusesPaths(p, S, asked)
<1>1. PathsOf(p, {a}) \subseteq PathsOf(p, asked)
  BY DEF PathsOf
<1> QED
  BY <1>1 DEF RefusesPaths

\* The pattern of a test for vitest matches its own title.
LEMMA VitestMatchesItself ==
  ASSUME NEW t \in Tests
  PROVE  Matches(VitestPattern(t), t)
<1> DEFINE W     == {t.scope[i] : i \in DOMAIN t.scope} \cup {t.name}
           title == Append(t.scope, t.name)
<1>1. t.scope \in Seq({t.scope[i] : i \in DOMAIN t.scope})
  BY RunnerJobAssumption
<1>2. t.scope \in Seq(W)
  BY <1>1
<1>3. title \in Seq(W) /\ Len(title) = Len(t.scope) + 1 /\ Len(t.scope) \in Nat
  BY <1>2
<1>4. VitestPattern(t).words = title /\ ~VitestPattern(t).afterBlank
  BY DEF VitestPattern
<1> HIDE DEF title, W
<1>5. SubSeq(title, 1, Len(title)) = title /\ Len(title) \in Nat \ {0}
  BY <1>3
<1>6. 1 \in 1 .. (Len(title) - Len(title) + 1) /\ 1 + Len(title) - 1 = Len(title)
  BY <1>5
<1>7. SubSeq(title, 1, 1 + Len(title) - 1) = title
  BY <1>5, <1>6
<1> QED
  BY <1>4, <1>6, <1>7 DEF Matches, title

LEMMA AskedIsSelected ==
  ASSUME scenario \in Scenarios, program = "vitest", NEW t \in testCases \cap suite
  PROVE  t \in selected
<1>1. t \in Tests /\ Matches(PatternOf(program, t), t)
  BY VitestMatchesItself, ScenarioType DEF PatternOf
<1>2. Selected(program, suite, testCases) =
        {u \in suite : \E a \in testCases : Matches(PatternOf(program, a), u)}
  BY DEF Selected, PatternPrograms, GoPrograms
<1>3. t \in Selected(program, suite, testCases)
  BY <1>1, <1>2
<1> QED
  BY <1>3 DEF selected

LEMMA SelectedType ==
  selected \subseteq suite
BY SelectedInSuite DEF selected

\* A test that is selected is in a file that is read.
LEMMA SelectedIsRead ==
  ASSUME NEW t \in selected, attempt = 0 \/ t \in testCases
  PROVE  t.file \in filesRead
BY SelectedType DEF filesRead, FilesOf

\* What is read of a test of the suite, whatever else is in the file.
LEMMA ReadOfTheSuite ==
  ASSUME scenario \in Scenarios, program # "cypress", NEW fault,
         NEW entry \in [Executed(fault) -> Entries(program)], NEW t \in suite
  PROVE  /\ t \in Executed(fault) => ResultsRead(fault, entry)[t] = entry[t].happened
         /\ t \notin Executed(fault) =>
              ResultsRead(fault, entry)[t] = IF t \in FilteredTests(fault) THEN "skipped" ELSE Absent
<1>1. t \in Tests /\ program \in Programs \ {"cypress"}
  BY ScenarioType
<1>2. CASE t \in Executed(fault)
  <2>1. entry[t] \in Entries(program)
    BY <1>2
  <2>2. StatusRead(program, entry[t].written) = entry[t].happened
    BY <1>1, <2>1, StatusReadIsTrue
  <2> QED
    BY <1>1, <1>2, <2>2 DEF ResultsRead
<1>3. CASE t \notin Executed(fault) /\ t \in FilteredTests(fault)
  <2>1. program \in PatternPrograms
    BY <1>3 DEF FilteredTests
  <2> QED
    BY <1>1, <1>3, <2>1, FilteredIsSkipped DEF ResultsRead
<1>4. CASE t \notin Executed(fault) /\ t \notin FilteredTests(fault)
  <2>1. ~(program \in GoPrograms /\ t \in {TestMain(program, f) : f \in FailedPackages(fault, entry)})
    <3> SUFFICES ASSUME program \in GoPrograms, NEW f \in FailedPackages(fault, entry), t = TestMain(program, f)
                 PROVE  FALSE
      OBVIOUS
    <3>1. f \in filesRead
      BY DEF FailedPackages
    <3>2. filesRead \subseteq FilesOf(suite)
      BY SelectedType DEF filesRead, FilesOf, GoPrograms, PatternPrograms
    <3> QED
      BY <3>1, <3>2, ScenarioType
  <2> QED
    BY <1>1, <1>4, <2>1 DEF ResultsRead
<1> QED
  BY <1>2, <1>3, <1>4

-----------------------------------------------------------------------------
(***************************************************************************)
(* The steps of a job with a suite, of four kinds.                         *)
(***************************************************************************)

\* Steps that neither run anything nor read a file.
Quiet ==
  /\ NoTests \/ StartLoop \/ UploadResults \/ Retry \/ StopRetrying
     \/ ExitOnSignal \/ PromiseFailure \/ SendMetadata \/ Exit
  /\ UNCHANGED suiteVars

\* Attempts that do not end by running the suite.
Interrupted ==
  RefusePaths \/ Killed \/ NothingToRetry \/ (RunnerDoesNotStart /\ UNCHANGED suiteVars)

\* The suite is run, with these faults and these results.
Ran(fault, entry) ==
  /\ pc = "invoke" /\ pc' = "read"
  /\ attempt > 0 => ~RefusesPaths(program, suite, testCases)
  /\ SkipsAlike(entry)
  /\ runErr' = EndOf(fault, entry)
  /\ file' = FileWritten(fault, entry)
  /\ truthful' = (truthful /\ IsTruthful(EndOf(fault, entry), FileWritten(fault, entry)))
  /\ last' = [t \in suite |-> IF t \in DOMAIN entry THEN entry[t].happened ELSE last[t]]
  /\ runs' = [t \in suite |-> IF t \in DOMAIN entry THEN runs[t] + 1 ELSE runs[t]]
  /\ broken' = [f \in FilesOf(suite) |-> IF f \in filesRead THEN fault[f] ELSE broken[f]]
  /\ UNCHANGED <<cfg, attempt, testCases, tests, runError, scenario>>

LEMMA StepsOfAJob ==
  ASSUME [SuiteNext]_jobVars
  PROVE  \/ Quiet \/ Interrupted \/ (RecordReport /\ UNCHANGED suiteVars) \/ UNCHANGED jobVars
         \/ \E fault \in [filesRead -> {"no"} \cup scenario.faults] :
              \E entry \in [Executed(fault) -> Entries(program)] : Ran(fault, entry)
<1>1. CASE RunSuite
  BY <1>1 DEF RunSuite, Ran, RunnerEnds, result
<1>2. CASE JobStep
  BY <1>2 DEF JobStep, Quiet, Interrupted
<1> QED
  BY <1>1, <1>2 DEF SuiteNext, Interrupted

LEMMA QuietEffect ==
  ASSUME Quiet
  PROVE  /\ UNCHANGED <<cfg, tests, runError, file, truthful, suiteVars>>
         /\ pc # "read" /\ pc' # "read" /\ pc # "invoke" /\ pc' # "assign"
         /\ recorded' = recorded /\ recorded = tests
         /\ (errorRecorded' <=> errorRecorded) /\ (errorRecorded <=> runError)
         /\ pc = "assign" => /\ UNCHANGED <<attempt, testCases>>
                             /\ pc' = "invoke" \/ (pc' = "finish" /\ testCases = {})
                             /\ runErr' \in {runErr, OtherError, NoError}
         /\ pc # "assign" => UNCHANGED runErr
         /\ pc # "assign" /\ pc' = "invoke" => attempt' = attempt + 1
         /\ pc' # "invoke" => UNCHANGED attempt
<1> USE DEF result, output, conduct
<1>1. /\ UNCHANGED <<cfg, tests, runError, file, truthful, suiteVars>>
      /\ pc # "read" /\ pc' # "read" /\ pc # "invoke" /\ pc' # "assign"
      /\ pc = "assign" => /\ UNCHANGED <<attempt, testCases>>
                          /\ pc' = "invoke" \/ (pc' = "finish" /\ testCases = {})
                          /\ runErr' \in {runErr, OtherError, NoError}
      /\ pc # "assign" => UNCHANGED runErr
      /\ pc # "assign" /\ pc' = "invoke" => attempt' = attempt + 1
      /\ pc' # "invoke" => UNCHANGED attempt
  BY DEF Quiet, NoTests, StartLoop, UploadResults, Retry, StopRetrying, ExitOnSignal, PromiseFailure,
         SendMetadata, Exit
<1> QED
  BY <1>1 DEF recorded, errorRecorded, toRead

LEMMA InterruptedEffect ==
  ASSUME Interrupted
  PROVE  /\ pc = "invoke" /\ pc' \in {"read", "upload"}
         /\ UNCHANGED <<cfg, attempt, testCases, tests, runError, suiteVars>>
         /\ ~truthful'
         /\ file' = file \/ file'.kind = "garbage"
         /\ runErr'.kind # "none"
         /\ runErr'.kind = "exit" => runErr'.code = 4
<1> USE DEF result, output
<1>1. Untouched = file \/ Untouched.kind = "garbage"
  BY DEF Untouched, Written
<1>2. CASE RefusePaths
  <2>1. ~IsTruthful([kind |-> "exit", code |-> 4], Untouched)
    BY DEF IsTruthful, NoError
  <2> QED
    BY <1>1, <1>2, <2>1 DEF RefusePaths, RunnerEnds
<1>3. CASE Killed
  <2>1. PICK s \in Signals : RunnerEnds([kind |-> "signal", code |-> s], Untouched) /\ UNCHANGED suiteVars
    BY <1>3 DEF Killed
  <2>2. ~IsTruthful([kind |-> "signal", code |-> s], Untouched)
    BY DEF IsTruthful, NoError
  <2> QED
    BY <1>1, <2>1, <2>2 DEF RunnerEnds
<1>4. CASE NothingToRetry
  BY <1>4 DEF NothingToRetry, BuildCommandFails, OtherError
<1>5. CASE RunnerDoesNotStart /\ UNCHANGED suiteVars
  BY <1>1, <1>5 DEF RunnerDoesNotStart, OtherError
<1> QED
  BY <1>2, <1>3, <1>4, <1>5 DEF Interrupted

LEMMA RecordEffect ==
  ASSUME RecordReport, UNCHANGED suiteVars
  PROVE  /\ pc = "read" /\ pc' = "upload"
         /\ UNCHANGED <<cfg, attempt, testCases, file, runErr, truthful, suiteVars>>
         /\ tests' = recorded /\ recorded' = recorded
         /\ runError' = errorRecorded /\ errorRecorded' = errorRecorded
<1>1. /\ pc = "read" /\ pc' = "upload"
      /\ UNCHANGED <<cfg, attempt, testCases, file, runErr, truthful, suiteVars>>
      /\ tests' = recorded
      /\ runError' = errorRecorded
  BY DEF RecordReport, recorded, errorRecorded, toRead, conduct
<1> QED
  BY <1>1 DEF recorded, errorRecorded, toRead

-----------------------------------------------------------------------------
(***************************************************************************)
(* The counts of executions.                                               *)
(***************************************************************************)

LEMMA CountedInit == SuiteInit => SuiteTypeOK /\ RunsAreCounted
<1> SUFFICES ASSUME SuiteInit PROVE SuiteTypeOK /\ RunsAreCounted
  OBVIOUS
<1>1. cfg \in Config
  BY TestRunAssumption DEF SuiteInit, Init, TestRunAssumption
<1>2. cfg.maxRetries \in Nat
  BY <1>1 DEF Config
<1> QED
  BY <1>2 DEF SuiteInit, Init, SuiteTypeOK, RunsAreCounted, Unstarted

LEMMA CountedRan ==
  ASSUME TypeOK, SuiteTypeOK, RunsAreCounted,
         NEW fault \in [filesRead -> {"no"} \cup scenario.faults],
         NEW entry \in [Executed(fault) -> Entries(program)], Ran(fault, entry)
  PROVE  SuiteTypeOK' /\ RunsAreCounted'
<1>1. /\ scenario' = scenario /\ cfg' = cfg /\ attempt' = attempt
      /\ suite' = suite /\ program' = program /\ pc = "invoke" /\ pc' = "read"
  BY DEF Ran, suite, program
<1>2. attempt \in Nat /\ cfg.maxRetries \in Nat /\ attempt <= cfg.maxRetries
  BY DEF TypeOK, Config
<1>3. program \in Programs /\ scenario.faults \subseteq {"unloadable", "crashed"}
  BY ScenarioType DEF SuiteTypeOK
<1>4. DOMAIN entry = Executed(fault)
  OBVIOUS
<1>5. ASSUME NEW t \in suite
      PROVE  /\ last'[t] \in Reported \cup {Absent}
             /\ runs'[t] \in Nat /\ runs'[t] <= attempt + 1
             /\ last'[t] = Absent <=> runs'[t] = 0
  <2>1. runs[t] \in Nat /\ runs[t] <= attempt /\ (last[t] = Absent <=> runs[t] = 0)
    BY <1>1 DEF SuiteTypeOK, RunsAreCounted
  <2>2. CASE t \in DOMAIN entry
    <3>1. entry[t].happened \in {"passed", "failed", "skipped"}
      BY <1>3, <1>4, <2>2, HappenedType
    <3>2. last'[t] = entry[t].happened /\ runs'[t] = runs[t] + 1
      BY <2>2 DEF Ran
    <3> QED
      BY <1>2, <2>1, <3>1, <3>2 DEF Reported, Absent
  <2>3. CASE t \notin DOMAIN entry
    <3>1. last'[t] = last[t] /\ runs'[t] = runs[t] /\ last[t] \in Reported \cup {Absent}
      BY <2>3 DEF Ran, SuiteTypeOK
    <3> QED
      BY <1>2, <2>1, <3>1
  <2> QED
    BY <2>2, <2>3
<1>6. ASSUME NEW f \in FilesOf(suite)
      PROVE  broken'[f] \in {"no", "unloadable", "crashed"}
  BY <1>3 DEF Ran, SuiteTypeOK
<1>7. /\ last' \in [suite -> Reported \cup {Absent}]
      /\ runs' \in [suite -> 0 .. (cfg.maxRetries + 1)]
      /\ broken' \in [FilesOf(suite) -> {"no", "unloadable", "crashed"}]
  <2>1. /\ DOMAIN last' = suite /\ last' = [t \in suite |-> last'[t]]
        /\ DOMAIN runs' = suite /\ runs' = [t \in suite |-> runs'[t]]
        /\ DOMAIN broken' = FilesOf(suite) /\ broken' = [f \in FilesOf(suite) |-> broken'[f]]
    BY DEF Ran
  <2>2. \A t \in suite : runs'[t] \in 0 .. (cfg.maxRetries + 1)
    BY <1>2, <1>5
  <2> QED
    BY <1>5, <1>6, <2>1, <2>2
<1>8. SuiteTypeOK'
  BY <1>1, <1>7 DEF SuiteTypeOK, FilesOf
<1> QED
  BY <1>1, <1>5, <1>8 DEF RunsAreCounted, Unstarted

LEMMA CountedStep ==
  ASSUME TypeOK, SuiteTypeOK, RunsAreCounted, [SuiteNext]_jobVars
  PROVE  SuiteTypeOK' /\ RunsAreCounted'
<1>1. attempt \in Nat /\ \A t \in suite : runs[t] \in Nat
  BY DEF TypeOK, SuiteTypeOK
<1>2. CASE Quiet
  <2>1. UNCHANGED <<cfg, tests, scenario, last, runs, broken, suite, program>>
    BY <1>2, QuietEffect DEF suiteVars, suite, program
  <2>2. Unstarted' => Unstarted /\ testCases' = testCases
    BY <1>1, <1>2, QuietEffect DEF Unstarted
  <2>3. ASSUME NEW t \in suite
        PROVE  runs[t] <= IF pc' \in {"assign", "invoke"} THEN attempt' ELSE attempt' + 1
    <3>1. runs[t] \in Nat /\ runs[t] <= (IF pc \in {"assign", "invoke"} THEN attempt ELSE attempt + 1)
      BY <1>1 DEF RunsAreCounted
    <3> QED
      BY <1>1, <1>2, <3>1, QuietEffect
  <2> QED
    BY <2>1, <2>2, <2>3 DEF SuiteTypeOK, RunsAreCounted
<1>3. CASE Interrupted
  <2>1. /\ UNCHANGED <<cfg, scenario, last, runs, broken, suite, program, attempt>>
        /\ pc = "invoke" /\ pc' \in {"read", "upload"}
    BY <1>3, InterruptedEffect DEF suiteVars, suite, program
  <2> QED
    BY <1>1, <2>1 DEF SuiteTypeOK, RunsAreCounted, Unstarted
<1>4. CASE RecordReport /\ UNCHANGED suiteVars
  <2>1. /\ UNCHANGED <<cfg, scenario, last, runs, broken, suite, program, attempt>>
        /\ pc = "read" /\ pc' = "upload"
    BY <1>4, RecordEffect DEF suiteVars, suite, program
  <2> QED
    BY <1>1, <2>1 DEF SuiteTypeOK, RunsAreCounted, Unstarted
<1>5. CASE UNCHANGED jobVars
  BY <1>5 DEF jobVars, vars, suiteVars, SuiteTypeOK, RunsAreCounted, Unstarted, suite, program
<1> QED
  BY <1>2, <1>3, <1>4, <1>5, StepsOfAJob, CountedRan

-----------------------------------------------------------------------------
(***************************************************************************)
(* The record of a truthful job.                                           *)
(***************************************************************************)

LEMMA KindOfRunner ==
  ASSUME scenario \in Scenarios, cfg.runner \in Kinds(program)
  PROVE  /\ program = "vitest" <=> cfg.runner = "vitest"
         /\ program = "cypress" <=> cfg.runner = "unread"
         /\ program = "pytestjson" <=> cfg.runner = "pytestjson"
         /\ program \in {"cucumber", "custom", "pytestjunit"} <=> cfg.runner \in TestsOnly
         /\ cfg.runner = "pytestjunit" => program = "pytestjunit"
BY ScenarioType DEF Kinds, Programs, TestsOnly

\* A truthful run of a suite leaves a file that is going to be read.
LEMMA TruthfulIsRead ==
  ASSUME SuiteTypeOK, RunsAreCounted, program # "cypress",
         NEW fault, NEW entry, Ran(fault, entry), truthful'
  PROVE  /\ truthful /\ toRead'
         /\ file'.says = [results |-> ResultsRead(fault, entry), outside |-> ErrorsRead(fault)]
<1>1. truthful /\ IsTruthful(EndOf(fault, entry), FileWritten(fault, entry))
  BY DEF Ran
<1>2. file'.kind = "readable" /\ runErr' \in {NoError, [kind |-> "exit", code |-> 1]}
  BY <1>1 DEF Ran, IsTruthful
<1>3. cfg' = cfg /\ cfg.runner # "unread" /\ pc' = "read"
  BY KindOfRunner DEF Ran, SuiteTypeOK, RunsAreCounted
<1>4. ReadsFile'
  BY <1>2, <1>3 DEF ReadsFile, NoError
<1>5. file' = Written("readable", [results |-> ResultsRead(fault, entry), outside |-> ErrorsRead(fault)])
  BY <1>2 DEF Ran, FileWritten, Written
<1> QED
  BY <1>1, <1>2, <1>3, <1>4, <1>5 DEF toRead, Written

LEMMA AllRanFirstRan ==
  ASSUME TypeOK, AskedForFailures, SuiteTypeOK, RunsAreCounted, AllRanFirst,
         NEW fault \in [filesRead -> {"no"} \cup scenario.faults],
         NEW entry \in [Executed(fault) -> Entries(program)], Ran(fault, entry)
  PROVE  AllRanFirst'
<1>1. program' = program /\ suite' = suite /\ cfg' = cfg /\ attempt' = attempt /\ runError' = runError
  BY DEF Ran, program, suite
<1> SUFFICES ASSUME program = "vitest", truthful', ~errorRecorded'
             PROVE  \A t \in suite : runs'[t] > 0
  BY <1>1 DEF AllRanFirst
<1>2. truthful /\ toRead' /\ file'.says.outside = ErrorsRead(fault)
  <2>1. /\ truthful /\ toRead'
        /\ file'.says = [results |-> ResultsRead(fault, entry), outside |-> ErrorsRead(fault)]
    BY TruthfulIsRead
  <2> QED
    BY <2>1
<1>3. \A t \in suite : /\ runs[t] \in Nat
                       /\ runs'[t] = IF t \in Executed(fault) THEN runs[t] + 1 ELSE runs[t]
  BY DEF Ran, SuiteTypeOK
<1>4. CASE attempt > 0
  <2>1. ~errorRecorded /\ ~Unstarted
    BY <1>4 DEF Ran, AskedForFailures, errorRecorded, toRead, Unstarted
  <2>2. \A t \in suite : runs[t] > 0
    BY <1>2, <2>1 DEF AllRanFirst
  <2> QED
    BY <1>3, <2>2
<1>5. CASE ~(attempt > 0)
  <2>1. attempt = 0
    BY <1>5 DEF TypeOK
  <2>2. selected = suite /\ filesRead = FilesOf(suite)
    BY <2>1 DEF selected, filesRead
  <2>3. ~ErrorsRead(fault)
    <3>1. cfg.runner = "vitest" /\ ~FailedOutside(file)'
      BY <1>2, KindOfRunner DEF errorRecorded, SuiteTypeOK, RunsAreCounted
    <3> QED
      BY <1>1, <1>2, <3>1 DEF FailedOutside, TestsOnly
  <2>4. \A f \in filesRead : fault[f] # "unloadable"
    BY <2>3 DEF ErrorsRead
  <2>5. \A t \in suite : t \in Executed(fault)
    BY <2>2, <2>4 DEF Executed, FilesOf
  <2> QED
    BY <1>3, <2>5
<1> QED
  BY <1>4, <1>5

LEMMA AllRanFirstStep ==
  ASSUME TypeOK, AskedForFailures, SuiteTypeOK, RunsAreCounted, AllRanFirst, [SuiteNext]_jobVars
  PROVE  AllRanFirst'
<1>1. CASE Quiet
  <2>1. /\ UNCHANGED <<truthful, last, runs, suite, program>>
        /\ errorRecorded' <=> errorRecorded
    BY <1>1, QuietEffect DEF suiteVars, suite, program
  <2>2. ~Unstarted' /\ Unstarted => suite = {}
    BY <1>1, QuietEffect DEF Unstarted, RunsAreCounted
  <2> QED
    BY <2>1, <2>2 DEF AllRanFirst
<1>2. CASE Interrupted
  BY <1>2, InterruptedEffect DEF AllRanFirst
<1>3. CASE RecordReport /\ UNCHANGED suiteVars
  <2>1. /\ UNCHANGED <<truthful, last, runs, suite, program>>
        /\ errorRecorded' <=> errorRecorded
        /\ pc = "read"
    BY <1>3, RecordEffect DEF suiteVars, suite, program
  <2> QED
    BY <2>1 DEF AllRanFirst, Unstarted
<1>4. CASE UNCHANGED jobVars
  <2>1. errorRecorded' <=> errorRecorded
    BY <1>4 DEF jobVars, vars, errorRecorded, toRead, ReadsFile, FailedOutside, CollectionError
  <2> QED
    BY <1>4, <2>1 DEF jobVars, vars, suiteVars, AllRanFirst, Unstarted, suite, program
<1> QED
  BY <1>1, <1>2, <1>3, <1>4, StepsOfAJob, AllRanFirstRan

\* What recording a file makes of one test.
LEMMA RecordedOne ==
  ASSUME TypeOK, NEW t \in Tests
  PROVE  recorded[t] = IF toRead /\ recordable[t] # Absent
                         THEN RecordOne(tests[t], recordable[t], t \in mutedLookup)
                         ELSE tests[t]
<1>1. DOMAIN tests = Tests
  BY DEF TypeOK
<1> QED
  BY <1>1 DEF recorded, RecordAll

\* What a run of the suite leaves of a test of the suite to be recorded.
LEMMA RecordableAfterRun ==
  ASSUME TypeOK, SuiteTypeOK, RunsAreCounted, program # "cypress",
         NEW fault, NEW entry \in [Executed(fault) -> Entries(program)], Ran(fault, entry),
         file'.says = [results |-> ResultsRead(fault, entry), outside |-> ErrorsRead(fault)],
         NEW t \in suite
  PROVE  /\ t \in Executed(fault) =>
              recordable'[t] = IF FilteredOut(t)' THEN Absent ELSE entry[t].happened
         /\ t \notin Executed(fault) => recordable'[t] \in {Absent, "skipped"}
         /\ t \notin Executed(fault) /\ program # "jest" => recordable'[t] = Absent
<1>1. t \in Tests /\ t \in suite
  BY ScenarioType DEF SuiteTypeOK
<1>2. recordable'[t] = IF FilteredOut(t)' THEN Absent ELSE ResultsRead(fault, entry)[t]
  BY <1>1 DEF recordable
<1>3. /\ t \in Executed(fault) => ResultsRead(fault, entry)[t] = entry[t].happened
      /\ t \notin Executed(fault) =>
           ResultsRead(fault, entry)[t] = IF t \in FilteredTests(fault) THEN "skipped" ELSE Absent
  BY ReadOfTheSuite DEF SuiteTypeOK
<1>4. ASSUME t \notin Executed(fault), t \in FilteredTests(fault), program # "jest"
      PROVE  FilteredOut(t)'
  <2>1. program = "vitest" /\ t \notin selected
    BY <1>4 DEF FilteredTests, PatternPrograms
  <2>2. cfg' = cfg /\ cfg.runner = "vitest" /\ attempt' = attempt /\ testCases' = testCases
    BY <2>1, KindOfRunner DEF Ran, SuiteTypeOK, RunsAreCounted
  <2>3. attempt # 0
    BY <1>1, <2>1 DEF selected
  <2>4. t \notin testCases
    BY <1>1, <2>1, AskedIsSelected DEF SuiteTypeOK
  <2>5. attempt > 0
    BY <2>3 DEF TypeOK
  <2> QED
    BY <1>3, <1>4, <2>2, <2>4, <2>5 DEF FilteredOut
<1> QED
  BY <1>2, <1>3, <1>4

LEMMA RecordFollowsRan ==
  ASSUME TypeOK, AskedForFailures, SuiteTypeOK, RunsAreCounted, AllRanFirst, RecordFollowsRuns,
         NEW fault \in [filesRead -> {"no"} \cup scenario.faults],
         NEW entry \in [Executed(fault) -> Entries(program)], Ran(fault, entry)
  PROVE  RecordFollowsRuns'
<1>1. program' = program /\ suite' = suite /\ cfg' = cfg /\ attempt' = attempt /\ tests' = tests
  BY DEF Ran, program, suite
<1> SUFFICES ASSUME truthful', program \notin {"jest", "cypress"}, NEW t \in suite
             PROVE  /\ recorded'[t].status = last'[t]
                    /\ program # "vitest" \/ last'[t] # "skipped" => recorded'[t].executions = runs'[t]
  BY <1>1 DEF RecordFollowsRuns
<1>2. /\ truthful /\ toRead'
      /\ file'.says = [results |-> ResultsRead(fault, entry), outside |-> ErrorsRead(fault)]
  BY TruthfulIsRead
<1>3. t \in Tests /\ program \in Programs
  BY ScenarioType DEF SuiteTypeOK
<1>4. /\ tests[t].status = last[t]
      /\ program # "vitest" \/ last[t] # "skipped" => tests[t].executions = runs[t]
      /\ runs[t] \in Nat
  <2>1. recorded = tests
    BY DEF Ran, recorded, toRead
  <2> QED
    BY <1>2, <2>1 DEF RecordFollowsRuns, SuiteTypeOK
<1>5. recorded'[t] = IF recordable'[t] # Absent
                       THEN RecordOne(tests[t], recordable'[t], (t \in mutedLookup)')
                       ELSE tests[t]
  BY <1>1, <1>2, <1>3 DEF recorded, RecordAll, TypeOK
<1>6. CASE t \notin Executed(fault)
  <2>1. recordable'[t] = Absent
    BY <1>2, <1>6, RecordableAfterRun
  <2>2. last'[t] = last[t] /\ runs'[t] = runs[t]
    BY <1>6 DEF Ran
  <2> QED
    BY <1>4, <1>5, <2>1, <2>2
<1>7. CASE t \in Executed(fault)
  <2>1. entry[t].happened \in {"passed", "failed", "skipped"}
    BY <1>3, <1>7, HappenedType
  <2>2. last'[t] = entry[t].happened /\ runs'[t] = runs[t] + 1
    BY <1>7 DEF Ran
  <2>3. recordable'[t] = IF FilteredOut(t)' THEN Absent ELSE entry[t].happened
    BY <1>2, <1>7, RecordableAfterRun
  \* Only vitest runs a test again without a record of it, and only a skipped one.
  <2>4. CASE FilteredOut(t)'
    <3>1. program = "vitest" /\ attempt > 0 /\ entry[t].happened = "skipped"
      <4>1. cfg.runner = "vitest" /\ attempt > 0 /\ file'.says.results[t] = "skipped"
        BY <1>1, <2>4 DEF FilteredOut
      <4>2. ResultsRead(fault, entry)[t] = entry[t].happened
        BY <1>7, ReadOfTheSuite DEF SuiteTypeOK
      <4> QED
        BY <1>2, <4>1, <4>2, KindOfRunner DEF SuiteTypeOK, RunsAreCounted
    <3>2. runs[t] > 0
      <4>1. ~errorRecorded /\ ~Unstarted
        BY <3>1 DEF Ran, AskedForFailures, errorRecorded, toRead, Unstarted
      <4> QED
        BY <1>2, <3>1, <4>1 DEF AllRanFirst
    <3>3. last[t] = "skipped"
      BY <1>7, <3>1, <3>2 DEF Ran, SkipsAlike, PatternPrograms
    <3> QED
      BY <1>4, <1>5, <2>2, <2>3, <2>4, <3>1, <3>3
  <2>5. CASE ~FilteredOut(t)'
    <3>1. recordable'[t] = entry[t].happened /\ recordable'[t] # Absent
      BY <2>1, <2>3, <2>5 DEF Absent
    <3>2. recorded'[t].status = entry[t].happened /\ recorded'[t].executions = tests[t].executions + 1
      BY <1>5, <3>1 DEF RecordOne
    <3>3. program = "vitest" /\ entry[t].happened # "skipped" => last[t] # "skipped"
      <4> SUFFICES ASSUME program = "vitest", last[t] = "skipped"
                   PROVE  entry[t].happened = "skipped"
        OBVIOUS
      <4>1. runs[t] > 0
        BY <1>4 DEF RunsAreCounted, Absent
      <4> QED
        BY <1>7, <4>1 DEF Ran, SkipsAlike, PatternPrograms
    <3> QED
      BY <1>4, <2>2, <3>2, <3>3
  <2> QED
    BY <2>4, <2>5
<1> QED
  BY <1>6, <1>7

LEMMA RecordFollowsStep ==
  ASSUME TypeOK, AskedForFailures, SuiteTypeOK, RunsAreCounted, AllRanFirst, RecordFollowsRuns,
         [SuiteNext]_jobVars
  PROVE  RecordFollowsRuns'
<1>1. CASE Quiet
  <2>1. UNCHANGED <<truthful, last, runs, suite, program, recorded>>
    BY <1>1, QuietEffect DEF suiteVars, suite, program
  <2> QED
    BY <2>1 DEF RecordFollowsRuns
<1>2. CASE Interrupted
  BY <1>2, InterruptedEffect DEF RecordFollowsRuns
<1>3. CASE RecordReport /\ UNCHANGED suiteVars
  <2>1. UNCHANGED <<truthful, last, runs, suite, program, recorded>>
    BY <1>3, RecordEffect DEF suiteVars, suite, program
  <2> QED
    BY <2>1 DEF RecordFollowsRuns
<1>4. CASE UNCHANGED jobVars
  <2>1. recorded' = recorded
    BY <1>4 DEF jobVars, vars, recorded, toRead, ReadsFile, recordable, FilteredOut, mutedLookup
  <2> QED
    BY <1>4, <2>1 DEF jobVars, suiteVars, vars, RecordFollowsRuns, suite, program
<1> QED
  BY <1>1, <1>2, <1>3, <1>4, StepsOfAJob, RecordFollowsRan

-----------------------------------------------------------------------------
(***************************************************************************)
(* The failures of a job that can notice them.                             *)
(***************************************************************************)

\* Where a retry selects what it is asked for, what failed is read again, if not run again.
LEMMA FailingIsAsked ==
  ASSUME TypeOK, AskedForFailures, SuiteTypeOK, RunsAreCounted, FailuresAreOnRecord, Noticeable,
         pc = "invoke", attempt > 0 => ~RefusesPaths(program, suite, testCases), NEW t \in Failing
  PROVE  /\ attempt > 0 /\ t \in selected /\ t.file \in filesRead
         /\ program # "cypress" /\ t \in failedTests
<1>1. t \in suite /\ last[t] = "failed" /\ last[t] # Absent
  BY DEF Failing, Absent
<1>2. attempt \in Nat /\ runs[t] \in Nat /\ runs[t] # 0 /\ runs[t] <= attempt
  BY <1>1 DEF TypeOK, SuiteTypeOK, RunsAreCounted
<1>3. attempt > 0
  BY <1>2
<1>4. program \notin {"custom", "cypress"}
  BY <1>2 DEF RunsAreCounted, TypeOK
<1>5. t \in failedTests
  BY <1>4 DEF FailuresAreOnRecord, recorded, toRead, failedTests
<1>6. t \in testCases
  BY <1>5 DEF AskedForFailures
<1>7. t \in Selected(program, suite, {t}) \/ RefusesPaths(program, suite, {t})
  BY <1>1, <1>4 DEF Noticeable, RetrySelects, program, suite
<1>8. t \in Selected(program, suite, testCases)
  BY <1>3, <1>6, <1>7, SelectedGrows, RefusalGrows
<1>9. t \in selected
  BY <1>3, <1>8 DEF selected
<1> QED
  BY <1>3, <1>4, <1>5, <1>6, <1>9, SelectedIsRead

\* Nothing is broken when a runner is invoked.
LEMMA NothingBroken ==
  ASSUME AskedForFailures, FailuresAreOnRecord, Noticeable, pc = "invoke"
  PROVE  Broken = {} /\ ~runError
BY DEF AskedForFailures, FailuresAreOnRecord, errorRecorded, toRead

LEMMA OnRecordInit == SuiteInit => FailuresAreOnRecord
<1> SUFFICES ASSUME SuiteInit PROVE FailuresAreOnRecord
  OBVIOUS
<1>1. Failing = {} /\ Broken = {}
  BY DEF SuiteInit, Failing, Broken, Absent
<1>2. \A t \in Tests : ~tests[t].muted
  BY DEF SuiteInit, Init, NewRunResult, NoResult
<1> QED
  BY <1>1, <1>2 DEF SuiteInit, Init, FailuresAreOnRecord, FailuresAreNoticed, Exited, NoError

\* A failure on record stays there whatever an interrupted attempt has left to be read.
LEMMA OnRecordInterrupted ==
  ASSUME TypeOK, AskedForFailures, SuiteTypeOK, RunsAreCounted, FailuresAreOnRecord, Interrupted
  PROVE  FailuresAreOnRecord'
<1>1. /\ pc = "invoke" /\ pc' \in {"read", "upload"}
      /\ UNCHANGED <<cfg, attempt, testCases, tests, runError, suiteVars>>
      /\ file' = file \/ file'.kind = "garbage"
      /\ runErr'.kind # "none"
      /\ runErr'.kind = "exit" => runErr'.code = 4
  BY InterruptedEffect
<1>2. /\ Failing' = Failing /\ Broken' = Broken /\ program' = program /\ suite' = suite
      /\ mutedLookup' = mutedLookup /\ Noticeable' = Noticeable
  BY <1>1 DEF suiteVars, Failing, Broken, program, suite, mutedLookup, Noticeable
<1> SUFFICES ASSUME Noticeable PROVE FailuresAreOnRecord'
  BY <1>2 DEF FailuresAreOnRecord
<1>3. recorded = tests
  BY <1>1 DEF recorded, toRead
<1>4. program # "cypress" /\ file'.kind = "readable" =>
        \A t \in Failing : file'.says.results[t] \in {"failed", Absent}
  BY <1>1 DEF FailuresAreOnRecord
<1>5. ASSUME NEW t \in Failing, program # "cypress"
      PROVE  t \in FailedTests(recorded')
  <2>1. t \in FailedTests(tests) /\ t \in Tests
    BY <1>3, <1>5, ScenarioType DEF FailuresAreOnRecord, Failing, SuiteTypeOK
  <2>2. tests[t].status = "failed" /\ ~tests[t].muted
    BY <2>1 DEF FailedTests, WithStatus, MutedTests
  <2>3. toRead' => recordable'[t] \in {"failed", Absent}
    BY <1>4, <1>5, <2>1 DEF toRead, recordable
  <2>4. t \notin mutedLookup'
    BY <1>2 DEF Failing
  <2>5. DOMAIN tests = Tests /\ tests' = tests
    BY <1>1 DEF TypeOK
  <2>6. /\ DOMAIN recorded' = Tests
        /\ recorded'[t] = IF toRead' /\ recordable'[t] # Absent
                            THEN RecordOne(tests[t], recordable'[t], t \in mutedLookup')
                            ELSE tests[t]
    BY <2>1, <2>5 DEF recorded, RecordAll
  <2>7. recorded'[t].status = "failed" /\ ~recorded'[t].muted
    <3>1. CASE toRead' /\ recordable'[t] # Absent
      <4>1. recorded'[t] = RecordOne(tests[t], "failed", t \in mutedLookup')
        BY <2>3, <2>6, <3>1
      <4>2. RecordOne(tests[t], "failed", t \in mutedLookup').status = "failed"
        BY DEF RecordOne
      <4>3. RecordOne(tests[t], "failed", t \in mutedLookup').muted = (tests[t].muted \/ t \in mutedLookup')
        BY DEF RecordOne
      <4> QED
        BY <2>2, <2>4, <4>1, <4>2, <4>3
    <3>2. CASE ~(toRead' /\ recordable'[t] # Absent)
      BY <2>2, <2>6, <3>2
    <3> QED
      BY <3>1, <3>2
  <2> QED
    BY <2>1, <2>6, <2>7 DEF FailedTests, WithStatus, MutedTests
<1>6. Broken' = {}
  BY <1>1, <1>2, NothingBroken
<1>7. \A t \in Tests : tests'[t].muted => t \in mutedLookup'
  BY <1>1, <1>2 DEF FailuresAreOnRecord
<1>8. FailuresAreNoticed'
  BY <1>1 DEF FailuresAreNoticed, Exited
<1>9. Failing' \subseteq FailedTests(recorded)' \/ program' = "cypress"
  BY <1>2, <1>5
<1>10. program' = "cypress" => tests' = NewRunResult(Tests)
  BY <1>1, <1>2 DEF FailuresAreOnRecord
<1> QED
  BY <1>1, <1>2, <1>4, <1>6, <1>7, <1>8, <1>9, <1>10 DEF FailuresAreOnRecord

\* What a program that runs its suite leaves behind, in a job that can notice failures.
LEMMA FileAfterRun ==
  ASSUME SuiteTypeOK, ReportTells(scenario), program # "cypress",
         NEW fault \in [filesRead -> {"no"} \cup scenario.faults], NEW entry, Ran(fault, entry)
  PROVE  /\ file'.kind = "readable"
         /\ file'.says = [results |-> ResultsRead(fault, entry), outside |-> ErrorsRead(fault)]
<1>1. ~(program = "cucumber" /\ ErrorsRead(fault))
  BY DEF ReportTells, ErrorsRead, program
<1> QED
  BY <1>1 DEF Ran, FileWritten, Written

LEMMA OnRecordRan ==
  ASSUME TypeOK, AskedForFailures, SuiteTypeOK, RunsAreCounted, FailuresAreOnRecord,
         NEW fault \in [filesRead -> {"no"} \cup scenario.faults],
         NEW entry \in [Executed(fault) -> Entries(program)], Ran(fault, entry)
  PROVE  FailuresAreOnRecord'
<1>1. /\ program' = program /\ suite' = suite /\ scenario' = scenario /\ cfg' = cfg
      /\ tests' = tests /\ runError' = runError /\ pc = "invoke" /\ pc' = "read"
      /\ mutedLookup' = mutedLookup /\ Noticeable' = Noticeable
  BY DEF Ran, program, suite, mutedLookup, Noticeable
<1> SUFFICES ASSUME Noticeable PROVE FailuresAreOnRecord'
  BY <1>1 DEF FailuresAreOnRecord
<1>2. Broken = {} /\ ~runError
  BY <1>1, NothingBroken
<1>3. program \in Programs /\ suite \subseteq Tests /\ scenario.faults \subseteq {"unloadable", "crashed"}
  BY ScenarioType DEF SuiteTypeOK
<1>4. program # "cypress" =>
        /\ file'.kind = "readable"
        /\ file'.says = [results |-> ResultsRead(fault, entry), outside |-> ErrorsRead(fault)]
  BY FileAfterRun DEF Noticeable
<1>5. ASSUME program # "cypress", runErr' = [kind |-> "exit", code |-> 1]
      PROVE  toRead'
  <2>1. cfg.runner # "unread"
    BY <1>5, KindOfRunner DEF SuiteTypeOK, RunsAreCounted
  <2> QED
    BY <1>1, <1>4, <1>5, <2>1 DEF toRead, ReadsFile
\* A test that is executed and fails, and one that is not executed at all.
<1>6. ASSUME NEW t \in Failing', t \in Executed(fault)
      PROVE  entry[t].happened = "failed" /\ runErr' = [kind |-> "exit", code |-> 1]
  <2>1. entry[t].happened = "failed"
    BY <1>1, <1>6 DEF Failing, Ran
  <2>2. ~(program \in PytestPrograms /\ ErrorsRead(fault))
    <3> SUFFICES ASSUME program \in PytestPrograms, ErrorsRead(fault) PROVE FALSE
      OBVIOUS
    <3>1. \E f \in filesRead : fault[f] = "unloadable"
      BY DEF ErrorsRead, PytestPrograms
    <3> QED
      BY <1>6, <3>1 DEF Executed, StopsOnLoadError
  <2> QED
    BY <1>6, <2>1, <2>2 DEF Ran, EndOf
<1>7. ASSUME NEW t \in Failing', t \notin Executed(fault)
      PROVE  /\ t \in failedTests /\ program # "cypress" /\ t \notin FilteredTests(fault)
             /\ runErr'.kind # "none"
  <2>1. t \in Failing
    BY <1>1, <1>7 DEF Failing, Ran
  <2>2. /\ t \in selected /\ t.file \in filesRead
        /\ program # "cypress" /\ t \in failedTests
    BY <1>1, <2>1, FailingIsAsked DEF Ran
  <2>3. \E f \in filesRead : fault[f] = "unloadable"
    BY <1>7, <2>2 DEF Executed
  <2>4. EndOf(fault, entry).kind # "none"
    BY <2>3 DEF EndOf
  <2> QED
    BY <2>2, <2>4 DEF FilteredTests, Ran
<1>8. ASSUME NEW t \in Failing', program # "cypress"
      PROVE  t \in FailedTests(recorded') /\ file'.says.results[t] \in {"failed", Absent}
  <2>1. t \in suite /\ t \in Tests /\ t \notin mutedLookup' /\ t \notin mutedLookup
    BY <1>1, <1>3 DEF Failing
  <2>2. DOMAIN tests = Tests /\ ~tests[t].muted
    BY <2>1 DEF TypeOK, FailuresAreOnRecord
  <2>3. /\ DOMAIN recorded' = Tests
        /\ recorded'[t] = IF toRead' /\ recordable'[t] # Absent
                            THEN RecordOne(tests[t], recordable'[t], t \in mutedLookup')
                            ELSE tests[t]
    BY <1>1, <2>1, <2>2 DEF recorded, RecordAll
  <2>4. file'.says.results[t] = ResultsRead(fault, entry)[t]
    BY <1>4, <1>8
  <2>5. recordable'[t] = IF FilteredOut(t)' THEN Absent ELSE file'.says.results[t]
    BY <2>1 DEF recordable
  <2>6. CASE t \in Executed(fault)
    <3>1. file'.says.results[t] = "failed" /\ toRead'
      BY <1>5, <1>6, <1>8, <2>1, <2>4, <2>6, ReadOfTheSuite DEF SuiteTypeOK
    <3>2. recordable'[t] = "failed"
      BY <2>5, <3>1 DEF FilteredOut
    <3>3. recorded'[t] = RecordOne(tests[t], "failed", t \in mutedLookup')
      BY <2>3, <3>1, <3>2 DEF Absent
    <3>4. RecordOne(tests[t], "failed", t \in mutedLookup').status = "failed"
      BY DEF RecordOne
    <3>5. RecordOne(tests[t], "failed", t \in mutedLookup').muted = (tests[t].muted \/ t \in mutedLookup')
      BY DEF RecordOne
    <3>6. recorded'[t].status = "failed" /\ ~recorded'[t].muted
      BY <2>1, <2>2, <3>3, <3>4, <3>5
    <3> QED
      BY <2>1, <2>3, <3>1, <3>6 DEF FailedTests, WithStatus, MutedTests
  <2>7. CASE t \notin Executed(fault)
    <3>1. file'.says.results[t] = Absent /\ t \in FailedTests(tests)
      BY <1>7, <1>8, <2>1, <2>4, <2>7, ReadOfTheSuite DEF SuiteTypeOK, failedTests
    <3>2. recorded'[t] = tests[t]
      BY <2>3, <2>5, <3>1
    <3> QED
      BY <2>1, <2>3, <3>1, <3>2 DEF FailedTests, WithStatus, MutedTests
  <2> QED
    BY <2>6, <2>7
\* A file that breaks.
<1>9. ASSUME Broken' # {}
      PROVE  errorRecorded' /\ runErr'.kind # "none"
  <2>1. PICK f \in filesRead : fault[f] # "no"
    BY <1>1, <1>2, <1>9 DEF Broken, Ran
  <2>2. fault[f] \in scenario.faults
    BY <2>1
  <2>3. program \notin {"custom", "cypress", "cucumber", "pytestjunit"}
    BY <2>2 DEF Noticeable, ReportTells, program
  <2>4. ErrorsRead(fault)
    BY <1>3, <2>1, <2>2 DEF Noticeable, ReportTells, ErrorsRead, program
  <2>5. cfg.runner \notin TestsOnly /\ (cfg.runner = "pytestjson" <=> program = "pytestjson")
    BY <2>3, KindOfRunner DEF SuiteTypeOK, RunsAreCounted
  <2>6. CASE program = "pytestjson"
    <3>1. runErr' = [kind |-> "exit", code |-> 2]
      BY <2>4, <2>6 DEF Ran, EndOf, PytestPrograms
    <3> QED
      BY <1>1, <2>5, <2>6, <3>1 DEF errorRecorded, CollectionError
  <2>7. CASE program # "pytestjson"
    <3>1. runErr' = [kind |-> "exit", code |-> 1]
      BY <2>1, <2>3, <2>7 DEF Ran, EndOf, PytestPrograms
    <3>2. toRead' /\ file'.says.outside = ErrorsRead(fault)
      BY <1>4, <1>5, <2>3, <3>1
    <3>3. FailedOutside(file)'
      BY <1>1, <2>4, <2>5, <3>2 DEF FailedOutside, TestsOnly
    <3> QED
      BY <3>1, <3>2, <3>3 DEF errorRecorded
  <2> QED
    BY <2>6, <2>7
<1>10. runErr'.kind = "exit" => runErr'.code # 0
  BY DEF Ran, EndOf, NoError
<1>11. Failing' # {} => runErr'.kind # "none"
  BY <1>6, <1>7
<1>12. FailuresAreNoticed'
  BY <1>1 DEF FailuresAreNoticed, Exited
<1>13. \A t \in Tests : tests'[t].muted => t \in mutedLookup'
  BY <1>1 DEF FailuresAreOnRecord
<1>14. program' = "cypress" => tests' = NewRunResult(Tests)
  BY <1>1 DEF FailuresAreOnRecord
<1>15. program' # "cypress" => Failing' \subseteq FailedTests(recorded)'
  BY <1>1, <1>8
<1> QED
  BY <1>1, <1>8, <1>9, <1>10, <1>11, <1>12, <1>13, <1>14, <1>15 DEF FailuresAreOnRecord

LEMMA OnRecordRead ==
  ASSUME TypeOK, SuiteTypeOK, RunsAreCounted, FailuresAreOnRecord, RecordReport, UNCHANGED suiteVars
  PROVE  FailuresAreOnRecord'
<1>1. /\ pc = "read" /\ pc' = "upload"
      /\ UNCHANGED <<cfg, attempt, testCases, file, runErr, truthful, suiteVars>>
      /\ tests' = recorded /\ recorded' = recorded
      /\ (errorRecorded' <=> errorRecorded)
  BY RecordEffect
<1>2. /\ Failing' = Failing /\ Broken' = Broken /\ program' = program /\ suite' = suite
      /\ mutedLookup' = mutedLookup /\ Noticeable' = Noticeable
  BY <1>1 DEF suiteVars, Failing, Broken, program, suite, mutedLookup, Noticeable
<1> SUFFICES ASSUME Noticeable PROVE FailuresAreOnRecord'
  BY <1>2 DEF FailuresAreOnRecord
<1>3. program = "cypress" => recorded = tests
  BY KindOfRunner DEF recorded, toRead, ReadsFile, SuiteTypeOK, RunsAreCounted
<1>4. ASSUME NEW t \in Tests, recorded[t].muted
      PROVE  t \in mutedLookup
  <2>1. tests[t].muted => t \in mutedLookup
    BY DEF FailuresAreOnRecord
  <2>2. CASE toRead /\ recordable[t] # Absent
    <3>1. recorded[t].muted = (tests[t].muted \/ t \in mutedLookup)
      <4>1. recorded[t] = RecordOne(tests[t], recordable[t], t \in mutedLookup)
        BY <2>2, RecordedOne
      <4>2. RecordOne(tests[t], recordable[t], t \in mutedLookup).muted = (tests[t].muted \/ t \in mutedLookup)
        BY DEF RecordOne
      <4> QED
        BY <4>1, <4>2
    <3> QED
      BY <1>4, <2>1, <3>1
  <2>3. CASE ~(toRead /\ recordable[t] # Absent)
    <3>1. recorded[t] = tests[t]
      BY <2>3, RecordedOne
    <3> QED
      BY <1>4, <2>1, <3>1
  <2> QED
    BY <2>2, <2>3
<1>5. \A t \in Tests : tests'[t].muted => t \in mutedLookup'
  BY <1>1, <1>2, <1>4
<1>6. FailuresAreNoticed'
  BY <1>1 DEF FailuresAreNoticed, Exited
<1>7. program' # "cypress" =>
        /\ Failing' \subseteq FailedTests(recorded)'
        /\ file'.kind = "readable" => \A t \in Failing' : file'.says.results[t] \in {"failed", Absent}
  BY <1>1, <1>2 DEF FailuresAreOnRecord
<1>8. program' = "cypress" => tests' = NewRunResult(Tests)
  BY <1>1, <1>2, <1>3 DEF FailuresAreOnRecord
<1>9. Broken' # {} => errorRecorded'
  BY <1>1, <1>2 DEF FailuresAreOnRecord
<1>10. Failing' # {} \/ Broken' # {} => runErr'.kind # "none"
  BY <1>1, <1>2 DEF FailuresAreOnRecord
<1>11. runErr'.kind = "exit" => runErr'.code # 0
  BY <1>1 DEF FailuresAreOnRecord
<1> QED
  BY <1>5, <1>6, <1>7, <1>8, <1>9, <1>10, <1>11 DEF FailuresAreOnRecord

\* With a failure on record, or an error, the exit code of the last process is not suppressed.
LEMMA NothingSuppressed ==
  ASSUME FailuresAreOnRecord, Noticeable, pc = "exit", Failing # {} \/ Broken # {}
  PROVE  ExitCode # 0
<1>1. runErr.kind # "none" /\ (runErr.kind = "exit" => runErr.code # 0)
  BY DEF FailuresAreOnRecord
<1>2. ~OnlyMutedFailures(tests, runError)
  <2>1. recorded = tests /\ (errorRecorded <=> runError)
    BY DEF recorded, errorRecorded, toRead
  <2>2. CASE Broken # {}
    BY <2>1, <2>2 DEF FailuresAreOnRecord, OnlyMutedFailures, Status
  <2>3. CASE Failing # {} /\ program # "cypress"
    <3>1. FailedTests(tests) # {}
      BY <2>1, <2>3 DEF FailuresAreOnRecord
    <3> QED
      BY <3>1 DEF OnlyMutedFailures, FailedTests
  <2>4. CASE program = "cypress"
    <3>1. WithStatus(tests, "failed") = {}
      BY <2>4 DEF FailuresAreOnRecord, NewRunResult, NoResult, WithStatus, Absent
    <3> QED
      BY <3>1 DEF OnlyMutedFailures
  <2> QED
    BY <2>2, <2>3, <2>4
<1> QED
  BY <1>1, <1>2 DEF ExitCode, Suppressed

LEMMA OnRecordQuiet ==
  ASSUME TypeOK, pc = "assign" => attempt = 0, SuiteTypeOK, RunsAreCounted, FailuresAreOnRecord, Quiet
  PROVE  FailuresAreOnRecord'
<1>1. /\ UNCHANGED <<cfg, tests, file, suiteVars>>
      /\ pc # "invoke" /\ pc' # "assign"
      /\ recorded' = recorded
      /\ (errorRecorded' <=> errorRecorded)
      /\ pc = "assign" => /\ pc' = "invoke" \/ (pc' = "finish" /\ testCases = {})
                          /\ runErr' \in {runErr, OtherError, NoError}
      /\ pc # "assign" => UNCHANGED runErr
  BY QuietEffect
<1>2. /\ Failing' = Failing /\ Broken' = Broken /\ program' = program /\ suite' = suite
      /\ mutedLookup' = mutedLookup /\ Noticeable' = Noticeable
  BY <1>1 DEF suiteVars, Failing, Broken, program, suite, mutedLookup, Noticeable
<1> SUFFICES ASSUME Noticeable PROVE FailuresAreOnRecord'
  BY <1>2 DEF FailuresAreOnRecord
<1>3. program' # "cypress" =>
        /\ Failing' \subseteq FailedTests(recorded)'
        /\ file'.kind = "readable" => \A t \in Failing' : file'.says.results[t] \in {"failed", Absent}
  BY <1>1, <1>2 DEF FailuresAreOnRecord
<1>4. program' = "cypress" => tests' = NewRunResult(Tests)
  BY <1>1, <1>2 DEF FailuresAreOnRecord
<1>5. Broken' # {} => errorRecorded'
  BY <1>1, <1>2 DEF FailuresAreOnRecord
<1>6. pc' \notin {"assign", "invoke", "exited"} /\ (Failing' # {} \/ Broken' # {}) => runErr'.kind # "none"
  <2>1. CASE pc = "assign"
    <3>1. pc' = "finish" => suite = {}
      BY <1>1, <2>1 DEF RunsAreCounted, Unstarted
    <3>2. suite = {} => Failing = {} /\ Broken = {}
      BY DEF Failing, Broken, FilesOf
    <3> QED
      BY <1>1, <1>2, <2>1, <3>1, <3>2
  <2>2. CASE pc # "assign"
    <3>1. CASE pc = "exited"
      BY <3>1 DEF Quiet, NoTests, StartLoop, UploadResults, Retry, StopRetrying, ExitOnSignal,
                  PromiseFailure, SendMetadata, Exit
    <3> QED
      BY <1>1, <1>2, <2>2, <3>1 DEF FailuresAreOnRecord
  <2> QED
    BY <2>1, <2>2
<1>7. runErr'.kind = "exit" => runErr'.code # 0
  BY <1>1 DEF FailuresAreOnRecord, OtherError, NoError
<1>8. \A t \in Tests : tests'[t].muted => t \in mutedLookup'
  BY <1>1, <1>2 DEF FailuresAreOnRecord
<1>9. FailuresAreNoticed'
  <2> SUFFICES ASSUME pc' = "exited", exitStatus' = 0
               PROVE  Failing' = {} /\ Broken' = {}
    BY <1>2 DEF FailuresAreNoticed, Exited, Failing, Broken
  <2>1. ExitOnSignal \/ Exit
    BY DEF Quiet, NoTests, StartLoop, UploadResults, Retry, StopRetrying, PromiseFailure, SendMetadata
  <2>2. ~ExitOnSignal
    BY DEF ExitOnSignal, TypeOK, Error
  <2>3. pc = "exit" /\ ExitCode = 0
    BY <2>1, <2>2 DEF Exit
  <2> QED
    BY <1>2, <2>3, NothingSuppressed
<1> QED
  BY <1>3, <1>4, <1>5, <1>6, <1>7, <1>8, <1>9 DEF FailuresAreOnRecord

LEMMA OnRecordStep ==
  ASSUME JobInv, SuiteTypeOK, RunsAreCounted, FailuresAreOnRecord, [SuiteNext]_jobVars
  PROVE  FailuresAreOnRecord'
<1>1. TypeOK /\ AskedForFailures /\ (pc = "assign" => attempt = 0)
  BY DEF JobInv, VerdictInv, ReportsInv
<1>2. CASE UNCHANGED jobVars
  <2>1. UNCHANGED <<cfg, pc, attempt, testCases, tests, runError, file, runErr, exitStatus,
                    scenario, last, broken>>
    BY <1>2 DEF jobVars, vars, suiteVars
  <2>2. /\ recorded' = recorded /\ (errorRecorded' <=> errorRecorded)
        /\ Failing' = Failing /\ Broken' = Broken /\ mutedLookup' = mutedLookup
        /\ program' = program /\ Noticeable' = Noticeable
        /\ (FailuresAreNoticed' <=> FailuresAreNoticed)
    BY <2>1 DEF recorded, errorRecorded, toRead, ReadsFile, FailedOutside, CollectionError, recordable,
                FilteredOut, mutedLookup, Failing, Broken, program, suite, Noticeable,
                FailuresAreNoticed, Exited
  <2> QED
    BY <2>1, <2>2 DEF FailuresAreOnRecord
<1> QED
  BY <1>1, <1>2, StepsOfAJob, OnRecordQuiet, OnRecordInterrupted, OnRecordRead, OnRecordRan

-----------------------------------------------------------------------------
(***************************************************************************)
(* The theorems.                                                           *)
(***************************************************************************)

LEMMA SuiteInvInit == SuiteInit => SuiteInv
<1> SUFFICES ASSUME SuiteInit PROVE SuiteInv
  OBVIOUS
<1>1. SuiteTypeOK /\ RunsAreCounted /\ FailuresAreOnRecord
  BY CountedInit, OnRecordInit
<1>2. RecordMatchesRuns /\ AllRanFirst
  BY DEF SuiteInit, Init, RecordMatchesRuns, AllRanFirst, Unstarted
<1>3. RecordFollowsRuns
  <2>1. recorded = tests /\ suite \subseteq Tests
    BY ScenarioType DEF SuiteInit, Init, recorded, toRead
  <2> QED
    BY <2>1 DEF SuiteInit, Init, RecordFollowsRuns, NewRunResult, NoResult
<1> QED
  BY <1>1, <1>2, <1>3 DEF SuiteInv

LEMMA SuiteInvStep == JobInv /\ SuiteInv /\ [SuiteNext]_jobVars => SuiteInv'
<1> SUFFICES ASSUME JobInv, SuiteInv, [SuiteNext]_jobVars PROVE SuiteInv'
  OBVIOUS
<1>1. /\ TypeOK /\ AskedForFailures /\ SuiteTypeOK /\ RunsAreCounted /\ AllRanFirst
      /\ RecordFollowsRuns /\ FailuresAreOnRecord
  BY DEF JobInv, VerdictInv, SuiteInv
<1>2. SuiteTypeOK' /\ RunsAreCounted'
  BY <1>1, CountedStep
<1>3. AllRanFirst'
  BY <1>1, AllRanFirstStep
<1>4. RecordFollowsRuns'
  BY <1>1, RecordFollowsStep
<1>5. FailuresAreOnRecord'
  BY <1>1, OnRecordStep
<1>6. RecordMatchesRuns'
  BY <1>4 DEF RecordFollowsRuns, RecordMatchesRuns, recorded, toRead
<1> QED
  BY <1>2, <1>3, <1>4, <1>5, <1>6 DEF SuiteInv

\* For every suite, and whatever the names in it: the record of a truthful job is what
\* happened to its tests (RecordTestResult, the filter in vitest.go).
THEOREM SuiteInvariant ==
  ASSUME Report \subseteq Reports, {1, 2, 4} \subseteq ExitCodes
  PROVE  SuiteSpec => []SuiteInv
<1>1. SuiteSpec => []JobInv
  BY SuiteJobInvariant
<1> QED
  BY <1>1, SuiteInvInit, SuiteInvStep, PTL DEF SuiteSpec

\* Where a retry selects the tests it is made for and reports tell of errors outside of the
\* tests, a job that exits 0 has no test that failed last and is not muted, and no file that
\* broke last: truthful or not, killed in between or not (Run's exit path).
THEOREM NothingGoesUnnoticed ==
  ASSUME Report \subseteq Reports, {1, 2, 4} \subseteq ExitCodes
  PROVE  SuiteSpec => [](Noticeable => FailuresAreNoticed)
<1>1. SuiteInv => (Noticeable => FailuresAreNoticed)
  BY DEF SuiteInv, FailuresAreOnRecord
<1> QED
  BY <1>1, SuiteInvariant, PTL

\* A retry that is made for a test runs it, once, where nothing is broken and no file fails to load.
LEMMA RetryRan ==
  ASSUME TypeOK, SuiteTypeOK, RunsAreCounted, Noticeable, attempt > 0,
         NEW fault \in [filesRead -> {"no"} \cup scenario.faults],
         NEW entry \in [Executed(fault) -> Entries(program)], Ran(fault, entry),
         \A f \in DOMAIN broken : broken'[f] # "unloadable",
         NEW t \in testCases \cap suite
  PROVE  runs'[t] = runs[t] + 1
<1>1. program \notin {"custom", "cypress"}
  BY DEF RunsAreCounted, TypeOK
<1>2. t \in selected
  <2>1. t \in Selected(program, suite, {t}) \/ RefusesPaths(program, suite, {t})
    BY <1>1 DEF Noticeable, RetrySelects, program, suite
  <2>2. t \in Selected(program, suite, testCases)
    BY <2>1, SelectedGrows, RefusalGrows DEF Ran
  <2> QED
    BY <2>2 DEF selected
<1>3. t.file \in filesRead /\ t \in suite /\ t.file \in FilesOf(suite)
  BY <1>2, SelectedIsRead DEF FilesOf
<1>4. fault[t.file] # "unloadable"
  BY <1>3 DEF Ran, SuiteTypeOK
<1>5. CASE StopsOnLoadError
  <2>1. program \notin PatternPrograms
    BY <1>5 DEF StopsOnLoadError, PatternPrograms, PytestPrograms
  <2>2. filesRead \subseteq FilesOf(suite)
    BY <2>1, SelectedType DEF filesRead, FilesOf
  <2>3. \A f \in filesRead : fault[f] # "unloadable"
    BY <2>2 DEF Ran, SuiteTypeOK
  <2>4. t \in Executed(fault)
    BY <1>2, <1>3, <2>3 DEF Executed
  <2> QED
    BY <1>3, <2>4 DEF Ran
<1>6. CASE ~StopsOnLoadError
  <2>1. t \in Executed(fault)
    BY <1>2, <1>3, <1>4, <1>6 DEF Executed
  <2> QED
    BY <1>3, <2>1 DEF Ran
<1> QED
  BY <1>5, <1>6

LEMMA RetryReaches ==
  ASSUME JobInv, SuiteInv, Noticeable, [SuiteNext]_jobVars, pc = "invoke", attempt > 0,
         runErr' \in {NoError, [kind |-> "exit", code |-> 1]},
         \A f \in DOMAIN broken : broken'[f] # "unloadable", jobVars' # jobVars
  PROVE  /\ \A t \in testCases \cap suite : runs'[t] = runs[t] + 1
         /\ \A f \in DOMAIN broken : broken[f] = "crashed" => f \in FilesOf(selected)
<1>1. TypeOK /\ AskedForFailures /\ SuiteTypeOK /\ RunsAreCounted /\ FailuresAreOnRecord
  BY DEF JobInv, VerdictInv, SuiteInv
<1>2. Broken = {}
  BY <1>1, NothingBroken
<1>3. \A f \in DOMAIN broken : broken[f] # "crashed"
  BY <1>1, <1>2 DEF Broken, SuiteTypeOK
<1>4. ~Interrupted
  BY InterruptedEffect DEF NoError
<1>5. ~Quiet /\ ~(RecordReport /\ UNCHANGED suiteVars)
  BY QuietEffect, RecordEffect
<1>6. PICK fault \in [filesRead -> {"no"} \cup scenario.faults] :
        \E entry \in [Executed(fault) -> Entries(program)] : Ran(fault, entry)
  BY <1>4, <1>5, StepsOfAJob
<1>7. PICK entry \in [Executed(fault) -> Entries(program)] : Ran(fault, entry)
  BY <1>6
<1>8. \A t \in testCases \cap suite : runs'[t] = runs[t] + 1
  BY <1>1, <1>7, RetryRan
<1> QED
  BY <1>3, <1>8

\* In such a job a retry that ends as a test run ends has run every test it was made for
\* once more, whatever matched its pattern or its paths besides, and no crash is left behind
\* (the commands for a retry of each runner, getPackages).
THEOREM RetriesReach ==
  ASSUME Report \subseteq Reports, {1, 2, 4} \subseteq ExitCodes
  PROVE  SuiteSpec /\ []Noticeable => RetryReachesFailures
<1>1. JobInv /\ SuiteInv /\ Noticeable /\ [SuiteNext]_jobVars =>
        [pc = "invoke" /\ attempt > 0 /\ runErr' \in {NoError, [kind |-> "exit", code |-> 1]}
           /\ (\A f \in DOMAIN broken : broken'[f] # "unloadable") =>
           /\ \A t \in testCases \cap suite : runs'[t] = runs[t] + 1
           /\ \A f \in DOMAIN broken : broken[f] = "crashed" => f \in FilesOf(selected)]_jobVars
  BY RetryReaches
<1>2. SuiteSpec => [](JobInv /\ SuiteInv)
  BY SuiteJobInvariant, SuiteInvariant, PTL
<1> QED
  BY <1>1, <1>2, PTL DEF SuiteSpec, RetryReachesFailures

=============================================================================
