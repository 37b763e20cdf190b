------------------------------- MODULE TestRun -------------------------------
(***************************************************************************)
(* One bktec job from the moment it knows its tests to its exit status:    *)
(* runTestsWithRetry and the rest of Run in internal/command/run.go, with  *)
(* the part of each runner's Run (internal/runner) that decides whether    *)
(* the result file is read and what of it is recorded.                     *)
(*                                                                         *)
(* The environment is the test runner, a process bktec does not control:   *)
(* it may write its result file, leave the one of an earlier attempt (or   *)
(* of an earlier job) in place, truncate it, and end in any way.           *)
(***************************************************************************)
EXTENDS RunResult, Integers, Sequences

CONSTANTS
  Tests,         \* identifiers of tests the runner can report
  Muted,         \* the tests the server's plan lists as muted
  Configs,       \* the configurations a job may have
  Reports,       \* what a runner that writes its result file may write in it
  FirstReports,  \* what may be on disk at the result path when the job starts
  ExitCodes,     \* the non-zero codes the runner may exit with
  Signals        \* the signals that may terminate the runner

\* How a runner's Run treats the result file, one kind for all that do the same:
\*   "always"       rspec, jest, playwright: read after any end
\*   "vitest"       the same, but a test filtered out of a retry is not recorded
\*   "testsonly"    cucumber, custom: read after any end, for results of tests only
\*   "exit1"        gotest with JUnit: not read after exit codes but 1
\*   "gojsonl"      gotest capturing stdout: as exit1, and the file is truncated first
\*   "pytestjson"   pytest with JSON: as exit1, and exit code 2 is an error outside the tests
\*   "pytestjunit"  pytest with JUnit: as exit1, for results of tests only
\*   "unread"       cypress, custom without a result path
Runners == {"always", "vitest", "testsonly", "exit1", "gojsonl", "pytestjson", "pytestjunit", "unread"}

Config == [runner : Runners, maxRetries : Nat, retryForMuted : BOOLEAN, failOnNoTests : BOOLEAN,
           promiseFailure : BOOLEAN, uploadResults : BOOLEAN, fallback : BOOLEAN]

\* What a result file says: a status for the tests it contains, and whether
\* something failed outside of them.
Report == [results : [Tests -> Reported \cup {Absent}], outside : BOOLEAN]

EmptyReport == [results |-> [t \in Tests |-> Absent], outside |-> FALSE]

\* The file itself: who wrote it is 0 before the job and n for its n-th attempt.
File == [kind : {"missing", "garbage", "readable"}, says : Report, writer : Nat]

\* error values returned by a runner's Run
Error == [kind : {"none", "exit", "signal", "other"}, code : Nat]

NoError    == [kind |-> "none", code |-> 0]
OtherError == [kind |-> "other", code |-> 0]

ASSUME TestRunAssumption ==
  /\ IsFiniteSet(Tests)
  /\ Muted \subseteq Tests
  /\ Configs \subseteq Config
  /\ Reports \subseteq Report
  /\ FirstReports \subseteq {f \in File : f.writer = 0}
  /\ ExitCodes \subseteq Nat \ {0}
  /\ Signals \subseteq Nat \ {0}

VARIABLES
  cfg,         \* the configuration
  pc,          \* where in Run the job is
  testCases,   \* the tests of the next or current invocation of the runner
  attempt,     \* attemptCount
  tests,       \* runResult.tests
  runError,    \* runResult.error # nil
  file,        \* the result file
  runErr,      \* the error returned by the last invocation, then by runTestsWithRetry
  timeline,    \* the events to be posted
  uploads,     \* history: for each upload, the writer of the file uploaded
  promised,    \* history: the promise-failure command was run
  posted,      \* history: statistics and timelines posted as plan metadata
  signalled,   \* history: some invocation was terminated by a signal
  truthful,    \* history: every invocation so far was a truthful one
  orderly,     \* history: every invocation so far was an orderly one
  exitStatus   \* exit status of bktec, or Running

vars == <<cfg, pc, testCases, attempt, tests, runError, file, runErr, timeline,
          uploads, promised, posted, signalled, truthful, orderly, exitStatus>>

result == <<tests, runError>>
output == <<uploads, promised, posted, exitStatus>>
conduct == <<signalled, truthful, orderly>>

Running == -1

Steps == {"assign", "invoke", "read", "upload", "decide", "finish", "metadata", "exit", "exited"}

\* What runTestsWithRetry looks at after each attempt.
failedTests      == FailedTests(tests)
failedMutedTests == FailedMutedTests(tests)

-----------------------------------------------------------------------------
Init ==
  /\ cfg \in Configs
  /\ pc = "assign"
  /\ testCases \in SUBSET Tests
  /\ attempt = 0
  /\ tests = NewRunResult(Tests)
  /\ runError = FALSE
  /\ file \in FirstReports
  /\ runErr = NoError
  /\ timeline = <<>>
  /\ uploads = <<>>
  /\ promised = FALSE
  /\ posted = <<>>
  /\ signalled = FALSE
  /\ truthful = TRUE
  /\ orderly = TRUE
  /\ exitStatus = Running

\* A node the plan gives no tests runs nothing.
NoTests ==
  /\ pc = "assign"
  /\ testCases = {}
  /\ runErr' = IF cfg.failOnNoTests THEN OtherError ELSE NoError
  /\ pc' = "finish"
  /\ UNCHANGED <<cfg, testCases, attempt, result, file, timeline, conduct, output>>

StartLoop ==
  /\ pc = "assign"
  /\ testCases # {}
  /\ pc' = "invoke"
  /\ UNCHANGED <<cfg, testCases, attempt, result, file, runErr, timeline, conduct, output>>

-----------------------------------------------------------------------------
\* Invoking the runner.  Targets of a plan stand for the tests they contain.

\* The retry command cannot be built: no process, and the result file is not read.
BuildCommandFails ==
  /\ pc = "invoke"
  /\ runErr' = OtherError
  /\ truthful' = FALSE /\ orderly' = FALSE
  /\ timeline' = Append(timeline, <<"start", attempt>>)
  /\ pc' = "upload"
  /\ UNCHANGED <<cfg, testCases, attempt, result, file, signalled, output>>

Written(kind, says) == [kind |-> kind, says |-> says, writer |-> attempt + 1]

\* The file after a runner that did not write it.
Untouched == IF cfg.runner = "gojsonl" THEN Written("garbage", EmptyReport) ELSE file

\* cmd.Start fails (for gojsonl the file may have been truncated before).
RunnerDoesNotStart ==
  /\ pc = "invoke"
  /\ runErr' = OtherError
  /\ file' \in {file, Untouched}
  /\ truthful' = FALSE /\ orderly' = FALSE
  /\ timeline' = Append(timeline, <<"start", attempt>>)
  /\ pc' = "read"
  /\ UNCHANGED <<cfg, testCases, attempt, result, signalled, output>>

\* What cmd.Wait may give.
Ends == {NoError} \cup [kind : {"exit"}, code : ExitCodes] \cup [kind : {"signal"}, code : Signals]

\* What a file says of errors outside the tests, to a runner that looks for them.
TestsOnly == {"testsonly", "pytestjunit"}
FailedOutside(f) == f.says.outside /\ cfg.runner \notin TestsOnly

\* A truthful invocation: the file is new and readable, and the exit code is 1 exactly if
\* the file says that something failed.
IsTruthful(end, f) ==
  LET said == {f.says.results[t] : t \in Tests}
  IN  /\ f.kind = "readable" /\ f.writer = attempt + 1
      /\ "unknown" \notin said
      /\ end \in {NoError, [kind |-> "exit", code |-> 1]}
      /\ end.kind = "exit" <=> ("failed" \in said \/ FailedOutside(f))

\* An orderly one also has a result for every test it was asked for.
IsComplete(f) == \A t \in testCases : f.says.results[t] # Absent

RunnerEnds(end, f) ==
  /\ pc = "invoke"
  /\ runErr' = end
  /\ file' = f
  /\ signalled' = (signalled \/ end.kind = "signal")
  /\ truthful' = (truthful /\ IsTruthful(end, f))
  /\ orderly' = (orderly /\ IsTruthful(end, f) /\ IsComplete(f))
  /\ timeline' = Append(timeline, <<"start", attempt>>)
  /\ pc' = "read"
  /\ UNCHANGED <<cfg, testCases, attempt, result, output>>

InvokeRunner ==
  \E end \in Ends :
    \/ RunnerEnds(end, Untouched)
    \/ RunnerEnds(end, Written("garbage", EmptyReport))
    \/ \E r \in Reports : RunnerEnds(end, Written("readable", r))

-----------------------------------------------------------------------------
\* The runner has ended and its Run goes on.

\* The exit codes after which a runner's Run returns without reading the file.
ReadsFile ==
  /\ cfg.runner # "unread"
  /\ cfg.runner \in {"exit1", "gojsonl", "pytestjunit"} /\ runErr.kind = "exit" => runErr.code = 1
  /\ cfg.runner = "pytestjson" /\ runErr.kind = "exit" => runErr.code \in {1, 2}

\* pytest's exit code 2, a collection error, is an error whatever the file says.
CollectionError == cfg.runner = "pytestjson" /\ runErr = [kind |-> "exit", code |-> 2]

\* Fault: vitest's filter is missing, as in jest's Run.
NeverFilteredOut(t) == FALSE

\* A vitest retry reports the tests its name pattern filters out as skipped.
FilteredOut(t) ==
  /\ cfg.runner = "vitest"
  /\ attempt > 0
  /\ t \notin testCases
  /\ file.says.results[t] = "skipped"

\* A fallback plan lists no muted tests.
mutedLookup == IF cfg.fallback THEN {} ELSE Muted

recordable == [t \in Tests |-> IF FilteredOut(t) THEN Absent ELSE file.says.results[t]]

\* A result file that cannot be read changes nothing: the command's error is returned.
RecordReport ==
  LET readable == ReadsFile /\ file.kind = "readable"
  IN  /\ pc = "read"
      /\ tests' = IF readable THEN RecordAll(tests, recordable, mutedLookup) ELSE tests
      /\ runError' = (runError \/ (readable /\ FailedOutside(file)) \/ CollectionError)
      /\ pc' = "upload"
      /\ UNCHANGED <<cfg, testCases, attempt, file, runErr, timeline, conduct, output>>

\* uploadResults: whatever is at the result path is uploaded, after every attempt;
\* a failed upload is only logged.
HasResultFormat == cfg.runner \notin {"pytestjson", "unread"}

\* Fault: only the results of successful invocations are uploaded.
UploadAfterSuccess ==
  /\ pc = "upload"
  /\ uploads' = IF cfg.uploadResults /\ HasResultFormat /\ file.kind # "missing" /\ runErr = NoError
                  THEN Append(uploads, file.writer)
                  ELSE uploads
  /\ timeline' = Append(timeline, <<"end", attempt>>)
  /\ pc' = "decide"
  /\ UNCHANGED <<cfg, testCases, attempt, result, file, runErr, conduct,
                 promised, posted, exitStatus>>

UploadResults ==
  /\ pc = "upload"
  /\ uploads' = IF cfg.uploadResults /\ HasResultFormat /\ file.kind # "missing"
                  THEN Append(uploads, file.writer)
                  ELSE uploads
  /\ timeline' = Append(timeline, <<"end", attempt>>)
  /\ pc' = "decide"
  /\ UNCHANGED <<cfg, testCases, attempt, result, file, runErr, conduct,
                 promised, posted, exitStatus>>

\* Fault: muted failures are retried whatever the configuration.
RetryAllFailed == WithStatus(tests, "failed")

retryCases == failedTests \cup (IF cfg.retryForMuted THEN failedMutedTests ELSE {})

\* Fault: the limit is reached one attempt early.
RetryOneTooFew == Status(tests, runError) # "error" /\ attempt + 1 < cfg.maxRetries /\ retryCases # {}

ShouldRetry ==
  /\ Status(tests, runError) # "error"
  /\ attempt # cfg.maxRetries
  /\ retryCases # {}

Retry ==
  /\ pc = "decide"
  /\ ShouldRetry
  /\ testCases' = retryCases
  /\ attempt' = attempt + 1
  /\ pc' = "invoke"
  /\ UNCHANGED <<cfg, result, file, runErr, timeline, conduct, output>>

\* Fault: tests left to retry at the limit start another invocation all the same.
StopNever ==
  /\ pc = "decide"
  /\ ~ShouldRetry
  /\ pc' = IF retryCases # {} THEN "invoke" ELSE "finish"
  /\ UNCHANGED <<cfg, testCases, attempt, result, file, runErr, timeline, conduct, output>>

StopRetrying ==
  /\ pc = "decide"
  /\ ~ShouldRetry
  /\ pc' = "finish"
  /\ UNCHANGED <<cfg, testCases, attempt, result, file, runErr, timeline, conduct, output>>

-----------------------------------------------------------------------------
\* The rest of Run.

\* logSignalAndExit: no promise, no report, no metadata.
ExitOnSignal ==
  /\ pc = "finish"
  /\ runErr.kind = "signal"
  /\ exitStatus' = 128 + runErr.code
  /\ pc' = "exited"
  /\ UNCHANGED <<cfg, testCases, attempt, result, file, runErr, timeline, conduct,
                 uploads, promised, posted>>

\* promiseFailureIfNeeded: the command's own failure is swallowed.
PromiseFailure ==
  /\ pc = "finish"
  /\ runErr.kind # "signal"
  /\ promised' = (cfg.promiseFailure /\ failedTests # {})
  /\ pc' = "metadata"
  /\ UNCHANGED <<cfg, testCases, attempt, result, file, runErr, timeline, conduct,
                 uploads, posted, exitStatus>>

\* sendMetadata, for plans of the server only; an error is only logged.
SendMetadata ==
  /\ pc = "metadata"
  /\ posted' = IF cfg.fallback
                 THEN posted
                 ELSE Append(posted, [statistics |-> Statistics(tests), timeline |-> timeline])
  /\ pc' = "exit"
  /\ UNCHANGED <<cfg, testCases, attempt, result, file, runErr, timeline, conduct,
                 uploads, promised, exitStatus>>

\* Run's return value and main's logErrorAndExit.
Suppressed == runErr.kind = "exit" /\ runErr.code = 1 /\ OnlyMutedFailures(tests, runError)

ExitCode ==
  IF runErr.kind = "none" \/ Suppressed THEN 0
  ELSE IF runErr.kind = "exit" THEN runErr.code
  ELSE 16

Exit ==
  /\ pc = "exit"
  /\ exitStatus' = ExitCode
  /\ pc' = "exited"
  /\ UNCHANGED <<cfg, testCases, attempt, result, file, runErr, timeline, conduct,
                 uploads, promised, posted>>

-----------------------------------------------------------------------------
Next ==
  \/ NoTests \/ StartLoop
  \/ BuildCommandFails \/ RunnerDoesNotStart \/ InvokeRunner
  \/ RecordReport \/ UploadResults \/ Retry \/ StopRetrying
  \/ ExitOnSignal \/ PromiseFailure \/ SendMetadata \/ Exit

Spec == Init /\ [][Next]_vars

\* bktec's own steps are a sequential program, and the runner is assumed to end:
\* nothing in bktec ends a runner that does not.
FairSpec == Spec /\ WF_vars(Next)

-----------------------------------------------------------------------------
(***************************************************************************)
(* Properties.                                                             *)
(***************************************************************************)

Event == {"start", "end"} \X Nat

Statistic == [total : Nat, passedOnFirstRun : Nat, passedOnRetry : Nat, mutedPassed : Nat,
              mutedFailed : Nat, failed : Nat, skipped : Nat]

\* Every variable holds a value of its kind (the type of each field of Run's locals).
TypeOK ==
  /\ cfg \in Config
  /\ pc \in Steps
  /\ testCases \in SUBSET Tests
  /\ attempt \in Nat /\ attempt <= cfg.maxRetries
  /\ tests \in [Tests -> TestResult]
  /\ runError \in BOOLEAN
  /\ file \in File
  /\ runErr \in Error
  /\ timeline \in Seq(Event)
  /\ uploads \in Seq(Nat)
  /\ promised \in BOOLEAN
  /\ posted \in Seq([statistics : Statistic, timeline : Seq(Event)])
  /\ signalled \in BOOLEAN
  /\ truthful \in BOOLEAN
  /\ orderly \in BOOLEAN
  /\ exitStatus \in Int

Exited == pc = "exited"

\* The job reached a runner whose result file bktec reads.
RanReadableRunner == timeline # <<>> /\ cfg.runner # "unread"

\* No failure is missed: if every invocation of the runner was orderly, a job that exits 0
\* has no test whose last recorded status is a failure that is not muted, and no error
\* outside the tests.  (Run's exit path looks at the last process only; the map
\* accumulates every attempt.)
NoMissedFailure ==
  Exited /\ orderly /\ RanReadableRunner /\ exitStatus = 0 => failedTests = {} /\ ~runError

\* No false alarm: if every invocation was truthful, complete or not, a job that exits
\* non-zero has such a failure or error to show; muted failures alone never fail it.
NoFalseAlarm ==
  Exited /\ truthful /\ RanReadableRunner /\ exitStatus # 0 => failedTests # {} \/ runError

(***************************************************************************)
(* Why the verdict is sound, one conjunct per stage of an attempt.  It is  *)
(* the inductive invariant of the proofs, checked by TLC as well.          *)
(***************************************************************************)

\* Before anything is recorded by an attempt: there is no error, and what is failing
\* without being muted is what the runner is asked for.
AskedForFailures ==
  pc \in {"assign", "invoke", "read"} => ~runError /\ failedTests \subseteq testCases

\* Between the end of the runner and the reading of its file.
RunnerConduct ==
  pc = "read" => /\ truthful => IsTruthful(runErr, file)
                 /\ orderly => truthful /\ IsComplete(file)

\* After recording: success of the last process against the record of all of them.
RecordAgrees ==
  pc \in {"upload", "decide", "finish", "metadata", "exit"} /\ RanReadableRunner =>
    /\ truthful => /\ runErr \in {NoError, [kind |-> "exit", code |-> 1]}
                   /\ runErr.kind = "exit" => WithStatus(tests, "failed") # {} \/ runError
    /\ orderly /\ runErr = NoError => failedTests = {} /\ ~runError

\* No status was unknown in a truthful job, and an orderly one is truthful.
TruthfulRecord ==
  /\ orderly => truthful
  /\ truthful => WithStatus(tests, "unknown") = {}

VerdictInv ==
  /\ AskedForFailures
  /\ RunnerConduct
  /\ RecordAgrees
  /\ TruthfulRecord
  /\ pc = "assign" => timeline = <<>>
  /\ pc \in {"read", "upload", "decide"} => timeline # <<>>
  /\ NoMissedFailure
  /\ NoFalseAlarm

\* An early failure is promised only when it is final: a failure that is not muted
\* remains, and no attempt is left that could have cleared it (promiseFailureIfNeeded).
PromiseOnlyWhenFinal ==
  promised => /\ failedTests # {}
              /\ attempt = cfg.maxRetries \/ runError

\* Why: an invocation always has tests to run; the loop is left with a failure only when
\* no retry was left or an error forbade it; and what was promised stays failed.
LoopInv ==
  /\ pc = "assign" => failedTests = {} /\ timeline = <<>>
  /\ pc \in {"invoke", "read", "upload", "decide"} => testCases # {}
  /\ pc \in {"read", "upload", "decide"} => timeline # <<>>
  /\ pc \in {"finish", "metadata", "exit", "exited"} /\ failedTests # {} =>
       attempt = cfg.maxRetries \/ runError
  /\ promised => pc \in {"metadata", "exit", "exited"} /\ failedTests # {}


\* "declare an early failure ... so the build can cascade to failing before this job
\* actually exits": a job that promised a failure exits non-zero, even if an invocation
\* of the (truthful) runner had no result for a test it was asked for.
PromiseKept == Exited /\ truthful /\ promised => exitStatus # 0

\* A job whose runner was terminated by a signal exits with 128 plus a signal number
\* (README, possible exit statuses; Run's comment: abort immediately and propagate).
SignalPropagated == Exited /\ signalled => exitStatus \in {128 + s : s \in Signals}

\* The statistics posted count no test twice, and their total exceeds the buckets only
\* by the tests no bucket is for: muted ones that are skipped or unknown, and unmuted
\* ones with an unknown status.
BucketSum(s) == s.passedOnFirstRun + s.passedOnRetry + s.mutedPassed + s.mutedFailed
                + s.failed + s.skipped

Unbucketed == WithStatus(tests, "unknown") \cup (SkippedTests(tests) \cap MutedTests(tests))

StatisticsAddUp ==
  \A i \in DOMAIN posted :
    posted[i].statistics.total = BucketSum(posted[i].statistics) + Cardinality(Unbucketed)

\* In an orderly job the file of every attempt is uploaded, once, in order; what an
\* earlier job left at the result path is not.
OrderlyUploads ==
  orderly /\ cfg.uploadResults /\ HasResultFormat /\ pc \notin {"assign", "invoke", "read", "upload"} =>
    uploads = [i \in 1..(Len(timeline) \div 2) |-> i]

\* Why: an attempt is two events and, if it is orderly, one file, its own; and what is posted
\* is of the final record.
ReportsInv ==
  /\ pc = "assign" => attempt = 0 /\ timeline = <<>> /\ uploads = <<>>
  /\ pc = "invoke" => Len(timeline) = 2 * attempt
  /\ pc \in {"read", "upload"} => Len(timeline) = 2 * attempt + 1
  /\ pc = "decide" => Len(timeline) = 2 * attempt + 2
  /\ pc \in {"read", "upload"} /\ orderly => file.kind = "readable" /\ file.writer = attempt + 1
  /\ orderly /\ cfg.uploadResults /\ HasResultFormat =>
       uploads = [i \in 1..(Len(timeline) \div 2) |-> i]
  /\ posted # <<>> => pc \in {"exit", "exited"}
  /\ \A i \in DOMAIN posted : posted[i].statistics = Statistics(tests)

\* What is inductive about a job: TLC checks, and the proofs use, all of it.
JobInv == TypeOK /\ VerdictInv /\ LoopInv /\ ReportsInv

\* An error outside the tests is terminal: no runner is invoked after one, however
\* many attempts are left and whatever failures are recorded.
ErrorIsTerminal == [][runError => UNCHANGED <<attempt, testCases>> /\ pc' # "invoke"]_vars

\* A retry asks for every failure that is not muted, and never for a test whose last
\* recorded status is not a failure, nor for a muted one unless so configured.
RetriesFailuresOnly ==
  [][pc' = "invoke" /\ attempt' # attempt =>
       /\ failedTests \subseteq testCases'
       /\ testCases' \subseteq WithStatus(tests, "failed")
       /\ testCases' # {}
       /\ ~cfg.retryForMuted => testCases' \cap MutedTests(tests) = {}]_vars

\* The job as rounds of tests (BoundedRetry): a round is an invocation whose result has
\* been recorded.
Rounds == INSTANCE BoundedRetry WITH
            todo    <- testCases,
            ran     <- pc \notin {"assign", "invoke", "read"} /\ timeline # <<>>,
            failing <- WithStatus(tests, "failed"),
            left    <- cfg.maxRetries - attempt,
            stopped <- pc \in {"finish", "metadata", "exit", "exited"}

\* The job never runs more rounds than configured, never a round of anything but failing
\* tests, nothing once it has stopped retrying; and it does stop.
ImplementsRounds == Rounds!FairSpec

=============================================================================
