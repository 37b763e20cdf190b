------------------------------ MODULE RunnerJob ------------------------------
(***************************************************************************)
(* A job and the program that runs its tests.  TestRun lets the program    *)
(* do and report anything; here it is one of the programs bktec has a      *)
(* runner for, running a suite of tests: the retry command made from the   *)
(* failed tests selects what runs again, the program writes what happened  *)
(* in its own words, and bktec reads it back by the rules of that runner.  *)
(*                                                                         *)
(* Everything bktec does is an action of TestRun.  The three variables of  *)
(* this module are history: what really happened to every test and file.   *)
(***************************************************************************)
EXTENDS TestRun, Runners

CONSTANT Scenarios   \* the jobs considered: a program, its suite, and what may go wrong

\* Files are read in a retry by pattern: those of the failed tests when the retry command
\* has {{testExamples}}, else every file.  Faults are what may happen to a file:
\*   "unloadable"  it cannot be loaded, compiled or collected: none of its tests runs
\*   "crashed"     its tests have run and something else in it fails
Scenario == [program : Programs, suite : SUBSET Tests, namesFiles : BOOLEAN,
             faults : SUBSET {"unloadable", "crashed"}]

FilesOf(testSet) == {t.file : t \in testSet}

\* Every test of a suite, and the TestMain of every package, has an identifier; the server
\* mutes by scope and name, whatever the file; the groups around a test are in an order.
ASSUME RunnerJobAssumption ==
  /\ \A t \in Tests : t.scope \in Seq({t.scope[i] : i \in DOMAIN t.scope})
  /\ Scenarios \subseteq Scenario
  /\ \A s \in Scenarios :
       /\ s.program \in GoPrograms =>
            {TestMain(s.program, f) : f \in FilesOf(s.suite)} \subseteq Tests \ (s.suite \cup Muted)
       /\ \A t, u \in s.suite :
            mutedTestIdentifier(s.program, t) = mutedTestIdentifier(s.program, u)
              => (t \in Muted <=> u \in Muted)

VARIABLES
  scenario,  \* the program and its suite
  last,      \* history: how the last execution of each test ended
  runs,      \* history: how often each test was executed
  broken     \* history: what last happened to each file, apart from its tests

suiteVars == <<scenario, last, runs, broken>>
jobVars   == <<vars, suiteVars>>

program == scenario.program
suite   == scenario.suite

\* Custom and cypress are configured without retries, which they do not support
\* (SupportedFeatures); bktec does not refuse them.
SuiteInit ==
  /\ scenario \in Scenarios
  /\ Init
  /\ cfg.runner \in Kinds(program)
  /\ program \in {"custom", "cypress"} => cfg.maxRetries = 0
  /\ testCases = suite
  /\ last = [t \in suite |-> Absent]
  /\ runs = [t \in suite |-> 0]
  /\ broken = [f \in FilesOf(suite) |-> "no"]

-----------------------------------------------------------------------------
(***************************************************************************)
(* The program.                                                            *)
(***************************************************************************)

\* The first command names the files of the node's tests, or the tests one by one.
selected == IF attempt = 0 THEN suite ELSE Selected(program, suite, testCases)

filesRead ==
  IF attempt = 0 \/ (program \in PatternPrograms /\ ~scenario.namesFiles) THEN FilesOf(suite)
  ELSE IF program \in PatternPrograms THEN FilesOf(testCases)
  ELSE FilesOf(selected)

\* These programs run no test at all when a file cannot be loaded.
StopsOnLoadError == program \in {"rspec", "playwright", "cucumber"} \cup PytestPrograms

\* The tests executed, if these faults happen to the files read.
Executed(fault) ==
  LET unloadable == {f \in filesRead : fault[f] = "unloadable"}
  IN  IF StopsOnLoadError /\ unloadable # {} THEN {}
      ELSE {t \in selected : t.file \in filesRead \ unloadable}

\* Packages go test reports to have failed though none of their tests did.
FailedPackages(fault, entry) ==
  {f \in filesRead : /\ fault[f] = "crashed"
                     /\ \A t \in DOMAIN entry : t.file = f => entry[t].happened # "failed"}

\* Tests filtered out by a pattern, in files that were read.
FilteredTests(fault) ==
  IF program \in PatternPrograms
    THEN {t \in suite \ selected : t.file \in filesRead /\ fault[t.file] # "unloadable"}
    ELSE {}

\* The result file, as the Run of this runner reads it.
ResultsRead(fault, entry) ==
  [t \in Tests |->
     IF t \in DOMAIN entry THEN StatusRead(program, entry[t].written)
     ELSE IF t \in FilteredTests(fault) THEN StatusRead(program, FilteredEntry(program))
     ELSE IF program \in GoPrograms /\ t \in {TestMain(program, f) : f \in FailedPackages(fault, entry)}
       THEN "failed"
     ELSE Absent]

\* Errors outside of the tests the file tells of.
ErrorsRead(fault) ==
  \E f \in filesRead : \/ fault[f] = "unloadable"
                       \/ fault[f] = "crashed" /\ program = "rspec"

FileWritten(fault, entry) ==
  IF program = "cypress" THEN file
  ELSE IF program = "cucumber" /\ ErrorsRead(fault) THEN Written("garbage", EmptyReport)
  ELSE Written("readable", [results |-> ResultsRead(fault, entry), outside |-> ErrorsRead(fault)])

\* pytest has an exit code of its own for errors of collection.
EndOf(fault, entry) ==
  IF program \in PytestPrograms /\ ErrorsRead(fault) THEN [kind |-> "exit", code |-> 2]
  ELSE IF \/ \E f \in filesRead : fault[f] # "no"
          \/ \E t \in DOMAIN entry : entry[t].happened = "failed"
    THEN [kind |-> "exit", code |-> 1]
  ELSE NoError

\* Whether jest or vitest skips a test is written in its source (it.skip, it.todo).
SkipsAlike(entry) ==
  program \in PatternPrograms =>
    \A t \in DOMAIN entry : runs[t] > 0 => (entry[t].happened = "skipped" <=> last[t] = "skipped")

RunSuite ==
  /\ pc = "invoke"
  /\ CanBuildCommand(program, testCases)
  /\ attempt > 0 => ~RefusesPaths(program, suite, testCases)
  /\ \E fault \in [filesRead -> {"no"} \cup scenario.faults] :
     \E entry \in [Executed(fault) -> Entries(program)] :
       /\ SkipsAlike(entry)
       /\ RunnerEnds(EndOf(fault, entry), FileWritten(fault, entry))
       /\ last' = [t \in suite |-> IF t \in DOMAIN entry THEN entry[t].happened ELSE last[t]]
       /\ runs' = [t \in suite |-> IF t \in DOMAIN entry THEN runs[t] + 1 ELSE runs[t]]
       /\ broken' = [f \in FilesOf(suite) |-> IF f \in filesRead THEN fault[f] ELSE broken[f]]
  /\ UNCHANGED scenario

\* pytest is asked for a node ID it does not know: a usage error, and no result file.
RefusePaths ==
  /\ attempt > 0
  /\ RefusesPaths(program, suite, testCases)
  /\ RunnerEnds([kind |-> "exit", code |-> 4], Untouched)
  /\ UNCHANGED suiteVars

\* The program is killed before it has written its file; what its tests did until then
\* is not known.
Killed ==
  /\ CanBuildCommand(program, testCases)
  /\ \E s \in Signals : RunnerEnds([kind |-> "signal", code |-> s], Untouched)
  /\ UNCHANGED suiteVars

\* gotest has no package to run again.
NothingToRetry ==
  /\ ~CanBuildCommand(program, testCases)
  /\ BuildCommandFails
  /\ UNCHANGED suiteVars

\* What bktec does besides invoking the program.
JobStep ==
  /\ \/ NoTests \/ StartLoop \/ RunnerDoesNotStart
     \/ RecordReport \/ UploadResults \/ Retry \/ StopRetrying
     \/ ExitOnSignal \/ PromiseFailure \/ SendMetadata \/ Exit
  /\ UNCHANGED suiteVars

SuiteNext == RunSuite \/ RefusePaths \/ Killed \/ NothingToRetry \/ JobStep

SuiteSpec == SuiteInit /\ [][SuiteNext]_jobVars

-----------------------------------------------------------------------------
(***************************************************************************)
(* Properties.                                                             *)
(***************************************************************************)

\* The history has a value for every test and file of the suite.
SuiteTypeOK ==
  /\ scenario \in Scenarios
  /\ last \in [suite -> Reported \cup {Absent}]
  /\ runs \in [suite -> 0..(cfg.maxRetries + 1)]
  /\ broken \in [FilesOf(suite) -> {"no", "unloadable", "crashed"}]

\* No failure goes unnoticed, whatever the program reports of it and whatever a retry runs:
\* if bktec exits 0, the last execution of every test that is not muted did not fail, and
\* nothing else failed in the last run of any file.  (Run trusts the last process; the
\* pattern or paths of a retry, getPackages and the parsers decide what that process ran.)
FailuresAreNoticed ==
  Exited /\ exitStatus = 0 =>
    /\ \A t \in suite : last[t] = "failed" => t \in mutedLookup
    /\ \A f \in FilesOf(suite) : broken[f] = "no"

\* After every attempt the record of a test is what really happened to it: the status of
\* its last execution and, unless it is skipped, as many executions as it had; a test that
\* a retry left out, or filtered out, keeps both.  (RecordTestResult; vitest.go's filter.)
\* It is not so for jest, which records what the pattern filters out as skipped.
RecordMatchesRuns ==
  truthful /\ pc \notin {"assign", "invoke", "read"} /\ program \notin {"jest", "cypress"} =>
    \A t \in suite : /\ tests[t].status = last[t]
                     /\ last[t] # "skipped" => tests[t].executions = runs[t]

(***************************************************************************)
(* Why, step by step: what is inductive about a job and its suite.         *)
(***************************************************************************)

Unstarted == attempt = 0 /\ pc \in {"assign", "invoke"}

\* The record, and whether there is an error in it, once a file that is there has been read.
toRead        == pc = "read" /\ ReadsFile /\ file.kind = "readable"
recorded      == IF toRead THEN RecordAll(tests, recordable, mutedLookup) ELSE tests
errorRecorded == runError \/ (toRead /\ FailedOutside(file)) \/ (pc = "read" /\ CollectionError)

\* A test is executed once in an attempt at most, and only the retried ones after the first.
RunsAreCounted ==
  /\ cfg.runner \in Kinds(program)
  /\ program \in {"custom", "cypress"} => cfg.maxRetries = 0
  /\ Unstarted => testCases = suite /\ tests = NewRunResult(Tests)
  /\ \A t \in suite : /\ runs[t] <= IF pc \in {"assign", "invoke"} THEN attempt ELSE attempt + 1
                      /\ last[t] = Absent <=> runs[t] = 0

\* In a truthful job vitest has run every test once before it is asked for some again.
AllRanFirst ==
  program = "vitest" /\ truthful /\ ~Unstarted => errorRecorded \/ \A t \in suite : runs[t] > 0

\* The record, with what is still to be read, is what happened; vitest alone runs again,
\* without a record of it, a skipped test the pattern of another one matches.
RecordFollowsRuns ==
  truthful /\ program \notin {"jest", "cypress"} =>
    \A t \in suite :
      /\ recorded[t].status = last[t]
      /\ program # "vitest" \/ last[t] # "skipped" => recorded[t].executions = runs[t]

\* A job whose failures its runner can notice: a retry that is asked for a test runs it, or
\* nothing, and the report tells of what goes wrong outside of the tests.
RetrySelects(s) ==
  s.program \notin {"custom", "cypress"} =>
    \A t \in s.suite : t \in Selected(s.program, s.suite, {t}) \/ RefusesPaths(s.program, s.suite, {t})

ReportTells(s) ==
  /\ s.program \in {"custom", "cypress", "cucumber", "pytestjunit"} => s.faults = {}
  /\ "crashed" \in s.faults => s.program = "rspec"

Noticeable == RetrySelects(scenario) /\ ReportTells(scenario)

Failing == {t \in suite \ mutedLookup : last[t] = "failed"}
Broken  == {f \in FilesOf(suite) : broken[f] # "no"}

\* What failed last is on record as failed, or in a file still to be read, a broken file is
\* an error, and neither is followed by the success of a process.
FailuresAreOnRecord ==
  Noticeable =>
    /\ program # "cypress" =>
         /\ Failing \subseteq FailedTests(recorded)
         /\ file.kind = "readable" => \A t \in Failing : file.says.results[t] \in {"failed", Absent}
    /\ program = "cypress" => tests = NewRunResult(Tests)
    /\ Broken # {} => errorRecorded
    /\ pc \notin {"assign", "invoke", "exited"} /\ (Failing # {} \/ Broken # {}) => runErr.kind # "none"
    /\ runErr.kind = "exit" => runErr.code # 0
    /\ \A t \in Tests : tests[t].muted => t \in mutedLookup
    /\ FailuresAreNoticed

\* What holds of a job and its suite.
SuiteInv ==
  /\ SuiteTypeOK /\ RecordMatchesRuns
  /\ RunsAreCounted /\ AllRanFirst /\ RecordFollowsRuns /\ FailuresAreOnRecord

\* "bktec will retry each failed test" (docs/jest.md; docs/gotest.md of packages): a retry
\* that ends as a test run ends has run every test it was asked for, and every package.
RetryReachesFailures ==
  [][pc = "invoke" /\ attempt > 0 /\ runErr' \in {NoError, [kind |-> "exit", code |-> 1]}
       /\ (\A f \in DOMAIN broken : broken'[f] # "unloadable") =>
       /\ \A t \in testCases \cap suite : runs'[t] = runs[t] + 1
       /\ \A f \in DOMAIN broken : broken[f] = "crashed" => f \in FilesOf(selected)]_jobVars

=============================================================================
