# A TLA+ model of bktec, the Buildkite Test Engine client

bktec splits a test suite over the jobs of a build, runs each job's share with the
project's own test runner, retries what failed, and decides on the exit status of the job.
This directory holds TLA+ modules translated from its Go source, the TLC configurations
that check them on small instances, and proofs that TLAPS checks for every instance.

## 1. The system

| component | state it keeps | operations | talks to |
|---|---|---|---|
| Job (`command/run.go`, `main.go`) | test cases of this attempt, attempt, last error, timeline | run the tests, retry, promise a failure, post metadata, exit | runners, run result, API client, the agent |
| Run result (`runner/run_result.go`) | per test: status, executions, muted; one error | record, status, statistics, failed and muted tests | written by runners, read by the job |
| Test runners (`runner/*.go`) | none; the result file on disk | name tests, build a command, run it, read and record the report | a process outside of bktec |
| Plan (`command/plan.go`, `run.go`, `errors.go`, `plan/fallback.go`) | configuration, plan | validate, fetch, create, fall back, emit | API client, the server's plan cache |
| API client (`api/client.go` and its callers) | one call: budget, attempt, last error | send, retry, wait, decode | the network |
| Plan request (`request_param.go`, `path.go`) | targets with their prefixed paths | filter, expand to examples, encode | API client, runner |
| Git metadata of a plan (`git/auto_metadata.go`) | metadata map | resolve the base branch, collect, merge | git |
| Signal forwarding (`runner/command.go`) | per command: channel, goroutine | start, notify, forward, stop | os/signal, commands |
| Backfill (`backfill_commit_metadata.go`, `git/fetch.go`, `filter.go`, `metadata.go`, `packaging`, `upload`) | commit list, what is here, records, archive, form | list, verify, fetch, bisect, collect, pack, upload | server, git, S3 |
| Worker pool (`git/diff.go`) | channels of jobs and results | take, diff, send, close, collect | git |
| Fork points (`git/forkpoint.go`) | window of mainline commits | three strategies for a base | git |
| Configuration, terminal reports, discovery, decoding of files | | pure functions, or I/O | |

**What is hard.** A retry knows the failed tests only by what a report said of them, and asks
the program for them by a path or a pattern made from it. Several processes of one build come to a plan independently, each with
time-outs of its own, while the server may still be making the plan one of them gave up.
The exit status looks at the last process only, while results accumulate over attempts, from
a file that may be stale, truncated or not written. Goroutines outlive the commands they
forward signals to. A worker pool closes a channel its workers send on. A fetch of a
thousand commits fails as a whole because of one, and is bisected. Any call of any of these
may fail, and each failure is handled by its own rule. `PROJECT.json` lists these hazards
one by one, at the line where each bites, with the property that watches it, or a note why none can.

**What makes each part correct**, in short: the verdict of a job agrees with what its tests
did; a retry runs what it was made for; jobs that agree on a plan run every target once; a time-out is only reported for a call
that was never decided; a signal reaches the right command; every commit of the list
is in the archive once with its own diffs, or was refused on its own.

## 2. Modules

`A -> B`: A extends B. Every module has an `MC...` module with its constants for TLC,
except the ones that another module contains or instantiates.

| module | models | relation |
|---|---|---|
| `RunResult` | book-keeping of results, as operators on functions | |
| `TestRun` | one job from its test cases to its exit status | `-> RunResult`; implements `BoundedRetry` |
| `BoundedRetry` | what a job promises about rounds and retries | abstract |
| `Runners` | how each runner names tests, selects them for a retry and reads a status | |
| `RunnerJob` | a job whose runner is one of the programs, with a suite of tests | `-> TestRun, Runners`; implements `TestRun` |
| `RunnerJobProofs` | theorems about `TestRun`, and about `RunnerJob`: that it implements it, and what its record and its retries are worth | `-> RunnerJob` |
| `ApiClient` | one call with its retries, in ticks of time | implements `ApiCall` |
| `ApiCall` | what a call promises its caller | abstract |
| `ApiClientProofs` | theorems about `ApiClient` | `-> ApiClient` |
| `SplitPlan` | planner, jobs and the server's plan cache | its calls are `ApiCall`s, taken as one step |
| `SplitPlanProofs` | theorems about `SplitPlan` | `-> SplitPlan` |
| `RequestParams` | what a plan is asked for, and under which paths | `SplitPlan`'s `RequestParams` step |
| `PlanMetadata` | git metadata of that request | |
| `PlanRequest` | metadata, request, plan or fallback, and the paths the jobs run | `-> RequestParams`; an instance of `PlanMetadata`; implements both |
| `PlanRequestProofs` | that it does, and theorems about all three | `-> PlanRequest` |
| `SignalForward` | commands one after the other, with their goroutines | what `TestRun`'s `InvokeRunner` takes as one step |
| `Backfill` | the backfill command | uses the pool and the bases as single steps |
| `CollectDiffs` | the worker pool | |
| `ForkPoint` | the base of one commit's diff | |
| `SignalForwardProofs`, `BackfillProofs`, `CollectDiffsProofs`, `ForkPointProofs` | theorems about the module of the name | `->` that module |

How state and actions correspond to the code:

* **TestRun.** `testCases`, `attempt`, `runErr`, `timeline` are the locals of
  `runTestsWithRetry`; `tests` and `runError` are the `RunResult`; `file` is the result file
  with the attempt that wrote it. `pc` follows the control flow. `InvokeRunner` picks any
  end of the process and anything it may do to the file; `RecordReport` is the second half
  of a runner's `Run`. Ten runners come down to eight kinds by when they read the file and what
  they record (`Runners`). `conduct` (`signalled`, `truthful`, `orderly`) is history: whether
  the runner has so far kept to what runners are documented to do. It is read by properties only.
* **ApiClient.** `left` is the rest of the budget (`retryTimeout`), `flight` the time the
  attempt has used, `wait` the timer of the retry loop. `BudgetSpent` and `TimerFires` are both enabled when
  both are ready, as in a `select`. `embargo`, `overrun` and `hurried` are history.
* **SplitPlan.** One process for `bktec plan`, one per job. `stored` and `creating` are the
  server's; requests reach it in any order, also after their senders gave up (`asked`).
  `jobs` is the number of jobs the pipeline ends up with.
* **Runners, RunnerJob.** A test is what its program knows of it: path, groups, name, project.
  `Runners` has one operator per rule of a runner: `...Path` and `TestMain` for the identity
  it records, `JestPattern`, `VitestPattern`, `Packages` and `PathsOf` for the command of a
  retry, `...Status` for the status read from an entry. The programs are external: `Entries`
  is what they write, `Matches`, `Selected` what they run. In `RunnerJob` every step of bktec
  is an action of `TestRun`; `RunSuite` stands for `InvokeRunner`, with the file and the exit
  code the program leaves. `last`, `runs` and `broken` are history: what happened to the tests.
* **RequestParams, PlanMetadata, PlanRequest.** The functions are actions in the order they are
  called; a path or ref is the sequence of its parts, so prefixing, cleaning and `filepath.Rel`
  are what they do, not the identity. Two paths are of one file when they are the same cleaned, from
  the root of the repository (`FileForServer`): a target may leave the directory of the prefix and come
  back. `asked` is what the runner is asked for, `listed` what it finds examples in: pytest finds none in a
  file without the tag, rspec none in a file without examples. `PlanRequest` goes on to the plan (`ReceivePlan`,
  external: a server that may leave out anything it was asked for; or `FallBack`) and to
  `trimTaskLocationPrefix`; the tasks of all jobs are taken together.
* **SignalForward.** `sigCh[k]` has room for one signal; `Offer` drops what does not fit,
  for every listening goroutine. The default effect of a signal applies where nobody listens.
  Another command may follow any (`GoesOn`): `runTestsWithRetry` decides on a retry by the results on
  record and looks at the error only to return it, so one that was signaled, or that did not start, may be retried.
  `pipe[k]` is the pipe through which the output of `go test` is copied (`gotest.go`): it may be
  held open by what the command has started, and `Wait` waits for it.
* **Backfill.** `todo` is the stack of the recursive `fetchBatch`; `fetches` counts calls.
  `form` counts presigned forms; a form is good for one upload attempt.
* **CollectDiffs, ForkPoint.** Channels are sequences; git's answers are computed from a
  history (`Ancestors`, `MergeBases`, `FirstParents`), or fail.

In every module a definition whose comment begins with "Fault:" is never used by the
specification. It is what a plausible bug of the definition below it would be; with it in
place TLC finds the property violated that `PROJECT.json` names for it.

## 3. Runs

No run checks for deadlock: every program modelled here comes to an end (a call returns, a
job exits, a command is over), and then no action is enabled. That they end, and do not stop
before, is checked as liveness where they wait for somebody (`ImplementsRounds`,
`EveryCallEnds`, `EveryoneDecides`, `CollectionEnds`, `ForwardersStop`). `ForkPoint` and
`PlanRequest` are sequences of at most ten steps, and so is `Backfill` but for its bisection,
whose number of fetches `FetchInv` bounds. `RunnerJob` ends because `TestRun` does.

| run | bounds | what it shows |
|---|---|---|
| `TestRunVerdict` | two tests, one muted; one retry, or two with muted tests; exit codes 1 and 2, signal 9; every kind of runner; every report; files left over from earlier jobs; fallback plans, jobs without promise or upload | A job with orderly runners that exits 0 has no failure to hide, and one that exits otherwise has one to show; promises are final; retries are for failures; statistics add up; each attempt's file is uploaded once, a stale one never; the job implements `BoundedRetry`, fairness included |
| `SplitPlanBuild` | three jobs, two targets in either order; limits -1, 0 and 2; every mode, runners that split files | Jobs that agree are complete; no target is run more than twice; what is lost is lost to disagreement only; a job finds no task only after the planner fell back; everyone decides |
| `ApiClientCalls` | budget 8 with time-out 3, 6 with 1; intervals 1 and 3; resets 0, 2, 9 | Honest time-outs, bounded overrun, rate limits kept, implements `ApiCall`, ends |
| `RunnerJobSuites` | each program with suites of up to three tests; files that do not load or crash; none, one or two retries, of muted tests too; a fallback plan; pytest's exit codes, signal 9 | A job that exits 0 has no unmuted test that failed last, and no broken file; the record is what happened; a retry runs every test it was made for |
| `PlanRequestPaths` | up to three targets: under the directory, with `./`, outside of it, out and back in; six prefixes; any of four refs, four base branches, with or without a remote | Targets are asked for once, by paths both sides know; the user's metadata wins and diffs are of the base asked for if it exists; the jobs run files that were found, from plan or fallback, and none is lost but those without examples and those the server leaves out |
| `SignalForwardGoroutines` | two commands, with or without a pipe, three signals; the second also after a first that was signaled or did not start | No command runs beside an earlier one or its output; no goroutine swallows a later command's signals; none outlives its command for long; bktec dies before its command in one short window only |
| `CollectDiffsPool` | two workers, three commits, two diffs | No panic, no hang, no commit twice or misplaced |
| `ForkPointBases` | all histories of four commits with all tips, reflogs and windows | A base is a shared ancestor; when it is the commit itself |
| `BackfillArchive` | four commits, chunks of three, three modes, every failure | Nothing forgotten, a bounded number of fetches, only refused commits skipped, archive faithful and stored once, tarball kept for a retry of the upload and otherwise removed, once its size is known |

The properties by name; each is stated in words above its definition. A name that
ends in `Inv` stands for a type invariant and the parts beside it, which together are what the
proofs of section 4 show to be inductive; `MetadataInv` stands for the two properties of `PlanMetadata`.

| run | properties |
|---|---|
| `TestRunVerdict` | `JobInv`, `NoMissedFailure`, `NoFalseAlarm`, `PromiseOnlyWhenFinal`, `StatisticsAddUp`, `OrderlyUploads`, `RetriesFailuresOnly`, `ImplementsRounds` |
| `TestRunSignal` | `SignalPropagated` |
| `RunnerJobSuites` | `SuiteInv`, `FailuresAreNoticed`, `RetryReachesFailures` |
| `RunnerJobJest` | `RetryReachesFailures` |
| `SplitPlanBuild` | `PlanInv`, `CompleteWhenAgreed`, `AtMostTwice`, `LostOnlyByDisagreement`, `CrashOnlyAfterPlannerFallback`, `EveryoneDecides` |
| `SplitPlanCrash` | `PlanIsConsumed` |
| `ApiClientCalls` | `CallInv`, `TimeoutIsHonest`, `OverrunIsOneAttempt`, `RateLimitRespected`, `ImplementsCall`, `EveryCallEnds` |
| `ForkPointBases` | `BaseIsSharedAncestor`, `EmptyOnlyWhenMerged` |
| `CollectDiffsPool` | `PoolInv`, `ResultsMatchCommits`, `CollectionEnds` |
| `BackfillArchive` | `FetchInv`, `OnlyRefusedAreSkipped`, `ArchiveIsFaithful`, `DeliveredOnce`, `TarballKeptForRetry` |
| `SignalForwardGoroutines` | `ForwardInv`, `OrphanOnlyBeforeNotify`, `ForwardersStop` |
| `PlanRequestPaths` | `EveryTargetOnce`, `ExamplesAreTheServers`, `MetadataInv`, `RunsWhatWasFound` |

Why the bounds are enough for the cases that matter. *Two tests*: one that is muted and one
that is not, in all pairs of statuses; verdicts depend on whether sets of them are empty.
*Two retries*: a test may fail, pass and fail again.
*Suites of three*: a test, one that the pattern or path of the first may catch (the same title
inside a group and outside, the same location in two projects, a class named like a file), and
a muted one, in two files of which one may be broken. *One part of a request at a time*: metadata and
targets read nothing of each other's state, so `MCPlanRequest` varies one while the other
has one value. *Three jobs, two targets*: a plan smaller
than the number of jobs, a job without tests, and every split between plan and fallback.
*Ticks*: the proportions of the code's budget, time-outs and intervals, so that an attempt may
straddle the deadline and a reset may lie before it, or beyond it. *Two commands*: the goroutine of the
first may meet the second; *three signals*: one in the channel, one too many, one for the
other command. *Three commits, two workers*: one worker takes a second commit while the other
is at its first. *Four commits in a history*: a merge of two branches that share a root.
*Four commits to fetch in chunks of three*: a full chunk that is cut unevenly, and a last one
of one. Bounds on counters are constants (`MaxSignals`, `MaxJobs`) or follow from the program
(attempts, budget, length of the list).

**Fairness.** `TestRun`, `BoundedRetry`: one sequential program takes its steps
(`WF_vars(Next)`), which supposes that runners end; nothing in bktec ends a runner that
does not. `SplitPlan`: planner and jobs go on, because the client's
budget ends their calls (`EveryCallEnds`); nothing is assumed of the server. `ApiClient`: time
passes, the client takes its steps, and a `select` with both channels ready does not
prefer the timer for ever (strong fairness of `BudgetSpent`; Go chooses at random). Without
it a server that tells `RateLimit-Reset: 0` for ever keeps the client. `CollectDiffs`:
goroutines that can run do. `SignalForward`: the same, and strong fairness of `Finish`, for
signals may keep coming; no fairness of commands, which may run for ever.

### Where the code and its documentation disagree

Three runs end in a counterexample; `PROJECT.json` quotes both sides.

* `TestRunSignal`: an attempt killed by a signal, with a readable report of failures, is retried; the signal is lost.
* `SplitPlanCrash`: a planner that timed out starts more jobs than the server's plan has tasks; the others dereference nil.
* `RunnerJobJest`: the pattern for a Jest test outside of any `describe` begins with a blank and does not match it; its retry runs nothing, exits 0, and the job passes.

Some more statements of comments and docs are written down in the modules, each with its
source, and are not kept by the code either. No run lists them; as an INVARIANT in the
configuration of its module each gives the counterexample described here.

* `TestRun!PromiseKept`: a failure is promised from accumulated results (`run.go:90`), the exit status comes from the last process: when it no longer reports the failed test, a job promises a failure and exits 0.
* `ApiClient!NetworkErrorsAreRetried`: a network error while reading a body (`client.go:319`) is neither retried nor recoverable.
* `SplitPlan!PlanOutFallsBackUnreached`: `--plan-out` falls back also on answers (billing, 404, 422) of a server that was reached (`plan.go:152`; `README.md:217` says only when it cannot be reached at all).
* `ForkPoint!MergeBaseIsForUnmerged`: the strategy for unmerged branches (`forkpoint.go:81`) is used for merged commits, whose diffs come out empty: a mainline commit just outside of the window is diffed with itself. `EmptyOnlyWhenMerged` permits that.
* `Backfill!ScopesVerified`: an upload for a suite without commits succeeds (`backfill_commit_metadata.go:49`) without `write_suites` being verified.
* `SignalForward!SignalsAreForwarded`: SIGTERM is dropped while another signal is in the channel of one (`command.go:53`).
* `PlanRequest!TagFilterIsKept`: with `--tag-filters` a job runs also files without examples of the tag (`docs/pytest.md:67`) when the plan is a fallback, made of the targets as they were found (`run.go:462`, `472`).
* `PlanMetadata!BaseSentIsBaseDiffed`: a base branch that names no ref is sent with diffs against another branch (`auto_metadata.go:163`).

`FailuresAreNoticed` and `RecordMatchesRuns` are not true of every job either. The scenarios of
`RunnerJobSuites` leave out these, each of which gives a counterexample as `Scenarios`:

* `GoTestCrashes`: gotestsum's JUnit names no package in the entry `TestMain` of a package that
  crashed. Two such packages share one entry, and the retry command drops it
  (`gotest.go:405`): beside another failure the retry passes without them. From go test's events a crash
  is only recorded if no test of its package failed (`gotest.go:237`): beside a muted failure
  the exit code 1 is taken to be that failure's.
* `CucumberLoads`: a feature that does not load in a retry leaves a report that does not parse;
  the muted failure of the attempt before is still on record, and the exit code 1 is suppressed.
* `JestTopLevel`, see above. Jest's `Run` also records what a retry's pattern leaves out as skipped
  (vitest's drops it), so `RecordMatchesRuns` does not speak of jest.

For errors that jest, vitest and cucumber do not report as tests at all (a failing `afterAll`, a
failing Background), the model has the file "unloadable" only; "crashed" files are checked for rspec
and go, which report them. Custom and cypress are checked without retries, which they do not support.

## 4. Proofs

**RunnerJobProofs**, first of `TestRun`, for any finite set of tests, muted tests, reports, leftover files, exit
codes, signals and configurations (`TestRunAssumption`):

* `TypeCorrect`; the finiteness of the tests is needed for the statistics to be numbers.
* `VerdictInvariant`. *No missed failure* is not inductive: it speaks of the end. `VerdictInv`
  has a conjunct per stage. Before an invocation there is no error and every unmuted failure
  is among the tests asked for (`AskedForFailures`): this is why a complete report
  overwrites every failure. After the process ends, history and file agree (`RunnerConduct`).
  After recording, success of the last process means no failure in the record of all of them,
  and exit code 1 means one (`RecordAgrees`). `NoFailureIsMissed` and `NoAlarmIsFalse` follow.
* `LoopInvariant`: `LoopInv` says of the retry loop, whatever runners do, that it is left with
  a failure only when no attempt is left or an error forbids one. `PromiseIsFinal` follows.
* `ReportsInvariant`: `ReportsInv` counts the events of the timeline by stage, for an attempt is two events
  and, in an orderly job, one upload of its own file; and what is posted is of the final record.
  `UploadsAreOrderly` follows, and with the types `StatisticsAreRight`: the buckets of the
  statistics are disjoint sets of tests, for any number of them (`BucketsAddUp`).
* `JobInvariant`: the four together. `ErrorStopsTheLoop` and `RetriesAskForFailures`, action
  properties, and `JobImplementsRounds`: the initial states and steps
  of a job map to those of `BoundedRetry`, or to stutters.

**ApiClientProofs**, for any budgets, time-outs, intervals and resets (`ApiClientAssumption`):

* `TypeCorrect`, `TimeoutsAreHonest`.
* `OverrunInvariant`, then `OverrunIsBounded`. The bound is not inductive: one must know that past
  the deadline an attempt has used at least the overrun (`overrun <= flight`), and that a
  timer not yet due leaves the deadline as the only thing that fires. `OverrunInv` says so.
* `RateLimitIsRespected` from `EmbargoInv`: the timer never fires before the reset that was told.
* `CallInvariant`: types, `OverrunInv` and `EmbargoInv` together. `ClientImplementsCall`: each step is a step of `ApiCall` or a stutter.

**SplitPlanProofs**, for any number of targets and jobs, any configurations and any orders in
which jobs may find the targets (`SplitPlanAssumption`); nothing is assumed of the server but
that the sizes of its plans are among the requested ones (`Allowed`):

* `PlanInvariant`. No property of the split is inductive: each speaks of what jobs run, and
  what they run depends on how they came to their plan. `PlanInv` says it: `InOrder` (a job starts after the
  planner is done, with the `jobs` the planner emitted; the order in which the pipeline is
  made), `ServersPlan` (a plan is stored once, only after a request, and of a size that request
  allowed), `Provenance` (what a process has is its own fallback or the stored plan, and the
  process has a task in it exactly if it runs). `ServersPlan` is what makes a got plan stay the stored
  one; `InOrder` makes the fallbacks of all jobs the same plan.
* `AgreementIsComplete` and `TwiceAtMost`. Both rest on the split of a fallback by sorted
  position, which is the same whatever order a job found the targets in (`FallbackOwner`
  depends on the target and the number of jobs only): one job of the fallback, and one of the
  server's plan, own a target.
* `LossIsDisagreement`, `CrashesAreThePlanners`: the server's plan never has more tasks than the
  pipeline has jobs, and fewer only if the planner fell back to the limit it had asked for.

**RunnerJobProofs**, then of `RunnerJob`, for any suites and names (`RunnerJobAssumption`), if reports may say anything
(`Report \subseteq Reports`) and the exit codes include those of the programs:

* `SuiteImplementsJob`: every step of a job with a suite is a step of `TestRun`. The argument is
  one of types: whatever a program writes of a test, a status is read from it (`StatusReadType`), so
  its file is a report (`ResultsReadType`) and its end one of `Ends` (`RunSuiteInvokes`); the only
  invariant needed is that program and kind of runner go together (`Given`). `SuiteJobInvariant`
  follows from `JobInvariant`.
* `SuiteInvariant`. That the record is what happened (`RecordMatchesRuns`) is not inductive: between
  the end of a process and the reading of its file the record is behind. `RecordFollowsRuns` says it
  of `recorded`, the record once that file is read. A test is executed at most once in an attempt
  (`RunsAreCounted`). Vitest is the hard case, for its filter (`FilteredOut`) takes a skipped
  test without an earlier result for one that a pattern left out: one needs that in a truthful job it
  has run every test before it is asked for some again (`AllRanFirst`). The steps are
  sorted into four kinds (`StepsOfAJob`), which the lemmas about each part share.
* `NothingGoesUnnoticed` (`FailuresAreNoticed`) for jobs that are `Noticeable`: a retry for a test selects that test
  or is refused (`RetrySelects`), and files do not crash or fail to load where the report does not
  tell (`ReportTells`). Both are about the scenario, not about what bktec does, and what is
  excluded by them is where the property is false (section 3) or where TLC alone decides it: crashes
  of go's packages. Most scenarios of `RunnerJobSuites` are such, at least one for each
  program. Nothing is assumed of the process: it may be killed, or leave a file of an earlier
  attempt. `FailuresAreOnRecord` is what makes it so: what failed last is on record as failed,
  or in a file that is still to be read, until a retry runs it, and every retry does.
* `RetriesReach` (`RetryReachesFailures`) in the same jobs.

**SignalForwardProofs**, for any number of commands and of signals: `SignalsFindTheirCommand`
(`ForwardInv`) and `OrphansAreUnregistered`, proved together. That a command gets no signal from before
its start needs `HeardInTime` (what waits in its channel came while it ran), and that needs `FinishedAreOver`
and `StartedInOrder`: `Run` goes on only when its command is over, or was never started, and a call that has not
begun has no channel. Nothing is needed of how an earlier command ended: a retry of a signaled one is as any other.

**CollectDiffsProofs**, for any number of commits, workers and diffs: `PoolInvariant` and
`ResultsAreTheCommits`. `EveryCommitInOnePlace` counts; `Placed` says the same with quantifiers, which is what
the steps are proved with, and the count follows (`PlacedInOnePlace`). `Delivered` follows a
result through the channel to its place in the slice, and `EndsInOrder` says in which order the
pool ends, so that nobody sends on the closed channel and the collector returns with everything.

**ForkPointProofs**, for every history in which parents come before their children, of any length:
`BaseInvariant`, then `BasesAreSharedAncestors` and `EmptyDiffsAreOfMergedCommits`. That the mainline is
made of ancestors of its tip, and ancestors of ancestors are ancestors, is shown by induction along
the parents of a commit (`MainlineIsMerged`, `AncestorsAreTransitive`).

**BackfillProofs**, for any list of commits that has none twice, and any size of chunks:

* `FetchInvariant`. No commit is forgotten: what is missing is here, refused, or in a slice that is still to be
  fetched. The bound of the bisection, fewer than two fetches for each missing commit, is inductive
  in this form: the fetches so far, and two for each commit pending, are less than two for each missing one
  and one for each slice on the stack (`SlicesAreCounted`). A cut adds a slice; a fetch that ends a slice takes off
  at least one commit, and slices do not overlap. The loops that filter the list and make its chunks are
  `Those` and the definitions beside it, whose properties are lemmas (`ThoseProperties`, `ChunksAreApart`).
* `SkippedWereRefused`, `ArchivesAreFaithful`, `ArchivesAreDeliveredOnce`, and the action
  property `TarballsAreKept` follow from it. The last leaves out the making of the tarball: when its size
  cannot be had (`backfill_commit_metadata.go:208`), the removal is not deferred yet, and the file may stay.

**PlanRequestProofs**, for any names, target lists, location prefixes, refs and base branches (`RequestAssumption`,
`PlanMetadataAssumption`):

* The algebra of cleaned paths. Cleaning goes part by part (`CleanAppend`); a cleaned path goes up before it
  goes down (`CleanCleaned`) and stays as it is (`CleanOfCleaned`); either half of a path may be cleaned first
  (`CleanLeft`, `CleanRight`).
* `RelIsRight`: a path that had the prefix put on has it taken off, whatever ".." there are in either. Every ".." of the
  prefix is also in the path (`UpsStay`), so what only the prefix has is names, which ".." take back one
  by one (`UpAgain`). So the error of `filepath.Rel` that `trimFilePathPrefix` passes on never arises, and has no action.
* `EveryTargetIsAskedFor`: `RequestInv`, inductive, says of the selectors and of the files handed to the runner
  that together they stand for the files of the targets (`AllAskedInv`), of the examples that they are of the files
  they were found in (`ExamplesInv`), and that with tags to filter by nothing is asked for but examples
  (`TagInv`). That a file has an example is not said, for it may have none.
  `ExamplesAreOfTheServersFiles` follows. `EveryTargetIsAskedForOnce`
  needs `OneSpelling`: no list spells one file in two ways where paths are sent as they are spelled (no
  prefix, or `./`). Without it the property is false: the server picks one spelling, and the other
  is asked for as a selector beside it. The lists of `PlanRequestPaths` are such.
* `PlanMakesOneRequest`, `PlanCollectsMetadataOnce`: `PlanRequest` implements `RequestParams` and `PlanMetadata`, so
  what is proved of each holds of it.
* `FilesFoundAreRun`: `TaskInv` follows the files of a task from the plan to the runner, by
  how each of its cases is going to be trimmed. `AreFound` is said of them from the moment the plan is
  there: what the server got stands for the targets' files but those without examples (`RequestInv`), what it left out
  is in `leftOut`, and a fallback plan has them all. What was found and dropped does not change after
  that (`FoundStays`).
* `MetadataIsRight`: `CollectedInv` (no empty value; diffs only of a base branch that is there, which is sent along)
  and `MetadataTypeInv` (the base branch is the resolved one) hold at every step, whichever calls of
  git fail; that a base branch found as given is taken before others is `ResolvedAsGiven`.

**Induction** over numbers, lists, paths and histories is done in these modules with sets: the library's induction theorems
take an operator as a parameter, which no prover here instantiates, but a set of counterexamples has a
least member (`LeastNumber`, from `WFMin`), which is then refuted; for sequences, a set that is closed
under `Append` has all of them (`AppendInduction`). That a recursive function satisfies its
equation is shown in the same way (`AncestorsExist`, `ChainExists`, `KeptExists`, `EnteredExists`): a solution up to `n`
exists for every `n`.

TLC checks every invariant that the proofs use in the runs of section 3, but a few that say more than the
properties they are for: `BaseInv` of `ForkPoint` (a commit strategy 3 is used for was not in the cache), and
`RequestInv`, `OnceInv`, `TaskInv`, `MetadataTypeInv` and `CollectedInv` of `PlanRequestProofs`. As INVARIANTs in
`ForkPointBases` and `PlanRequestPaths` (with the sets of all paths cut down to the paths of a state) they hold.

**Only model-checked**: all liveness (fairness and ENABLED are beyond the prover), that of `BoundedRetry` in
`ImplementsRounds` included; and of
`FailuresAreNoticed` and `RetryReachesFailures` what is not `Noticeable`.

## 5. What is not modelled

* The syntax of result files and commands, test discovery, detection of the runner, terminal
  reports, debug output: conversions and formatting without state. `TestRun` takes any outcome of a
  parser; `Runners` has what is decided on the way. Two entries with one identity in one file
  (a duplicate title in Jest or Vitest, where the last one wins) are not modelled.
* Flags, defaults and OIDC tokens; of validation only what the plan relies on.
* Absolute paths, and the sentinel values of the selection strategy.
* What a command's output says. That it is copied, and who holds the pipe, is modelled.
* Cancellation of contexts: bktec runs under `context.Background()`.
* What the server decides: which tests go where, which files are slow, which tests of a request it
  selects or skips. It is free in the models.
* Two errors `RecordReport` does not have: jest and vitest give up a report half way when the working directory
  cannot be told, or a path not made relative to it (`jest.go:117`, `vitest.go:132`).

## 6. Plan

1. `NothingGoesUnnoticed` for go, whose crashed packages are recorded as tests of their own.
2. Composition: `SplitPlan`'s calls as instances of `ApiCall`; a build whose jobs are `TestRun`s,
   for the promise that a build that passes has run every target.
3. Configuration: `ValidateForRun` with its order of range checks and the tokens it mints.
