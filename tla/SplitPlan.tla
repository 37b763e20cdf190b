------------------------------ MODULE SplitPlan ------------------------------
(***************************************************************************)
(* How the jobs of a build come to agree on who runs which tests: `bktec   *)
(* plan`, which may decide the number of jobs, the server that stores one  *)
(* plan under the build's identifier, and the `bktec run` of every job,    *)
(* which fetches that plan, has it created, or falls back to a split of    *)
(* its own (internal/command/plan.go, fetchOrCreateTestPlan in run.go,     *)
(* handleError in errors.go, internal/plan/fallback.go).                   *)
(*                                                                         *)
(* The server is external.  It stores at most one plan for the identifier, *)
(* never replaces it, and answers 409 while it is being created for        *)
(* another client; any call may also fail in every way the client knows.   *)
(***************************************************************************)
EXTENDS Integers, FiniteSets

CONSTANTS
  NumTargets,  \* how many test targets (files or selectors) the suite has
  MaxJobs,     \* bound: no configuration asks for more jobs
  Configs,     \* the configurations of a build
  Listings     \* the orders in which a job may discover the targets

Targets   == 0 .. NumTargets - 1     \* in the order slices.SortFunc gives them
Jobs      == 0 .. MaxJobs - 1        \* BUILDKITE_PARALLEL_JOB
Planner   == -1                      \* the process of `bktec plan`
Processes == {Planner} \cup Jobs

\* "static": no plan step, the pipeline says how many jobs there are.  The others are
\* the output modes of `bktec plan`; --plan-out starts no jobs.
Modes == {"static", "json", "pipeline", "planout"}

\* splits: the runner's files are first filtered through the server, then expanded.
Config == [mode : Modes, maxParallelism : Int, parallelism : Int, splits : BOOLEAN]

ASSUME SplitPlanAssumption ==
  /\ NumTargets \in Nat
  /\ MaxJobs \in Nat
  /\ Configs \subseteq Config
  /\ \A c \in Configs : /\ c.maxParallelism <= MaxJobs /\ c.parallelism <= MaxJobs
                        /\ c.mode = "static" => c.parallelism >= 1 /\ c.maxParallelism = 0
  /\ Listings \subseteq [Targets -> Targets]

\* A plan: how many tasks it has, and the task each target is in; a target the server
\* leaves out of its plan (skipped, or not selected) is in none.
None == -1
Plan == [tasks : Int, owner : [Targets -> Int], fallback : BOOLEAN]

Nobody    == [t \in Targets |-> None]
NoPlan    == [tasks |-> None, owner |-> Nobody, fallback |-> FALSE]
ErrorPlan == [tasks |-> 0, owner |-> Nobody, fallback |-> FALSE]

\* What a call of the API client may end in, apart from an answer: the errors handleError
\* tells apart.  "timeout" is ErrRetryTimeout: no attempt was answered with anything but
\* a conflict, a rate limit or a server error.
Errors == {"timeout", "billing", "unprocessable", "notFound",
           "auth", "forbidden", "badRequest", "unexpected"}

VARIABLES
  cfg,       \* the configuration of the build
  listed,    \* the position of each target in what a job has discovered
  pc,        \* where each process is
  got,       \* the plan each process has come by
  asked,     \* the processes that have sent a request to create the plan
  stored,    \* the server's plan for the identifier
  creating,  \* the numbers of tasks the plan being created may have; {} if none is
  jobs,      \* the number of jobs the pipeline has, None as long as it is undecided
  reached    \* history: the planner's last call was answered

vars == <<cfg, listed, pc, got, asked, stored, creating, jobs, reached>>

server == <<stored, creating>>

PlannerSteps == {"validate", "params", "create", "emit", "done", "failed"}
JobSteps     == {"waiting", "fetch", "params", "create", "running", "crashed", "failed"}

HasStarted(n) == n < jobs

Init ==
  /\ cfg \in Configs
  /\ listed \in [Jobs -> Listings]
  /\ jobs = IF cfg.mode = "static" THEN cfg.parallelism ELSE None
  /\ pc = [p \in Processes |-> IF p # Planner THEN "waiting"
                               ELSE IF cfg.mode = "static" THEN "done" ELSE "validate"]
  /\ got = [p \in Processes |-> NoPlan]
  /\ asked = {}
  /\ stored = NoPlan
  /\ creating = {}
  /\ reached = FALSE

-----------------------------------------------------------------------------
\* Local fallbacks.

\* Fault: the targets are dealt out in the order they were discovered.
UnsortedOwner(n, parallelism) == [t \in Targets |-> listed[n][t] % parallelism]

\* CreateFallbackPlan: the sorted targets are dealt out in turn.
FallbackOwner(n, parallelism) == [t \in Targets |-> t % parallelism]

FallbackPlan(n) == [tasks |-> jobs, owner |-> FallbackOwner(n, jobs), fallback |-> TRUE]

\* Fault: as `bktec run` does, which has no --max-parallelism.
StaticParallelism == cfg.parallelism

fallbackParallelism == IF cfg.maxParallelism > 0 THEN cfg.maxParallelism ELSE cfg.parallelism

\* makeFallbackPlan and emitLocalFallback: a number of tasks, and no tests in them.
PlannerFallback == [tasks |-> fallbackParallelism, owner |-> Nobody, fallback |-> TRUE]

LocalPlan(p) == IF p = Planner THEN PlannerFallback ELSE FallbackPlan(p)

\* handleError: the errors that are only warned about.
Recoverable(e) == e \in {"timeout", "billing", "unprocessable", "notFound"}

\* Where a process goes with a plan: a job whose task is missing from it dereferences nil,
\* and trimTaskLocationPrefix may refuse a path of the server's.
After(p, plan) ==
  IF p = Planner THEN {"emit"}
  ELSE IF p >= plan.tasks THEN {"crashed"}
  ELSE IF plan.fallback THEN {"running"} ELSE {"running", "failed"}

Enter(p, plan) ==
  /\ got' = [got EXCEPT ![p] = plan]
  /\ \E step \in After(p, plan) : pc' = [pc EXCEPT ![p] = step]

\* A process whose call failed: it falls back, or ends with exit status 16.
Fail(p, e) ==
  /\ IF Recoverable(e)
       THEN Enter(p, LocalPlan(p))
       ELSE /\ pc' = [pc EXCEPT ![p] = "failed"]
            /\ UNCHANGED got
  /\ reached' = IF p = Planner THEN e # "timeout" ELSE reached

\* An empty list of tasks is an error plan; --plan-out passes it on.
Receive(p, plan) ==
  Enter(p, IF plan.tasks = 0 /\ ~(p = Planner /\ cfg.mode = "planout") THEN LocalPlan(p) ELSE plan)

-----------------------------------------------------------------------------
\* bktec plan.

\* Fault: a parallelism of zero is left to the server to refuse.
LimitsOnly == cfg.maxParallelism >= 0

\* ValidateForPlan, the part about parallelism.
PlanIsValid ==
  /\ cfg.maxParallelism >= 0
  /\ cfg.maxParallelism = 0 => cfg.parallelism > 0

\* An invalid configuration ends the plan step, and with it the build.
ValidateForPlan ==
  /\ pc[Planner] = "validate"
  /\ pc' = [pc EXCEPT ![Planner] = IF PlanIsValid THEN "params" ELSE "failed"]
  /\ UNCHANGED <<cfg, listed, got, asked, server, jobs, reached>>

\* Fault: as many jobs as the server was allowed to plan for.
EmitLimit ==
  /\ pc[Planner] = "emit"
  /\ jobs' = IF cfg.mode = "planout" THEN 0 ELSE fallbackParallelism
  /\ pc' = [pc EXCEPT ![Planner] = "done"]
  /\ UNCHANGED <<cfg, listed, got, asked, server, reached>>

\* The pipeline gets as many jobs as the plan has tasks.
Emit ==
  /\ pc[Planner] = "emit"
  /\ jobs' = IF cfg.mode = "planout" THEN 0 ELSE got[Planner].tasks
  /\ pc' = [pc EXCEPT ![Planner] = "done"]
  /\ UNCHANGED <<cfg, listed, got, asked, server, reached>>

\* The output cannot be written, or the pipeline upload fails: there are no jobs.
EmitFails ==
  /\ pc[Planner] = "emit"
  /\ pc' = [pc EXCEPT ![Planner] = "failed"]
  /\ UNCHANGED <<cfg, listed, got, asked, server, jobs, reached>>

-----------------------------------------------------------------------------
\* bktec run, and what it shares with bktec plan.

\* The runner is unknown, its targets are not found, or the --plan-out file not opened.
SetUpFails(p) ==
  /\ IF p = Planner THEN pc[p] = "params" ELSE pc[p] = "waiting" /\ HasStarted(p)
  /\ pc' = [pc EXCEPT ![p] = "failed"]
  /\ UNCHANGED <<cfg, listed, got, asked, server, jobs, reached>>

StartJob(n) ==
  /\ pc[n] = "waiting"
  /\ HasStarted(n)
  /\ pc' = [pc EXCEPT ![n] = "fetch"]
  /\ UNCHANGED <<cfg, listed, got, asked, server, jobs, reached>>

FetchTestPlan(n) ==
  /\ pc[n] = "fetch"
  /\ stored # NoPlan
  /\ Receive(n, stored)
  /\ UNCHANGED <<cfg, listed, asked, server, jobs, reached>>

\* A 404 is not an error here: there is no plan yet.
FetchMisses(n) ==
  /\ pc[n] = "fetch"
  /\ stored = NoPlan
  /\ pc' = [pc EXCEPT ![n] = "params"]
  /\ UNCHANGED <<cfg, listed, got, asked, server, jobs, reached>>

FetchFails(n) ==
  /\ pc[n] = "fetch"
  /\ \E e \in Errors \ {"notFound"} : Fail(n, e)
  /\ UNCHANGED <<cfg, listed, asked, server, jobs>>

\* createRequestParam: nothing to ask the server, or FilterTests answers and the examples
\* of the files it names are found.
RequestParams(p) ==
  /\ pc[p] = "params"
  /\ pc' = [pc EXCEPT ![p] = "create"]
  /\ asked' = asked \cup {p}
  /\ UNCHANGED <<cfg, listed, got, server, jobs, reached>>

\* FilterTests fails, or the runner cannot list the examples ("unexpected").
RequestParamsFails(p) ==
  /\ pc[p] = "params"
  /\ cfg.splits
  /\ \E e \in Errors : Fail(p, e)
  /\ UNCHANGED <<cfg, listed, asked, server, jobs>>

CreateTestPlan(p) ==
  /\ pc[p] = "create"
  /\ stored # NoPlan
  /\ Receive(p, stored)
  /\ reached' = (reached \/ p = Planner)
  /\ UNCHANGED <<cfg, listed, asked, server, jobs>>

\* Fault: a conflict is retried for ever.
CreateNeverTimesOut(p) ==
  /\ pc[p] = "create"
  /\ creating = {}
  /\ \E e \in Errors : Fail(p, e)
  /\ UNCHANGED <<cfg, listed, asked, server, jobs>>

\* Any error, and a time-out even when the server has stored, or will store, the plan.
CreateFails(p) ==
  /\ pc[p] = "create"
  /\ \E e \in Errors : Fail(p, e)
  /\ UNCHANGED <<cfg, listed, asked, server, jobs>>

-----------------------------------------------------------------------------
\* The server (external).

\* The numbers of tasks a request allows: --max-parallelism is a limit, parallelism is not.
Allowed  == IF cfg.maxParallelism > 0 THEN 1 .. cfg.maxParallelism ELSE {cfg.parallelism}
Sizes(p) == IF p = Planner THEN Allowed ELSE {jobs}

\* The first request to arrive; it may do so after its sender has given up.
ServerStarts(p) ==
  /\ p \in asked
  /\ stored = NoPlan /\ creating = {}
  /\ creating' = Sizes(p)
  /\ UNCHANGED <<cfg, listed, pc, got, asked, stored, jobs, reached>>

\* A plan, an error plan, or an error of the server's own.
ServerFinishes ==
  /\ creating # {}
  /\ \/ \E k \in creating : \E owner \in [Targets -> None .. k - 1] :
          stored' = [tasks |-> k, owner |-> owner, fallback |-> FALSE]
     \/ stored' = ErrorPlan
     \/ stored' = NoPlan
  /\ creating' = {}
  /\ UNCHANGED <<cfg, listed, pc, got, asked, jobs, reached>>

-----------------------------------------------------------------------------
Calls(p) ==
  SetUpFails(p) \/ RequestParams(p) \/ RequestParamsFails(p) \/ CreateTestPlan(p) \/ CreateFails(p)

PlannerNext == ValidateForPlan \/ Calls(Planner) \/ Emit \/ EmitFails

JobNext(n) == StartJob(n) \/ FetchTestPlan(n) \/ FetchMisses(n) \/ FetchFails(n) \/ Calls(n)

Next ==
  \/ PlannerNext
  \/ \E n \in Jobs : JobNext(n)
  \/ \E p \in Processes : ServerStarts(p)
  \/ ServerFinishes

Spec == Init /\ [][Next]_vars

\* Every process goes on; the client's budget for retries ends every call it makes.  The
\* server may stop answering for good.
FairSpec == Spec /\ WF_vars(PlannerNext) /\ \A n \in Jobs : WF_vars(JobNext(n))

-----------------------------------------------------------------------------
(***************************************************************************)
(* Properties.                                                             *)
(***************************************************************************)

\* Every target is in a task that the plan has, or in none.
WellFormed(plan) ==
  plan \in Plan /\ \A t \in Targets : plan.owner[t] = None \/ plan.owner[t] \in 0 .. plan.tasks - 1

TypeOK ==
  /\ cfg \in Configs
  /\ listed \in [Jobs -> Listings]
  /\ pc \in [Processes -> PlannerSteps \cup JobSteps]
  /\ got \in [Processes -> Plan] /\ \A p \in Processes : WellFormed(got[p])
  /\ asked \subseteq Processes
  /\ WellFormed(stored)
  /\ creating \subseteq 1 .. MaxJobs
  /\ jobs \in None .. MaxJobs
  /\ reached \in BOOLEAN

Started == {n \in Jobs : HasStarted(n)}

\* The tests of thisNodeTask.
TestsOf(n) == IF pc[n] = "running" THEN {t \in Targets : got[n].owner[t] = n} ELSE {}

RunningOn(fallback) == {n \in Started : pc[n] = "running" /\ got[n].fallback = fallback}

\* If every job of the build runs, and all on the same kind of plan, every target the plan
\* has is run by one job and by one only: all targets in a fallback, the targets the
\* server put in its plan otherwise.
CompleteWhenAgreed ==
  Started # {} =>
    /\ RunningOn(TRUE) = Started =>
         \A t \in Targets : Cardinality({n \in Started : t \in TestsOf(n)}) = 1
    /\ RunningOn(FALSE) = Started =>
         \A t \in Targets : stored.owner[t] # None =>
           Cardinality({n \in Started : t \in TestsOf(n)}) = 1

\* However the jobs of a build are divided between the server's plan and the fallback, no
\* target is run by more than two of them: one by the plan, one by the fallback.
AtMostTwice ==
  \A t \in Targets : Cardinality({n \in Jobs : t \in TestsOf(n)}) <= 2

\* A target of the server's plan is lost only to a job that fell back, or failed, where
\* another job did not: the job the plan gives it to is one of the build's, and does not
\* run that plan.
LostOnlyByDisagreement ==
  \A t \in Targets :
    /\ Started # {} /\ \A n \in Started : pc[n] \in {"running", "crashed", "failed"}
    /\ stored.owner[t] # None
    /\ ~\E n \in Started : t \in TestsOf(n)
    => /\ stored.owner[t] \in Started
       /\ pc[stored.owner[t]] # "running" \/ got[stored.owner[t]].fallback

\* A job has no task in the plan only if the planner had fallen back to its limit while
\* the server was making, or had made, a plan of fewer tasks.
CrashOnlyAfterPlannerFallback ==
  \A n \in Jobs : pc[n] = "crashed" =>
    /\ got[Planner].fallback
    /\ ~got[n].fallback /\ got[n].tasks < cfg.maxParallelism

\* A build that is planned locally never silently runs nothing: ValidateForPlan sees to it
\* that a fallback plan has a task ("Enforce it client-side to fail fast").
FallbackRunsSomething ==
  got[Planner].fallback => got[Planner].tasks > 0

(***************************************************************************)
(* What holds of the planning at every step, whatever was answered, and    *)
(* why the properties above do.                                            *)
(***************************************************************************)

HasPlan(p) == got[p] # NoPlan

\* Nothing goes on after an invalid configuration, and no job before the pipeline is made.
InOrder ==
  /\ Planner \in asked \/ HasPlan(Planner) \/ pc[Planner] \in {"params", "create", "emit"} =>
       cfg.mode # "static" /\ PlanIsValid
  /\ \A n \in Jobs : IF pc[n] = "waiting" THEN ~HasPlan(n) /\ n \notin asked ELSE HasStarted(n)
  /\ IF cfg.mode = "static" THEN pc[Planner] = "done" /\ jobs = cfg.parallelism
     ELSE jobs = IF pc[Planner] # "done" THEN None
                 ELSE IF cfg.mode = "planout" THEN 0 ELSE got[Planner].tasks

\* A plan is of a size its first request allowed, and the jobs' own is one of these.
ServersPlan ==
  /\ creating \subseteq Allowed
  /\ creating # {} => stored = NoPlan /\ asked # {}
  /\ stored # NoPlan => asked # {}
  /\ stored \notin {NoPlan, ErrorPlan} => stored.tasks \in Allowed /\ ~stored.fallback

\* A plan is the process's own fallback or what the server has stored for good, and a process
\* that goes on has one.
Provenance ==
  \A p \in Processes :
    /\ HasPlan(p) => \/ got[p] = LocalPlan(p)
                     \/ got[p] = stored /\ (stored = ErrorPlan => p = Planner /\ cfg.mode = "planout")
    /\ pc[p] \in {"emit", "running", "crashed"} => HasPlan(p)
    /\ pc[p] = "done" /\ cfg.mode # "static" => HasPlan(p)
    /\ pc[p] = "running" => p < got[p].tasks
    /\ pc[p] = "crashed" => p >= got[p].tasks

PlanInv == TypeOK /\ FallbackRunsSomething /\ InOrder /\ ServersPlan /\ Provenance

\* "Only when the server cannot be reached at all does bktec fall back to a minimal
\* locally-generated plan" (README on --plan-out).
PlanOutFallsBackUnreached ==
  cfg.mode = "planout" /\ got[Planner].fallback => ~reached

\* "It fetches the plan cached under the identifier, or, on a cache miss, creates and caches
\* one" (README on bktec run): a job with a plan of the server's goes on to run its task.
PlanIsConsumed == \A n \in Jobs : pc[n] # "crashed"

\* Every process comes to an end of its planning, whatever the server does: clients that
\* wait for each other's plan do not wait for ever.
EveryoneDecides ==
  /\ <>(pc[Planner] \in {"done", "failed"})
  /\ \A n \in Jobs : pc[n] = "fetch" ~> pc[n] \in {"running", "crashed", "failed"}

=============================================================================
