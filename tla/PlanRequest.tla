----------------------------- MODULE PlanRequest -----------------------------
(***************************************************************************)
(* From the targets that were found to the paths the runners of a build    *)
(* are given: the metadata of the request (PlanMetadata) is collected      *)
(* before its targets are made up (RequestParams); the server's plan, or   *)
(* the fallback, says what the jobs run, and every job takes the location  *)
(* prefix off the paths of its task before it runs them                    *)
(* (internal/command/plan.go, run.go).                                     *)
(*                                                                         *)
(* The tasks of all jobs are taken together.  External: the server, which  *)
(* puts into its plan what it was asked for, a selector as it is or as the *)
(* file it stands for, or leaves it out: a selection strategy has it pick  *)
(* tests, and it may skip some.                                            *)
(***************************************************************************)
EXTENDS RequestParams

CONSTANTS RefSets, Candidates, Remotes   \* see PlanMetadata

VARIABLES
  refs, remoteHead, remote, prBase, user, isNil, gitPc, baseBranch, metadata, sent,
  planPc,    \* none, received, run
  fallback,  \* the plan was made locally
  task,      \* the test cases of the plan
  leftOut    \* history: the files of what the server left out of its plan

gitVars  == <<refs, remoteHead, remote, prBase, user, isNil, gitPc, baseBranch, metadata, sent>>
planVars == <<planPc, fallback, task, leftOut>>

Metadata == INSTANCE PlanMetadata WITH pc <- gitPc

ASSUME PlanRequestAssumption == Metadata!PlanMetadataAssumption

PlanInit ==
  /\ Init
  /\ Metadata!Init
  /\ planPc = "none"
  /\ fallback = FALSE
  /\ task = {}
  /\ leftOut = {}

-----------------------------------------------------------------------------
\* Metadata is collected for a selection strategy, or on demand, and is else the user's.
KeepMetadata ==
  /\ gitPc = "repository"
  /\ Metadata!Done(user)
  /\ UNCHANGED <<refs, remoteHead, remote, prBase, user, isNil, baseBranch, metadata, vars, planVars>>

CollectMetadata == Metadata!Next /\ UNCHANGED <<vars, planVars>>

\* createRequestParam, which is called with the metadata in place.
MakeRequest ==
  /\ gitPc = "done"
  /\ planPc = "none"
  /\ Next
  /\ UNCHANGED <<gitVars, planVars>>

Case(format, value, path) == [format |-> format, value |-> value, path |-> path]

ReceivePlan ==
  /\ pc = "done" /\ planPc = "none"
  /\ \E asSelectors, asFiles \in SUBSET selectors, asExamples \in SUBSET examples :
       /\ asSelectors \cap asFiles = {}
       /\ task' = {Case("selector", v, NoPrefix) : v \in asSelectors}
                  \cup {Case("file", NoPrefix, prefixPath(v, prefix)) : v \in asFiles}
                  \cup {Case("example", NoPrefix, p) : p \in asExamples}
       /\ leftOut' = {FileForServer(v) : v \in selectors \ (asSelectors \cup asFiles)}
                     \cup {File(p) : p \in examples \ asExamples}
  /\ planPc' = "received"
  /\ UNCHANGED <<vars, gitVars, fallback>>

\* CreateFallbackPlan, after an error of the server's or of the request: the targets as they
\* were found.
FallBack ==
  /\ pc \in {"done", "failed"} /\ planPc = "none"
  /\ task' = {Case("", NoPrefix, v) : v \in Values(targets)}
  /\ fallback' = TRUE
  /\ planPc' = "received"
  /\ UNCHANGED <<vars, gitVars, leftOut>>

Trimmed(case) ==
  IF case.format = "selector" THEN case ELSE [case EXCEPT !.path = trimFilePathPrefix(@, prefix)]

\* Fault: the prefix is taken off whatever the plan is.
TrimAlways ==
  /\ planPc = "received"
  /\ task' = {Trimmed(case) : case \in task}
  /\ planPc' = "run"
  /\ UNCHANGED <<vars, gitVars, fallback, leftOut>>

\* The paths of a fallback plan never had the prefix.
trimTaskLocationPrefix ==
  /\ planPc = "received"
  /\ task' = IF prefix = NoPrefix \/ fallback THEN task ELSE {Trimmed(case) : case \in task}
  /\ planPc' = "run"
  /\ UNCHANGED <<vars, gitVars, fallback, leftOut>>

PlanNext == KeepMetadata \/ CollectMetadata \/ MakeRequest \/ ReceivePlan \/ FallBack \/ trimTaskLocationPrefix

PlanSpec == PlanInit /\ [][PlanNext]_<<vars, gitVars, planVars>>

\* What the runner's command is given: a selector's value, any other test's path.
pathsFromTestCases == {IF case.format = "selector" THEN case.value ELSE case.path : case \in task}

-----------------------------------------------------------------------------
(***************************************************************************)
(* Properties.                                                             *)
(***************************************************************************)

\* The metadata of the request is merged as it should be, and its diffs are of the base
\* branch that was asked for (PlanMetadata).
MetadataInv == Metadata!MergeIsFaithful /\ Metadata!ExplicitBaseIsDiffed

Files(paths) == {FileForServer(p) : p \in paths}

\* The files nobody has to run: the runner found no examples in them, or the server left them
\* out.  A fallback plan knows of neither.
Dropped == IF fallback THEN {} ELSE Files(asked \ listed) \cup leftOut

\* The files are found ones, all of them but for those that were dropped; with tags to filter
\* by, a plan of the server's has no file without examples of the tag.
AreFound(files) ==
  /\ files \subseteq Files(Values(targets))
  /\ Files(Values(targets)) \subseteq files \cup Dropped
  /\ FilteredByTag /\ ~fallback => files \subseteq Files(listed)

\* Whatever the location prefix, and whether the server planned or bktec fell back, the jobs
\* run the files that were found, no others, and none is lost but those the runner or the
\* server dropped: a prefix that is put on for the server is off again before the runner sees
\* a path, once and not twice (request_param.go on the way to the server, run.go on the way
\* back).
RunsWhatWasFound == planPc = "run" => AreFound(Files(pathsFromTestCases))

\* "You can filter tests to run based on execution_tag markers" (docs/pytest.md): a job runs
\* no file without examples of the tag.
TagFilterIsKept ==
  planPc = "run" /\ pc = "done" /\ FilteredByTag => Files(pathsFromTestCases) \subseteq Files(listed)

=============================================================================
