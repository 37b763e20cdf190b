----------------------------- MODULE MCSplitPlan -----------------------------
(***************************************************************************)
(* Instances of SplitPlan for TLC.                                         *)
(***************************************************************************)
EXTENDS SplitPlan

\* Both orders of two targets, and the sorted one of more.
AnyOrder == {f \in [Targets -> Targets] : \A s, t \in Targets : f[s] = f[t] => s = t}
Sorted   == {[t \in Targets |-> t]}

Build(mode, max, parallelism, splits) ==
  [mode |-> mode, maxParallelism |-> max, parallelism |-> parallelism, splits |-> splits]

\* Three jobs without a plan step; plan steps with a limit, without one, and configured wrongly;
\* runners whose files are split; and every output mode.
MCConfigs ==
  {Build("static", 0, 3, FALSE), Build("static", 0, 2, TRUE), Build("static", 0, 1, FALSE),
   Build("json", 2, 0, FALSE), Build("pipeline", 0, 2, FALSE), Build("json", 0, 0, FALSE),
   Build("json", -1, 2, FALSE), Build("json", 2, 1, TRUE), Build("planout", 2, 1, TRUE)}

\* A plan step whose jobs are as many as its output says.
Dynamic == {Build("json", 2, 1, FALSE)}

=============================================================================
