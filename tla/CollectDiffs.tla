----------------------------- MODULE CollectDiffs -----------------------------
(***************************************************************************)
(* The worker pool of CollectDiffs in internal/git/diff.go: workers take   *)
(* indices of commits from a channel, run git for each, and send what they *)
(* extracted to a collector; a goroutine closes the channel of results     *)
(* when the workers are done.                                              *)
(*                                                                         *)
(* External: git, which may fail for any commit and any diff, and comes to *)
(* an end.  The early return of a worker whose context is cancelled is     *)
(* left out: bktec runs under context.Background() and never cancels it.   *)
(***************************************************************************)
EXTENDS Integers, FiniteSets, Sequences

CONSTANTS
  Count,        \* len(commits)
  workerCount,
  Diffs         \* the diffs run for a commit: two when full diffs are skipped, or four

ASSUME CollectDiffsAssumption ==
  /\ Count \in Nat
  /\ workerCount \in Nat \ {0}
  /\ IsFiniteSet(Diffs)

Indices == 1..Count
Workers == {w \in 1..workerCount : w <= Count}
None == 0

VARIABLES
  jobs,       \* the channel of indices
  resultCh,   \* the channel of results
  closed,     \* resultCh is closed
  pc,         \* where each worker is
  idx,        \* the index each worker is at
  diff,       \* what each worker has extracted for it, and the diffs still to be run
  results,    \* by index: the diffs that did not fail
  processed,
  collector,  \* where the collecting goroutine is
  extracted   \* history: by index, what some worker has extracted and the times one has

workerState == <<pc, idx, diff>>
vars == <<jobs, resultCh, closed, workerState, results, processed, collector, extracted>>

Nothing == [got |-> {}, todo |-> {}, err |-> FALSE]

Init ==
  /\ jobs = [i \in Indices |-> i]
  /\ resultCh = <<>>
  /\ closed = FALSE
  /\ pc = [w \in Workers |-> "take"]
  /\ idx = [w \in Workers |-> None]
  /\ diff = [w \in Workers |-> Nothing]
  /\ results = [i \in Indices |-> {}]
  /\ processed = 0
  /\ collector = IF Count = 0 THEN "returned" ELSE "collecting"
  /\ extracted = [i \in Indices |-> [diffs |-> {}, times |-> 0]]

-----------------------------------------------------------------------------
\* A worker.

Take(w) ==
  /\ pc[w] = "take"
  /\ jobs # <<>>
  /\ idx' = [idx EXCEPT ![w] = Head(jobs)]
  /\ jobs' = Tail(jobs)
  /\ pc' = [pc EXCEPT ![w] = "forkPoint"]
  /\ diff' = [diff EXCEPT ![w] = Nothing]
  /\ UNCHANGED <<resultCh, closed, results, processed, collector, extracted>>

\* Fault: jobs is not closed, and nobody learns that there are no more.
LeaveUnclosed(w) ==
  /\ pc[w] = "take"
  /\ Count = 0
  /\ pc' = [pc EXCEPT ![w] = "done"]
  /\ UNCHANGED <<jobs, resultCh, closed, idx, diff, results, processed, collector, extracted>>

\* jobs is closed before the workers start: an empty channel ends the range.
Leave(w) ==
  /\ pc[w] = "take"
  /\ jobs = <<>>
  /\ pc' = [pc EXCEPT ![w] = "done"]
  /\ UNCHANGED <<jobs, resultCh, closed, idx, diff, results, processed, collector, extracted>>

\* FindForkPoint: without a base there is nothing to diff against, which is an error.
FindForkPoint(w) ==
  /\ pc[w] = "forkPoint"
  /\ \/ /\ pc' = [pc EXCEPT ![w] = "diff"]
        /\ diff' = [diff EXCEPT ![w].todo = Diffs]
     \/ /\ pc' = [pc EXCEPT ![w] = "send"]
        /\ diff' = [diff EXCEPT ![w].err = TRUE]
  /\ UNCHANGED <<jobs, resultCh, closed, idx, results, processed, collector, extracted>>

\* runDiffCommands: one failure does not stop the next.
Diff(w) ==
  /\ pc[w] = "diff"
  /\ \/ \E d \in diff[w].todo, fails \in BOOLEAN :
          /\ diff' = [diff EXCEPT ![w].todo = @ \ {d},
                                  ![w].got = IF fails THEN @ ELSE @ \cup {d}]
          /\ UNCHANGED pc
     \/ /\ diff[w].todo = {}
        /\ pc' = [pc EXCEPT ![w] = "send"]
        /\ UNCHANGED diff
  /\ UNCHANGED <<jobs, resultCh, closed, idx, results, processed, collector, extracted>>

\* Fault: a commit that failed is not reported.
SendSuccesses(w) ==
  /\ pc[w] = "send"
  /\ ~closed
  /\ resultCh' = IF diff[w].err THEN resultCh
                 ELSE Append(resultCh, [idx |-> idx[w], diff |-> diff[w].got, err |-> FALSE])
  /\ extracted' = [extracted EXCEPT ![idx[w]] = [diffs |-> diff[w].got, times |-> @.times + 1]]
  /\ pc' = [pc EXCEPT ![w] = "take"]
  /\ UNCHANGED <<jobs, closed, idx, diff, results, processed, collector>>

\* resultCh has room for all results.  Sending on a closed channel is a panic.
Send(w) ==
  /\ pc[w] = "send"
  /\ resultCh' = IF closed THEN resultCh
                 ELSE Append(resultCh, [idx |-> idx[w], diff |-> diff[w].got, err |-> diff[w].err])
  /\ extracted' = [extracted EXCEPT ![idx[w]] = [diffs |-> diff[w].got, times |-> @.times + 1]]
  /\ pc' = [pc EXCEPT ![w] = IF closed THEN "panic" ELSE "take"]
  /\ UNCHANGED <<jobs, closed, idx, diff, results, processed, collector>>

-----------------------------------------------------------------------------
\* Fault: it is enough that the jobs are taken.
CloseWhenTaken ==
  /\ jobs = <<>>
  /\ ~closed
  /\ closed' = TRUE
  /\ UNCHANGED <<jobs, resultCh, workerState, results, processed, collector, extracted>>

\* wg.Wait, and the close.
CloseResults ==
  /\ \A w \in Workers : pc[w] = "done"
  /\ Count > 0 /\ ~closed
  /\ closed' = TRUE
  /\ UNCHANGED <<jobs, resultCh, workerState, results, processed, collector, extracted>>

Collect ==
  /\ collector = "collecting"
  /\ resultCh # <<>>
  /\ LET res == Head(resultCh)
     IN  results' = IF res.err THEN results ELSE [results EXCEPT ![res.idx] = res.diff]
  /\ resultCh' = Tail(resultCh)
  /\ processed' = processed + 1
  /\ UNCHANGED <<jobs, closed, workerState, collector, extracted>>

Return ==
  /\ collector = "collecting"
  /\ resultCh = <<>> /\ closed
  /\ collector' = "returned"
  /\ UNCHANGED <<jobs, resultCh, closed, workerState, results, processed, extracted>>

Worker(w) == Take(w) \/ Leave(w) \/ FindForkPoint(w) \/ Diff(w) \/ Send(w)

Next == (\E w \in Workers : Worker(w)) \/ CloseResults \/ Collect \/ Return

Spec == Init /\ [][Next]_vars

\* Goroutines that can go on do, and git commands end.
FairSpec ==
  /\ Spec
  /\ \A w \in Workers : WF_vars(Worker(w))
  /\ WF_vars(CloseResults \/ Collect \/ Return)

-----------------------------------------------------------------------------
(***************************************************************************)
(* Properties.                                                             *)
(***************************************************************************)

Results == [idx : Indices, diff : SUBSET Diffs, err : BOOLEAN]

TypeOK ==
  /\ jobs \in Seq(Indices)
  /\ resultCh \in Seq(Results)
  /\ closed \in BOOLEAN
  /\ pc \in [Workers -> {"take", "forkPoint", "diff", "send", "done", "panic"}]
  /\ idx \in [Workers -> Indices \cup {None}]
  /\ \A w \in Workers : pc[w] \in {"forkPoint", "diff", "send"} => idx[w] # None
  /\ diff \in [Workers -> [got : SUBSET Diffs, todo : SUBSET Diffs, err : BOOLEAN]]
  /\ results \in [Indices -> SUBSET Diffs]
  /\ processed \in 0..Count
  /\ collector \in {"collecting", "returned"}
  /\ extracted \in [Indices -> [diffs : SUBSET Diffs, times : 0..1]]

\* Nobody sends on the closed channel, so the pool never panics.
NoSendAfterClose == \A w \in Workers : pc[w] # "panic"

\* Every commit is in exactly one place: waiting, with a worker, sent, or collected; so none
\* is diffed twice, and none is forgotten when another one fails.
EveryCommitInOnePlace ==
  \A i \in Indices :
    LET waiting == {k \in DOMAIN jobs : jobs[k] = i}
        working == {w \in Workers : pc[w] \in {"forkPoint", "diff", "send"} /\ idx[w] = i}
    IN  Cardinality(waiting) + Cardinality(working) + extracted[i].times = 1

At(w) == pc[w] \in {"forkPoint", "diff", "send"}

\* The same without counting.
Placed ==
  /\ \A j, k \in DOMAIN jobs : jobs[j] = jobs[k] => j = k
  /\ \A k \in DOMAIN jobs : /\ extracted[jobs[k]].times = 0
                            /\ \A w \in Workers : At(w) => idx[w] # jobs[k]
  /\ \A w \in Workers : At(w) => extracted[idx[w]].times = 0
  /\ \A v, w \in Workers : At(v) /\ At(w) /\ idx[v] = idx[w] => v = w
  /\ \A i \in Indices : extracted[i].times = 0 =>
       (\E k \in DOMAIN jobs : jobs[k] = i) \/ \E w \in Workers : At(w) /\ idx[w] = i

\* A commit that failed has no diffs.
FailuresAreEmpty ==
  \A w \in Workers :
    /\ pc[w] = "forkPoint" => diff[w] = Nothing
    /\ pc[w] = "diff" => ~diff[w].err
    /\ pc[w] = "send" /\ diff[w].err => diff[w].got = {}

\* What was extracted for a commit is in one result on its way, or collected.
Delivered ==
  /\ \A k \in DOMAIN resultCh :
       LET res == resultCh[k]
       IN  /\ extracted[res.idx].times = 1 /\ extracted[res.idx].diffs = res.diff
           /\ results[res.idx] = {}
           /\ res.err => res.diff = {}
  /\ \A j, k \in DOMAIN resultCh : resultCh[j].idx = resultCh[k].idx => j = k
  /\ \A i \in Indices : extracted[i].times = 0 => results[i] = {} /\ extracted[i].diffs = {}
  /\ \A i \in Indices : \/ \E k \in DOMAIN resultCh : resultCh[k].idx = i
                        \/ results[i] = extracted[i].diffs
  /\ processed + Len(resultCh) = Cardinality({i \in Indices : extracted[i].times = 1})

\* The order in which the pool ends: no jobs, no workers, no results, no collector.
EndsInOrder ==
  /\ \A w \in Workers : pc[w] = "done" => jobs = <<>>
  /\ closed => \A w \in Workers : pc[w] = "done"
  /\ collector = "returned" => resultCh = <<>> /\ (closed \/ Count = 0)

\* What is inductive about the pool: a worker that is not done keeps the channel open, and
\* a result that is not collected keeps the collector waiting.
PoolInv ==
  /\ TypeOK /\ EveryCommitInOnePlace /\ NoSendAfterClose
  /\ Placed /\ FailuresAreEmpty /\ Delivered /\ EndsInOrder

\* The caller gets what was extracted for a commit at the place of that commit, for all
\* commits, whoever came first: backfill joins diffs to commits by position only.
ResultsMatchCommits ==
  collector = "returned" =>
    /\ processed = Count
    /\ \A i \in Indices : extracted[i].times = 1 /\ results[i] = extracted[i].diffs

\* The pool comes to an end.
CollectionEnds == <>(collector = "returned" /\ \A w \in Workers : pc[w] = "done")

=============================================================================
