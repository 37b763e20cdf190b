------------------------------ MODULE ForkPoint ------------------------------
(***************************************************************************)
(* The base a commit is diffed against: BuildMainlineCache and             *)
(* FindForkPoint in internal/git/forkpoint.go, for one commit of any       *)
(* history.  External: git, by what `log --first-parent`, `merge-base` and *)
(* `merge-base --fork-point` answer for a history and a reflog.            *)
(***************************************************************************)
EXTENDS Integers, FiniteSets, Sequences, SequencesExt

CONSTANT N  \* commits in the history, numbered so that parents come first

ASSUME ForkPointAssumption == N \in Nat \ {0}

Commits == 1..N
None == 0

\* Up to two parents each; the first parent is the branch that was merged into.
Histories ==
  {h \in [Commits -> {s \in SeqOf(Commits, 2) : IsInjective(s)}] :
     \A c \in Commits : \A i \in DOMAIN h[c] : h[c][i] < c}

VARIABLES
  history,   \* the parents of every commit
  main,      \* the tip of the default branch
  reflog,    \* every tip the default branch's reflog knows of
  window,    \* how many mainline commits `days` reaches back to
  commit,    \* the commit to be diffed
  pc,        \* the strategy to be tried next
  base,      \* ForkPointResult.Base, None before it is found
  strategy   \* ForkPointResult.Strategy

inputs == <<history, main, reflog, window, commit>>
vars == <<inputs, pc, base, strategy>>

-----------------------------------------------------------------------------
(***************************************************************************)
(* What git knows.                                                         *)
(***************************************************************************)

Ancestors ==
  LET anc[c \in Commits] == {c} \cup UNION {anc[history[c][i]] : i \in DOMAIN history[c]}
  IN  anc

\* The best common ancestors of c and the (virtual) merge of a set of tips.
MergeBases(c, tips) ==
  LET common == Ancestors[c] \cap UNION {Ancestors[t] : t \in tips}
  IN  {b \in common : \A d \in common \ {b} : b \notin Ancestors[d]}

FirstParents ==
  LET chain[c \in Commits] == <<c>> \o IF history[c] = <<>> THEN <<>> ELSE chain[history[c][1]]
  IN  chain[main]

-----------------------------------------------------------------------------
\* The mainline commits that are not older than the window.
onMainline == {FirstParents[i] : i \in 1..(IF window < Len(FirstParents) THEN window ELSE Len(FirstParents))}

\* Fault: the parent of a commit is looked up without asking whether it is on the mainline.
AnyParent == {c \in Commits : Len(history[c]) > 0}

\* The cached commits that have a parent.
Cached == {c \in onMainline : history[c] # <<>>}

Init ==
  /\ history \in Histories
  /\ main \in Commits
  /\ reflog \in {tips \in SUBSET Commits : main \in tips}
  /\ window \in 0..N
  /\ commit \in Commits
  /\ pc = "fork-point"
  /\ base = None
  /\ strategy = "none"

Found(b, how) ==
  /\ base' = b
  /\ strategy' = how
  /\ pc' = "done"
  /\ UNCHANGED inputs

Try(next) ==
  /\ pc' = next
  /\ UNCHANGED <<inputs, base, strategy>>

\* Fault: the fork point is taken though it may be the commit itself.
ForkPointBlindly ==
  /\ pc = "fork-point"
  /\ \/ /\ Cardinality(MergeBases(commit, reflog)) = 1
        /\ \E b \in MergeBases(commit, reflog) \cap reflog : Found(b, "fork-point")
     \/ Try("parent-fallback")

\* merge-base --fork-point answers when there is one best common ancestor with the tips of
\* the reflog, and it was a tip itself.  The command may also fail.
ForkPointStrategy ==
  /\ pc = "fork-point"
  /\ \/ \E b \in MergeBases(commit, reflog) \cap reflog :
          /\ Cardinality(MergeBases(commit, reflog)) = 1
          /\ b # commit
          /\ Found(b, "fork-point")
     \/ Try("parent-fallback")

ParentStrategy ==
  /\ pc = "parent-fallback"
  /\ IF commit \in Cached THEN Found(history[commit][1], "parent-fallback") ELSE Try("merge-base")

\* Of several best common ancestors git prints one; without any it fails.
MergeBaseStrategy ==
  /\ pc = "merge-base"
  /\ \/ \E b \in MergeBases(commit, {main}) : Found(b, "merge-base")
     \/ /\ pc' = "failed"
        /\ UNCHANGED <<inputs, base, strategy>>

Next == ForkPointStrategy \/ ParentStrategy \/ MergeBaseStrategy

Spec == Init /\ [][Next]_vars

-----------------------------------------------------------------------------
(***************************************************************************)
(* Properties.                                                             *)
(***************************************************************************)

\* A diff never runs backwards or across: the base is an ancestor of the commit, and one
\* that is or was on the default branch.
BaseIsSharedAncestor ==
  base # None =>
    /\ base \in Ancestors[commit]
    /\ \E tip \in reflog : base \in Ancestors[tip]

\* A commit is diffed with itself, which makes all its diffs empty, only if it is merged
\* and is no mainline commit of the window that has a parent.
EmptyOnlyWhenMerged ==
  base = commit => commit \in Ancestors[main] /\ commit \notin Cached

\* What is inductive: a commit handed to a strategy was not settled by the one before.
BaseInv ==
  /\ history \in Histories
  /\ main \in Commits /\ main \in reflog
  /\ window \in Nat
  /\ commit \in Commits
  /\ pc \in {"fork-point", "parent-fallback", "merge-base", "done", "failed"}
  /\ pc # "done" => base = None
  /\ pc = "merge-base" => commit \notin Cached
  /\ BaseIsSharedAncestor
  /\ EmptyOnlyWhenMerged

\* "Plain merge-base (unmerged branch)" (FindForkPoint): a commit that strategy 3 is used
\* for is not merged yet.  The first commit of a history has no base that would do.
MergeBaseIsForUnmerged ==
  strategy = "merge-base" /\ history[commit] # <<>> => commit \notin Ancestors[main]

=============================================================================
