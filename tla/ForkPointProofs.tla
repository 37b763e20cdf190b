---------------------------- MODULE ForkPointProofs ----------------------------
(***************************************************************************)
(* What ForkPoint promises of the base of a diff, for every history of any *)
(* length: by induction along the parents of a commit, which come before   *)
(* it.                                                                     *)
(***************************************************************************)
EXTENDS ForkPoint, SequenceTheorems, WellFoundedInduction, TLAPS

-----------------------------------------------------------------------------
(***************************************************************************)
(* Induction, with the set of counterexamples for a predicate.             *)
(***************************************************************************)

\* Natural numbers have a least one.
LEMMA LeastNumber ==
  ASSUME NEW T \in SUBSET Nat, T # {}
  PROVE  \E m \in T : \A k \in T : m <= k
<1>1. \E m \in T : \A k \in T : ~ (<<k, m>> \in OpToRel(<, Nat))
  BY WFMin, NatLessThanWellFounded
<1>2. \A k, m \in Nat : k < m => <<k, m>> \in OpToRel(<, Nat)
  BY DEF OpToRel
<1> DEFINE R == OpToRel(<, Nat)
<1>3. \A k, m \in Nat : k < m => <<k, m>> \in R
  BY <1>2
<1>4. PICK m \in T : \A k \in T : ~ (<<k, m>> \in R)
  BY <1>1
<1> HIDE DEF R
<1>5. ASSUME NEW k \in T
      PROVE  m <= k
  <2>1. m \in Nat /\ k \in Nat
    OBVIOUS
  <2>2. ~ (k < m)
    BY <1>3, <1>4, <2>1, Zenon
  <2> QED
    BY <2>1, <2>2
<1> QED
  BY <1>5

LEMMA SingletonSeq ==
  ASSUME NEW S, NEW x \in S
  PROVE  <<x>> \in Seq(S)
OBVIOUS

-----------------------------------------------------------------------------
(***************************************************************************)
(* The recursive functions of a history.                                   *)
(***************************************************************************)

\* What a history is, apart from the number of parents.
Ordered ==
  \A c \in Commits : /\ history[c] \in Seq(Commits)
                     /\ \A i \in DOMAIN history[c] : history[c][i] \in 1 .. c - 1

LEMMA HistoriesAreOrdered ==
  ASSUME history \in Histories
  PROVE  Ordered
<1>1. history \in [Commits -> SeqOf(Commits, 2)]
  BY DEF Histories
<1> SUFFICES ASSUME NEW c \in Commits
             PROVE  /\ history[c] \in Seq(Commits)
                    /\ \A i \in DOMAIN history[c] : history[c][i] \in 1 .. c - 1
  BY DEF Ordered
<1>2. PICK m \in 0 .. 2 : history[c] \in [1 .. m -> Commits]
  BY <1>1 DEF SeqOf
<1>3. history[c] \in Seq(Commits)
  BY <1>2
<1>4. \A i \in DOMAIN history[c] : history[c][i] < c
  BY DEF Histories
<1>5. \A i \in DOMAIN history[c] : history[c][i] \in Commits
  BY <1>2
<1> QED
  BY <1>3, <1>4, <1>5 DEF Commits

\* A commit with parents has a first one, which comes before it.
LEMMA FirstParentIsBefore ==
  ASSUME Ordered, NEW c \in Commits, history[c] # <<>>
  PROVE  /\ 1 \in DOMAIN history[c]
         /\ history[c][1] \in Commits
         /\ history[c][1] \in 1 .. c - 1
<1>1. history[c] \in Seq(Commits) /\ DOMAIN history[c] = 1 .. Len(history[c])
  BY LenProperties DEF Ordered
<1>2. Len(history[c]) \in Nat \ {0}
  BY <1>1, EmptySeq
<1>3. 1 \in DOMAIN history[c]
  BY <1>1, <1>2
<1> QED
  BY <1>1, <1>3 DEF Ordered

\* A function that satisfies the equation of Ancestors for the first n commits.
AncestorsUpTo(n, f) ==
  f = [c \in 1 .. n |-> {c} \cup UNION {f[history[c][i]] : i \in DOMAIN history[c]}]

LEMMA AncestorsExist ==
  ASSUME Ordered, N \in Nat
  PROVE  \E f : AncestorsUpTo(N, f)
<1> DEFINE T == {n \in 0 .. N : ~ \E f : AncestorsUpTo(n, f)}
<1> SUFFICES ASSUME T # {}
             PROVE  FALSE
  OBVIOUS
<1>1. PICK m \in T : \A k \in T : m <= k
  <2>1. T \in SUBSET Nat
    OBVIOUS
  <2> HIDE DEF T
  <2> QED
    BY <2>1, LeastNumber
<1>2. CASE m = 0
  <2>1. AncestorsUpTo(0, [c \in 1 .. 0 |-> {}])
    BY DEF AncestorsUpTo
  <2> QED
    BY <1>2, <2>1
<1>3. CASE m # 0
  <2>1. m - 1 \in 0 .. N /\ m - 1 \notin T /\ m \in 1 .. N
    BY <1>1, <1>3
  <2>2. PICK f : AncestorsUpTo(m - 1, f)
    BY <2>1
  <2> DEFINE last == {m} \cup UNION {f[history[m][i]] : i \in DOMAIN history[m]}
             g == [c \in 1 .. m |-> IF c = m THEN last ELSE f[c]]
  <2>3. ASSUME NEW c \in 1 .. m
        PROVE  g[c] = {c} \cup UNION {g[history[c][i]] : i \in DOMAIN history[c]}
    <3>1. \A i \in DOMAIN history[c] : history[c][i] \in 1 .. m - 1 /\ history[c][i] \in 1 .. m /\ history[c][i] # m
      <4>1. c \in Commits /\ c \in Nat /\ m \in Nat /\ c <= m
        BY <2>1 DEF Commits
      <4>2. \A i \in DOMAIN history[c] : history[c][i] \in 1 .. c - 1
        BY <4>1 DEF Ordered
      <4> HIDE DEF T
      <4> QED
        BY <4>1, <4>2
    <3>2. \A i \in DOMAIN history[c] : g[history[c][i]] = f[history[c][i]]
      BY <3>1
    <3>3. {g[history[c][i]] : i \in DOMAIN history[c]} = {f[history[c][i]] : i \in DOMAIN history[c]}
      BY <3>2
    <3>4. CASE c = m
      BY <3>3, <3>4
    <3>5. CASE c # m
      <4>1. c \in 1 .. m - 1 /\ g[c] = f[c]
        BY <3>5, <2>1
      <4>2. f[c] = {c} \cup UNION {f[history[c][i]] : i \in DOMAIN history[c]}
        BY <2>2, <4>1 DEF AncestorsUpTo
      <4> QED
        BY <3>3, <4>1, <4>2
    <3> QED
      BY <3>4, <3>5
  <2>4. AncestorsUpTo(m, g)
    <3>1. [c \in 1 .. m |-> g[c]] = [c \in 1 .. m |-> {c} \cup UNION {g[history[c][i]] : i \in DOMAIN history[c]}]
      BY <2>3
    <3>2. g = [c \in 1 .. m |-> g[c]]
      OBVIOUS
    <3> HIDE DEF g
    <3> QED
      BY <3>1, <3>2 DEF AncestorsUpTo
  <2> QED
    BY <2>4
<1> QED
  BY <1>2, <1>3

LEMMA AncestorsDef ==
  ASSUME Ordered, N \in Nat
  PROVE  Ancestors = [c \in Commits |-> {c} \cup UNION {Ancestors[history[c][i]] : i \in DOMAIN history[c]}]
<1>1. PICK f : f = [c \in Commits |-> {c} \cup UNION {f[history[c][i]] : i \in DOMAIN history[c]}]
  BY AncestorsExist DEF AncestorsUpTo, Commits
<1> QED
  BY <1>1 DEF Ancestors

\* The same for the chain of first parents.
ChainUpTo(n, f) ==
  f = [c \in 1 .. n |-> <<c>> \o IF history[c] = <<>> THEN <<>> ELSE f[history[c][1]]]

LEMMA ChainExists ==
  ASSUME Ordered, N \in Nat
  PROVE  \E f : ChainUpTo(N, f)
<1> DEFINE T == {n \in 0 .. N : ~ \E f : ChainUpTo(n, f)}
<1> SUFFICES ASSUME T # {}
             PROVE  FALSE
  OBVIOUS
<1>1. PICK m \in T : \A k \in T : m <= k
  <2>1. T \in SUBSET Nat
    OBVIOUS
  <2> HIDE DEF T
  <2> QED
    BY <2>1, LeastNumber
<1>2. CASE m = 0
  <2>1. ChainUpTo(0, [c \in 1 .. 0 |-> <<>>])
    BY DEF ChainUpTo
  <2> QED
    BY <1>2, <2>1
<1>3. CASE m # 0
  <2>1. m - 1 \in 0 .. N /\ m - 1 \notin T /\ m \in 1 .. N
    BY <1>1, <1>3
  <2>2. PICK f : ChainUpTo(m - 1, f)
    BY <2>1
  <2> DEFINE last == <<m>> \o IF history[m] = <<>> THEN <<>> ELSE f[history[m][1]]
             g == [c \in 1 .. m |-> IF c = m THEN last ELSE f[c]]
  <2>3. ASSUME NEW c \in 1 .. m
        PROVE  g[c] = <<c>> \o IF history[c] = <<>> THEN <<>> ELSE g[history[c][1]]
    <3>1. history[c] # <<>> => history[c][1] \in 1 .. m /\ history[c][1] # m
      <4>1. c \in Commits /\ c \in Nat /\ m \in Nat /\ c <= m
        BY <2>1 DEF Commits
      <4>2. history[c] # <<>> => history[c][1] \in 1 .. c - 1
        BY <4>1, FirstParentIsBefore
      <4> HIDE DEF T
      <4> QED
        BY <4>1, <4>2
    <3>2. history[c] # <<>> => g[history[c][1]] = f[history[c][1]]
      BY <3>1
    <3>3. CASE c = m
      BY <3>2, <3>3
    <3>4. CASE c # m
      <4>1. c \in 1 .. m - 1 /\ g[c] = f[c]
        BY <3>4, <2>1
      <4>2. f[c] = <<c>> \o IF history[c] = <<>> THEN <<>> ELSE f[history[c][1]]
        BY <2>2, <4>1 DEF ChainUpTo
      <4> QED
        BY <3>2, <4>1, <4>2
    <3> QED
      BY <3>3, <3>4
  <2>4. ChainUpTo(m, g)
    <3>1. [c \in 1 .. m |-> g[c]] = [c \in 1 .. m |-> <<c>> \o IF history[c] = <<>> THEN <<>> ELSE g[history[c][1]]]
      BY <2>3
    <3>2. g = [c \in 1 .. m |-> g[c]]
      OBVIOUS
    <3> HIDE DEF g
    <3> QED
      BY <3>1, <3>2 DEF ChainUpTo
  <2> QED
    BY <2>4
<1> QED
  BY <1>2, <1>3

\* The mainline is the chain of the tip.
LEMMA FirstParentsDef ==
  ASSUME Ordered, N \in Nat
  PROVE  \E chain : /\ ChainUpTo(N, chain)
                    /\ FirstParents = chain[main]
<1>1. PICK f : f = [c \in Commits |-> <<c>> \o IF history[c] = <<>> THEN <<>> ELSE f[history[c][1]]]
  BY ChainExists DEF ChainUpTo, Commits
<1> DEFINE chain == CHOOSE g : g = [c \in Commits |-> <<c>> \o IF history[c] = <<>> THEN <<>> ELSE g[history[c][1]]]
<1>2. chain = [c \in Commits |-> <<c>> \o IF history[c] = <<>> THEN <<>> ELSE chain[history[c][1]]]
  BY <1>1
<1>3. FirstParents = chain[main]
  BY DEF FirstParents
<1> HIDE DEF chain
<1> QED
  BY <1>2, <1>3 DEF ChainUpTo, Commits

-----------------------------------------------------------------------------
(***************************************************************************)
(* What git answers.                                                       *)
(***************************************************************************)

\* Every commit is among its ancestors, and they are commits.
LEMMA AncestorsType ==
  ASSUME Ordered, N \in Nat, NEW c \in Commits
  PROVE  /\ c \in Ancestors[c]
         /\ \A i \in DOMAIN history[c] : Ancestors[history[c][i]] \subseteq Ancestors[c]
         /\ \A a \in Ancestors[c] : a = c \/ \E i \in DOMAIN history[c] : a \in Ancestors[history[c][i]]
<1>1. Ancestors[c] = {c} \cup UNION {Ancestors[history[c][i]] : i \in DOMAIN history[c]}
  BY AncestorsDef
<1> QED
  BY <1>1

\* The ancestors of an ancestor are ancestors.
LEMMA AncestorsAreTransitive ==
  ASSUME Ordered, N \in Nat, NEW c \in Commits, NEW a \in Ancestors[c]
  PROVE  Ancestors[a] \subseteq Ancestors[c]
<1> DEFINE T == {d \in Commits : \E x \in Ancestors[d] : ~ (Ancestors[x] \subseteq Ancestors[d])}
<1> SUFFICES ASSUME T # {}
             PROVE  FALSE
  OBVIOUS
<1>1. PICK d \in T : \A k \in T : d <= k
  <2>1. T \in SUBSET Nat
    BY DEF Commits
  <2> HIDE DEF T
  <2> QED
    BY <2>1, LeastNumber
<1>2. d \in Commits
  OBVIOUS
<1>3. PICK x \in Ancestors[d] : ~ (Ancestors[x] \subseteq Ancestors[d])
  OBVIOUS
<1>4. PICK i \in DOMAIN history[d] : x \in Ancestors[history[d][i]]
  BY <1>2, <1>3, AncestorsType
<1> DEFINE p == history[d][i]
<1>5. p \in Commits /\ p \in 1 .. d - 1
  BY <1>2, <1>4 DEF Ordered, Commits
<1>6. p \notin T
  <2> HIDE DEF T, p
  <2> QED
    BY <1>1, <1>2, <1>5 DEF Commits
<1>7. Ancestors[x] \subseteq Ancestors[p]
  BY <1>4, <1>5, <1>6
<1>8. Ancestors[p] \subseteq Ancestors[d]
  BY <1>2, <1>4, AncestorsType
<1> QED
  BY <1>3, <1>7, <1>8

\* The mainline of a branch is made of ancestors of its tip.
LEMMA MainlineIsMerged ==
  ASSUME Ordered, N \in Nat, main \in Commits, window \in Nat
  PROVE  onMainline \subseteq Ancestors[main]
<1>1. PICK chain : ChainUpTo(N, chain) /\ FirstParents = chain[main]
  BY FirstParentsDef
<1>2. \A c \in Commits : chain[c] = <<c>> \o IF history[c] = <<>> THEN <<>> ELSE chain[history[c][1]]
  BY <1>1 DEF ChainUpTo, Commits
<1> DEFINE T == {c \in Commits : chain[c] \notin Seq(Ancestors[c])}
<1>3. T = {}
  <2> SUFFICES ASSUME T # {}
               PROVE  FALSE
    OBVIOUS
  <2>1. PICK c \in T : \A k \in T : c <= k
    <3>1. T \in SUBSET Nat
      BY DEF Commits
    <3> HIDE DEF T
    <3> QED
      BY <3>1, LeastNumber
  <2>2. c \in Commits /\ c \in Ancestors[c]
    BY AncestorsType
  <2>3. <<c>> \in Seq(Ancestors[c])
    BY <2>2, SingletonSeq
  <2>4. CASE history[c] = <<>>
    <3>1. chain[c] = <<c>> \o <<>>
      BY <1>2, <2>2, <2>4
    <3>2. <<>> \in Seq(Ancestors[c])
      OBVIOUS
    <3> HIDE DEF T
    <3>3. chain[c] \in Seq(Ancestors[c])
      BY <2>3, <3>1, <3>2, ConcatProperties
    <3> QED
      BY <3>3 DEF T
  <2>5. CASE history[c] # <<>>
    <3> DEFINE p == history[c][1]
    <3>1. 1 \in DOMAIN history[c] /\ p \in Commits /\ p \in 1 .. c - 1
      BY <2>2, <2>5, FirstParentIsBefore
    <3>2. p \notin T
      <4> HIDE DEF T, p
      <4> QED
        BY <2>1, <2>2, <3>1 DEF Commits
    <3>3. Ancestors[p] \subseteq Ancestors[c]
      BY <2>2, <3>1, AncestorsType
    <3>4. chain[p] \in Seq(Ancestors[p])
      BY <3>1, <3>2
    <3> HIDE DEF T, p
    <3>5. chain[p] \in Seq(Ancestors[c])
      BY <3>3, <3>4, SeqMonotonic
    <3>6. chain[c] = <<c>> \o chain[p]
      BY <1>2, <2>2, <2>5 DEF p
    <3>7. chain[c] \in Seq(Ancestors[c])
      BY <2>3, <3>5, <3>6, ConcatProperties
    <3> QED
      BY <3>7 DEF T
  <2> QED
    BY <2>4, <2>5
<1>4. FirstParents \in Seq(Ancestors[main])
  BY <1>1, <1>3
<1>5. ASSUME NEW k \in 1 .. (IF window < Len(FirstParents) THEN window ELSE Len(FirstParents))
      PROVE  FirstParents[k] \in Ancestors[main]
  <2>1. k \in 1 .. Len(FirstParents)
    BY <1>4, LenProperties
  <2> QED
    BY <1>4, <2>1, ElementOfSeq
<1> QED
  BY <1>5 DEF onMainline

\* A merge base is an ancestor of the commit and of one of the tips.
LEMMA MergeBasesAreShared ==
  ASSUME NEW c, NEW tips, NEW b \in MergeBases(c, tips)
  PROVE  /\ b \in Ancestors[c]
         /\ \E t \in tips : b \in Ancestors[t]
BY DEF MergeBases

-----------------------------------------------------------------------------
(***************************************************************************)
(* The strategies.                                                         *)
(***************************************************************************)

\* Nothing that is computed from the inputs changes.
LEMMA InputsFixDefinitions ==
  ASSUME UNCHANGED inputs
  PROVE  /\ Ancestors' = Ancestors
         /\ Cached' = Cached
BY DEF inputs, Ancestors, Cached, onMainline, FirstParents

LEMMA BaseInvInit == Init => BaseInv
<1> SUFFICES ASSUME Init
             PROVE  BaseInv
  OBVIOUS
<1>1. base = None /\ base # commit /\ pc = "fork-point"
  BY ForkPointAssumption DEF Init, None, Commits, ForkPointAssumption
<1>2. history \in Histories /\ main \in Commits /\ main \in reflog /\ window \in Nat /\ commit \in Commits
  BY DEF Init
<1> QED
  BY <1>1, <1>2 DEF BaseInv, BaseIsSharedAncestor, EmptyOnlyWhenMerged

\* A strategy that gives up leaves the base to the next.
LEMMA TryPreserves ==
  ASSUME BaseInv, NEW next \in {"parent-fallback", "merge-base", "failed"},
         pc \in {"fork-point", "parent-fallback", "merge-base"},
         next = "merge-base" => commit \notin Cached,
         pc' = next, UNCHANGED <<inputs, base, strategy>>
  PROVE  BaseInv'
<1>1. Ancestors' = Ancestors /\ Cached' = Cached
  BY InputsFixDefinitions
<1> QED
  BY <1>1 DEF BaseInv, BaseIsSharedAncestor, EmptyOnlyWhenMerged, inputs

\* A strategy that finds a base has the last word.
LEMMA FoundPreserves ==
  ASSUME BaseInv, NEW b, NEW how, Found(b, how),
         b \in Ancestors[commit],
         \E tip \in reflog : b \in Ancestors[tip],
         b = commit => commit \in Ancestors[main] /\ commit \notin Cached
  PROVE  BaseInv'
<1>1. Ancestors' = Ancestors /\ Cached' = Cached
  BY InputsFixDefinitions DEF Found
<1> QED
  BY <1>1 DEF BaseInv, BaseIsSharedAncestor, EmptyOnlyWhenMerged, inputs, Found

LEMMA BaseInvStep == BaseInv /\ [Next]_vars => BaseInv'
<1> SUFFICES ASSUME BaseInv, [Next]_vars
             PROVE  BaseInv'
  OBVIOUS
<1>1. CASE ForkPointStrategy
  <2>1. ASSUME NEW b \in MergeBases(commit, reflog) \cap reflog, b # commit, Found(b, "fork-point")
        PROVE  BaseInv'
    BY <2>1, MergeBasesAreShared, FoundPreserves
  <2>2. CASE pc = "fork-point" /\ Try("parent-fallback")
    BY <2>2, TryPreserves DEF Try
  <2> QED
    BY <1>1, <2>1, <2>2 DEF ForkPointStrategy
<1>2. CASE ParentStrategy
  <2>1. CASE commit \in Cached /\ Found(history[commit][1], "parent-fallback")
    <3> DEFINE p == history[commit][1]
    <3>1. Ordered /\ N \in Nat /\ commit \in Commits /\ main \in Commits /\ main \in reflog
      BY HistoriesAreOrdered, ForkPointAssumption DEF BaseInv, ForkPointAssumption
    <3>2. commit \in onMainline /\ history[commit] # <<>>
      BY <2>1 DEF Cached
    <3>3. 1 \in DOMAIN history[commit] /\ p \in Commits /\ p \in 1 .. commit - 1
      BY <3>1, <3>2, FirstParentIsBefore
    <3>4. p \in Ancestors[commit]
      BY <3>1, <3>3, AncestorsType
    <3>5. commit \in Ancestors[main]
      BY <3>1, <3>2, MainlineIsMerged DEF BaseInv
    <3>6. p \in Ancestors[main]
      BY <3>1, <3>4, <3>5, AncestorsAreTransitive
    <3>7. p # commit
      BY <3>1, <3>3 DEF Commits
    <3> QED
      BY <2>1, <3>1, <3>4, <3>6, <3>7, FoundPreserves
  <2>2. CASE commit \notin Cached /\ pc = "parent-fallback" /\ Try("merge-base")
    BY <2>2, TryPreserves DEF Try
  <2> QED
    BY <1>2, <2>1, <2>2 DEF ParentStrategy
<1>3. CASE MergeBaseStrategy
  <2>1. pc = "merge-base" /\ commit \notin Cached /\ main \in reflog
    BY <1>3 DEF MergeBaseStrategy, BaseInv
  <2>2. ASSUME NEW b \in MergeBases(commit, {main}), Found(b, "merge-base")
        PROVE  BaseInv'
    <3>1. b \in Ancestors[commit] /\ b \in Ancestors[main]
      BY MergeBasesAreShared
    <3> QED
      BY <2>1, <2>2, <3>1, FoundPreserves
  <2>3. CASE pc' = "failed" /\ UNCHANGED <<inputs, base, strategy>>
    BY <2>1, <2>3, TryPreserves
  <2> QED
    BY <1>3, <2>2, <2>3 DEF MergeBaseStrategy
<1>4. CASE UNCHANGED vars
  <2>1. Ancestors' = Ancestors /\ Cached' = Cached
    BY <1>4, InputsFixDefinitions DEF vars
  <2> QED
    BY <1>4, <2>1 DEF BaseInv, BaseIsSharedAncestor, EmptyOnlyWhenMerged, inputs, vars
<1> QED
  BY <1>1, <1>2, <1>3, <1>4 DEF Next

\* What is inductive about the strategies.
THEOREM BaseInvariant == Spec => []BaseInv
BY BaseInvInit, BaseInvStep, PTL DEF Spec

\* The base found for a commit is an ancestor of it, and was on the default branch, in
\* every history: FindForkPoint never diffs against a commit of somebody else's.
THEOREM BasesAreSharedAncestors == Spec => []BaseIsSharedAncestor
<1>1. BaseInv => BaseIsSharedAncestor
  BY DEF BaseInv
<1> QED
  BY <1>1, BaseInvariant, PTL

\* FindForkPoint returns the commit itself, for which all diffs are empty, only if it is
\* merged and the mainline cache had no parent for it.
THEOREM EmptyDiffsAreOfMergedCommits == Spec => []EmptyOnlyWhenMerged
<1>1. BaseInv => EmptyOnlyWhenMerged
  BY DEF BaseInv
<1> QED
  BY <1>1, BaseInvariant, PTL
================================================================================
