-------------------------- MODULE CollectDiffsProofs --------------------------
(***************************************************************************)
(* What the pool of CollectDiffs promises, for any number of commits and   *)
(* of workers.                                                             *)
(***************************************************************************)
EXTENDS CollectDiffs, FiniteSetTheorems, SequenceTheorems, TLAPS

-----------------------------------------------------------------------------
(***************************************************************************)
(* Channels.                                                               *)
(***************************************************************************)

\* What is received, and what is left.
LEMMA ReceiveProperties ==
  ASSUME NEW S, NEW s \in Seq(S), s # <<>>
  PROVE  /\ 1 \in DOMAIN s /\ Head(s) = s[1] /\ Head(s) \in S
         /\ Tail(s) \in Seq(S)
         /\ Len(s) \in Nat \ {0} /\ Len(Tail(s)) = Len(s) - 1
         /\ \A i \in DOMAIN Tail(s) : i + 1 \in DOMAIN s /\ i + 1 # 1 /\ Tail(s)[i] = s[i + 1]
         /\ \A i \in DOMAIN s : i # 1 => i - 1 \in DOMAIN Tail(s) /\ Tail(s)[i - 1] = s[i]
         /\ \A i, j \in DOMAIN Tail(s) : i + 1 = j + 1 => i = j
<1>1. Len(s) \in Nat \ {0} /\ DOMAIN s = 1 .. Len(s) /\ Head(s) = s[1]
  BY EmptySeq, LenProperties
<1>2. /\ Head(s) \in S /\ Tail(s) \in Seq(S) /\ Len(Tail(s)) = Len(s) - 1
      /\ \A i \in 1 .. Len(Tail(s)) : Tail(s)[i] = s[i + 1]
  BY HeadTailProperties
<1>3. DOMAIN Tail(s) = 1 .. Len(s) - 1
  BY <1>2, LenProperties
<1> QED
  BY <1>1, <1>2, <1>3

\* What a channel has after a send.
LEMMA SendProperties ==
  ASSUME NEW S, NEW s \in Seq(S), NEW e \in S
  PROVE  /\ Append(s, e) \in Seq(S)
         /\ Len(s) \in Nat /\ Len(Append(s, e)) = Len(s) + 1
         /\ \A i \in DOMAIN s : i \in DOMAIN Append(s, e) /\ Append(s, e)[i] = s[i]
         /\ Len(s) + 1 \in DOMAIN Append(s, e) /\ Append(s, e)[Len(s) + 1] = e
         /\ \A i \in DOMAIN Append(s, e) : i \in DOMAIN s \/ i = Len(s) + 1
OBVIOUS

-----------------------------------------------------------------------------
(***************************************************************************)
(* Counting.                                                               *)
(***************************************************************************)

Extracted == {i \in Indices : extracted[i].times = 1}

LEMMA ExtractedIsCounted ==
  /\ IsFiniteSet(Indices) /\ Cardinality(Indices) = Count
  /\ IsFiniteSet(Extracted)
  /\ Cardinality(Extracted) \in 0 .. Count
<1>1. IsFiniteSet(Indices) /\ Cardinality(Indices) = Count
  BY FS_Interval, CollectDiffsAssumption DEF Indices, CollectDiffsAssumption
<1>2. Extracted \in SUBSET Indices
  BY DEF Extracted
<1>3. IsFiniteSet(Extracted) /\ Cardinality(Extracted) <= Cardinality(Indices)
  BY <1>1, <1>2, FS_Subset
<1> QED
  BY <1>1, <1>3, FS_CardinalityType, CollectDiffsAssumption DEF CollectDiffsAssumption

\* A set of which any two members are the same has one, if it is not empty.
LEMMA OneOrNone ==
  ASSUME NEW S, \A x, y \in S : x = y
  PROVE  Cardinality(S) = IF S = {} THEN 0 ELSE 1
<1>1. CASE S = {}
  BY <1>1, FS_EmptySet
<1>2. CASE S # {}
  <2>1. PICK x \in S : TRUE
    BY <1>2
  <2>2. S = {x}
    BY <2>1
  <2> QED
    BY <1>2, <2>2, FS_Singleton
<1> QED
  BY <1>1, <1>2

LEMMA PlacedInOnePlace ==
  ASSUME TypeOK, Placed
  PROVE  EveryCommitInOnePlace
<1> SUFFICES ASSUME NEW i \in Indices
             PROVE  Cardinality({k \in DOMAIN jobs : jobs[k] = i})
                    + Cardinality({w \in Workers : At(w) /\ idx[w] = i}) + extracted[i].times = 1
  BY DEF EveryCommitInOnePlace, At
<1> DEFINE waiting == {k \in DOMAIN jobs : jobs[k] = i}
           working == {w \in Workers : At(w) /\ idx[w] = i}
<1>1. \A x, y \in waiting : x = y
  BY DEF Placed
<1>2. \A x, y \in working : x = y
  BY DEF Placed
<1>3. waiting = {} \/ working = {}
  BY DEF Placed
<1>4. extracted[i].times \in 0 .. 1
  BY DEF TypeOK
<1>5. extracted[i].times = 1 => waiting = {} /\ working = {}
  BY DEF Placed
<1>6. extracted[i].times = 0 => waiting # {} \/ working # {}
  BY DEF Placed
<1> HIDE DEF waiting, working
<1>7. Cardinality(waiting) = IF waiting = {} THEN 0 ELSE 1
  BY <1>1, OneOrNone
<1>8. Cardinality(working) = IF working = {} THEN 0 ELSE 1
  BY <1>2, OneOrNone
<1>9. Cardinality(waiting) + Cardinality(working) + extracted[i].times = 1
  BY <1>3, <1>4, <1>5, <1>6, <1>7, <1>8
<1> QED
  BY <1>9 DEF waiting, working

-----------------------------------------------------------------------------
(***************************************************************************)
(* The initial states, and every step.                                     *)
(***************************************************************************)

\* The invariant but for the counting of places, which follows.
Core == TypeOK /\ NoSendAfterClose /\ Placed /\ FailuresAreEmpty /\ Delivered /\ EndsInOrder

LEMMA CoreInit == Init => Core
<1> SUFFICES ASSUME Init
             PROVE  Core
  OBVIOUS
<1> USE CollectDiffsAssumption DEF CollectDiffsAssumption, Init
<1>1. Count \in Nat /\ Indices \subseteq Nat \ {0}
  BY DEF Indices
<1>2. TypeOK
  <2>1. jobs \in Seq(Indices)
    BY <1>1 DEF Indices
  <2>2. resultCh \in Seq(Results)
    OBVIOUS
  <2>3. extracted \in [Indices -> [diffs : SUBSET Diffs, times : 0..1]]
    OBVIOUS
  <2>4. diff \in [Workers -> [got : SUBSET Diffs, todo : SUBSET Diffs, err : BOOLEAN]]
    BY DEF Nothing
  <2>5. /\ pc \in [Workers -> {"take", "forkPoint", "diff", "send", "done", "panic"}]
        /\ idx \in [Workers -> Indices \cup {None}]
    OBVIOUS
  <2>6. \A w \in Workers : pc[w] \notin {"forkPoint", "diff", "send"}
    OBVIOUS
  <2>7. results \in [Indices -> SUBSET Diffs]
    OBVIOUS
  <2>8. closed \in BOOLEAN
    OBVIOUS
  <2>10. processed \in 0..Count
    <3>1. Count \in Nat => 0 \in 0..Count
      OBVIOUS
    <3> QED
      BY <1>1, <3>1
  <2>9. collector \in {"collecting", "returned"}
    OBVIOUS
  <2> QED
    BY <2>1, <2>2, <2>3, <2>4, <2>5, <2>6, <2>7, <2>8, <2>9, <2>10 DEF TypeOK
<1>3. NoSendAfterClose /\ FailuresAreEmpty /\ EndsInOrder
  BY <1>1 DEF NoSendAfterClose, FailuresAreEmpty, EndsInOrder
<1>4. Placed
  BY DEF Placed, At
<1>5. Delivered
  <2>1. {i \in Indices : extracted[i].times = 1} = {}
    OBVIOUS
  <2>2. Cardinality({i \in Indices : extracted[i].times = 1}) = 0
    BY <2>1, FS_EmptySet
  <2>3. DOMAIN resultCh = {} /\ processed + Len(resultCh) = 0
    OBVIOUS
  <2> QED
    BY <2>2, <2>3 DEF Delivered
<1> QED
  BY <1>2, <1>3, <1>4, <1>5 DEF Core

LEMMA TakePreserves ==
  ASSUME Core, NEW w \in Workers, Take(w)
  PROVE  Core'
<1> USE DEF Core, Take
<1>1. /\ 1 \in DOMAIN jobs /\ Head(jobs) = jobs[1] /\ Head(jobs) \in Indices
      /\ Tail(jobs) \in Seq(Indices)
      /\ \A i \in DOMAIN Tail(jobs) : i + 1 \in DOMAIN jobs /\ i + 1 # 1 /\ Tail(jobs)[i] = jobs[i + 1]
      /\ \A i \in DOMAIN jobs : i # 1 => i - 1 \in DOMAIN Tail(jobs) /\ Tail(jobs)[i - 1] = jobs[i]
      /\ \A i, j \in DOMAIN Tail(jobs) : i + 1 = j + 1 => i = j
  BY ReceiveProperties DEF TypeOK
<1>2. None \notin Indices
  BY DEF None, Indices
<1>3. TypeOK'
  BY <1>1, <1>2 DEF TypeOK, Nothing
<1>4. NoSendAfterClose' /\ FailuresAreEmpty' /\ EndsInOrder'
  BY <1>1 DEF TypeOK, NoSendAfterClose, FailuresAreEmpty, EndsInOrder
<1>5. Placed'
  <2>1. /\ \A v \in Workers : v # w => idx'[v] = idx[v] /\ (At(v)' <=> At(v))
        /\ idx'[w] = jobs[1] /\ At(w)' /\ ~At(w)
        /\ jobs' = Tail(jobs) /\ extracted' = extracted
    BY <1>1 DEF TypeOK, At
  <2>2. \A j, k \in DOMAIN jobs : jobs[j] = jobs[k] => j = k
    BY DEF Placed
  <2>3. \A j, k \in DOMAIN jobs' : jobs'[j] = jobs'[k] => j = k
    BY <1>1, <2>1, <2>2
  <2>4. \A k \in DOMAIN jobs' : /\ extracted'[jobs'[k]].times = 0
                                /\ \A v \in Workers : At(v)' => idx'[v] # jobs'[k]
    BY <1>1, <2>1, <2>2 DEF Placed
  <2>5. \A v \in Workers : At(v)' => extracted'[idx'[v]].times = 0
    BY <1>1, <2>1 DEF Placed
  <2>6. \A u, v \in Workers : At(u)' /\ At(v)' /\ idx'[u] = idx'[v] => u = v
    BY <1>1, <2>1 DEF Placed
  <2>7. ASSUME NEW i \in Indices, extracted'[i].times = 0
        PROVE  (\E k \in DOMAIN jobs' : jobs'[k] = i) \/ \E v \in Workers : At(v)' /\ idx'[v] = i
    <3>1. ASSUME NEW k \in DOMAIN jobs, jobs[k] = i
          PROVE  (\E l \in DOMAIN jobs' : jobs'[l] = i) \/ \E v \in Workers : At(v)' /\ idx'[v] = i
      <4>1. CASE k = 1
        BY <2>1, <3>1, <4>1
      <4>2. CASE k # 1
        <5>1. k - 1 \in DOMAIN jobs' /\ jobs'[k - 1] = i
          BY <1>1, <2>1, <3>1, <4>2
        <5> QED
          BY <5>1
      <4> QED
        BY <4>1, <4>2
    <3>2. CASE \E v \in Workers : At(v) /\ idx[v] = i
      BY <2>1, <3>2
    <3> QED
      BY <2>1, <2>7, <3>1, <3>2 DEF Placed
  <2> QED
    BY <2>3, <2>4, <2>5, <2>6, <2>7 DEF Placed
<1>6. Delivered'
  BY DEF Delivered
<1> QED
  BY <1>3, <1>4, <1>5, <1>6

\* Setting the fields of what a worker has.
LEMMA DiffUpdates ==
  ASSUME NEW r \in [got : SUBSET Diffs, todo : SUBSET Diffs, err : BOOLEAN],
         NEW x \in SUBSET Diffs, NEW y \in SUBSET Diffs
  PROVE  /\ [r EXCEPT !.todo = x] \in [got : SUBSET Diffs, todo : SUBSET Diffs, err : BOOLEAN]
         /\ [r EXCEPT !.todo = x].err = r.err
         /\ [r EXCEPT !.err = TRUE] \in [got : SUBSET Diffs, todo : SUBSET Diffs, err : BOOLEAN]
         /\ [r EXCEPT !.err = TRUE].got = r.got
         /\ [r EXCEPT !.todo = x, !.got = y] \in [got : SUBSET Diffs, todo : SUBSET Diffs, err : BOOLEAN]
         /\ [r EXCEPT !.todo = x, !.got = y].err = r.err
OBVIOUS

\* A worker goes on, with diffs of its own.
LEMMA MovePreserves ==
  ASSUME Core, NEW w \in Workers, NEW next \in {"diff", "send", "done"},
         NEW d \in [got : SUBSET Diffs, todo : SUBSET Diffs, err : BOOLEAN],
         pc' = [pc EXCEPT ![w] = next], diff' = [diff EXCEPT ![w] = d],
         IF next = "done" THEN pc[w] = "take" /\ jobs = <<>> ELSE At(w),
         next = "diff" => ~d.err,
         next = "send" /\ d.err => d.got = {},
         UNCHANGED <<jobs, resultCh, closed, idx, results, processed, collector, extracted>>
  PROVE  Core'
<1> USE DEF Core
<1>1. /\ pc' \in [Workers -> {"take", "forkPoint", "diff", "send", "done", "panic"}]
      /\ diff' \in [Workers -> [got : SUBSET Diffs, todo : SUBSET Diffs, err : BOOLEAN]]
      /\ \A v \in Workers : v # w => pc'[v] = pc[v] /\ diff'[v] = diff[v]
      /\ pc'[w] = next /\ diff'[w] = d
  BY DEF TypeOK
<1>2. \A v \in Workers : At(v)' <=> At(v)
  BY <1>1 DEF At
<1>3. TypeOK'
  BY <1>1, <1>2 DEF TypeOK, At
<1>4. FailuresAreEmpty'
  BY <1>1 DEF FailuresAreEmpty
<1>5. NoSendAfterClose'
  BY <1>1 DEF NoSendAfterClose
<1>6. EndsInOrder'
  BY <1>1 DEF EndsInOrder, At
<1>7. Placed'
  BY <1>2 DEF Placed
<1>8. Delivered'
  BY DEF Delivered
<1> QED
  BY <1>3, <1>4, <1>5, <1>6, <1>7, <1>8

LEMMA LeavePreserves ==
  ASSUME Core, NEW w \in Workers, Leave(w)
  PROVE  Core'
<1>1. diff[w] \in [got : SUBSET Diffs, todo : SUBSET Diffs, err : BOOLEAN]
  BY DEF Core, TypeOK
<1>2. diff' = [diff EXCEPT ![w] = diff[w]]
  BY DEF Core, TypeOK, Leave
<1> QED
  BY <1>1, <1>2, MovePreserves DEF Leave

LEMMA FindForkPointPreserves ==
  ASSUME Core, NEW w \in Workers, FindForkPoint(w)
  PROVE  Core'
<1>1. /\ diff[w] \in [got : SUBSET Diffs, todo : SUBSET Diffs, err : BOOLEAN]
      /\ diff[w].got = {} /\ ~diff[w].err /\ At(w)
  BY DEF Core, TypeOK, FailuresAreEmpty, FindForkPoint, Nothing, At
<1>2. CASE pc' = [pc EXCEPT ![w] = "diff"] /\ diff' = [diff EXCEPT ![w].todo = Diffs]
  <2> DEFINE d == [diff[w] EXCEPT !.todo = Diffs]
  <2>1. d \in [got : SUBSET Diffs, todo : SUBSET Diffs, err : BOOLEAN] /\ ~d.err
    BY <1>1, DiffUpdates
  <2>2. diff' = [diff EXCEPT ![w] = d]
    BY <1>2, Zenon
  <2> HIDE DEF d
  <2> QED
    BY <1>1, <1>2, <2>1, <2>2, MovePreserves DEF FindForkPoint
<1>3. CASE pc' = [pc EXCEPT ![w] = "send"] /\ diff' = [diff EXCEPT ![w].err = TRUE]
  <2> DEFINE d == [diff[w] EXCEPT !.err = TRUE]
  <2>1. d \in [got : SUBSET Diffs, todo : SUBSET Diffs, err : BOOLEAN] /\ d.got = {}
    BY <1>1, DiffUpdates
  <2>2. diff' = [diff EXCEPT ![w] = d]
    BY <1>3, Zenon
  <2> HIDE DEF d
  <2> QED
    BY <1>1, <1>3, <2>1, <2>2, MovePreserves DEF FindForkPoint
<1> QED
  BY <1>2, <1>3 DEF FindForkPoint

LEMMA DiffPreserves ==
  ASSUME Core, NEW w \in Workers, Diff(w)
  PROVE  Core'
<1>1. /\ diff[w] \in [got : SUBSET Diffs, todo : SUBSET Diffs, err : BOOLEAN]
      /\ ~diff[w].err /\ At(w) /\ pc[w] = "diff"
      /\ pc \in [Workers -> {"take", "forkPoint", "diff", "send", "done", "panic"}]
  BY DEF Core, TypeOK, FailuresAreEmpty, Diff, At
<1>2. CASE diff[w].todo = {} /\ pc' = [pc EXCEPT ![w] = "send"] /\ diff' = diff
  <2>1. diff' = [diff EXCEPT ![w] = diff[w]]
    BY <1>2 DEF Core, TypeOK
  <2> QED
    BY <1>1, <1>2, <2>1, MovePreserves DEF Diff
<1>3. ASSUME NEW d \in diff[w].todo, NEW fails \in BOOLEAN, pc' = pc,
             diff' = [diff EXCEPT ![w].todo = @ \ {d},
                                  ![w].got = IF fails THEN @ ELSE @ \cup {d}]
      PROVE  Core'
  <2> DEFINE todo == diff[w].todo \ {d}
             got == IF fails THEN diff[w].got ELSE diff[w].got \cup {d}
             after == [diff[w] EXCEPT !.todo = todo, !.got = got]
  <2>1. todo \in SUBSET Diffs /\ got \in SUBSET Diffs
    BY <1>1
  <2>2. diff' = [diff EXCEPT ![w] = after]
    BY <1>1, <1>3 DEF Core, TypeOK
  <2>3. pc' = [pc EXCEPT ![w] = "diff"]
    BY <1>1, <1>3
  <2> HIDE DEF todo, got
  <2>4. after \in [got : SUBSET Diffs, todo : SUBSET Diffs, err : BOOLEAN] /\ ~after.err
    BY <1>1, <2>1, DiffUpdates
  <2> HIDE DEF after
  <2> QED
    BY <1>1, <2>2, <2>3, <2>4, MovePreserves DEF Diff
<1> QED
  BY <1>2, <1>3 DEF Diff

\* What is known of a result in the channel.
LEMMA ResultsOnTheirWay ==
  ASSUME Core
  PROVE  \A k \in DOMAIN resultCh :
           /\ resultCh[k] \in Results
           /\ resultCh[k].idx \in Indices /\ resultCh[k].diff \in SUBSET Diffs
           /\ extracted[resultCh[k].idx].times = 1
           /\ extracted[resultCh[k].idx].diffs = resultCh[k].diff
           /\ results[resultCh[k].idx] = {}
           /\ resultCh[k].err => resultCh[k].diff = {}
<1> SUFFICES ASSUME NEW k \in DOMAIN resultCh
             PROVE  /\ resultCh[k] \in Results
                    /\ resultCh[k].idx \in Indices /\ resultCh[k].diff \in SUBSET Diffs
                    /\ extracted[resultCh[k].idx].times = 1
                    /\ extracted[resultCh[k].idx].diffs = resultCh[k].diff
                    /\ results[resultCh[k].idx] = {}
                    /\ resultCh[k].err => resultCh[k].diff = {}
  OBVIOUS
<1>1. resultCh \in Seq(Results) /\ k \in 1 .. Len(resultCh)
  BY LenProperties DEF Core, TypeOK
<1>2. resultCh[k] \in Results
  BY <1>1, ElementOfSeq
<1> QED
  BY <1>2 DEF Core, Delivered, Results

\* The commit of a worker that sends was extracted by no other, and the channel is open.
LEMMA SendPreserves ==
  ASSUME Core, NEW w \in Workers, Send(w)
  PROVE  Core'
<1> USE DEF Core
<1> DEFINE i == idx[w]
           res == [idx |-> i, diff |-> diff[w].got, err |-> diff[w].err]
<1>1. /\ At(w) /\ i \in Indices /\ extracted[i].times = 0 /\ extracted[i].diffs = {} /\ results[i] = {}
      /\ diff[w].got \in SUBSET Diffs /\ diff[w].err \in BOOLEAN
      /\ diff[w].err => diff[w].got = {}
      /\ ~closed
  BY DEF Send, TypeOK, Placed, FailuresAreEmpty, Delivered, EndsInOrder, At
<1>2. collector # "returned"
  <2>1. Count # 0
    BY <1>1, CollectDiffsAssumption DEF Indices, CollectDiffsAssumption
  <2> QED
    BY <1>1, <2>1 DEF EndsInOrder
<1>3. res \in Results /\ res.idx = i /\ res.diff = diff[w].got /\ res.err = diff[w].err
  BY <1>1 DEF Results
<1>4. /\ resultCh' = Append(resultCh, res)
      /\ pc' = [pc EXCEPT ![w] = "take"]
      /\ UNCHANGED <<jobs, closed, idx, diff, results, processed, collector>>
  BY <1>1 DEF Send
<1>5. /\ extracted' \in [Indices -> [diffs : SUBSET Diffs, times : 0..1]]
      /\ extracted'[i] = [diffs |-> res.diff, times |-> 1]
      /\ extracted'[i].times = 1 /\ extracted'[i].diffs = res.diff
      /\ \A j \in Indices : j # i => extracted'[j] = extracted[j]
  BY <1>1, <1>3 DEF Send, TypeOK
<1>6. /\ resultCh' \in Seq(Results)
      /\ Len(resultCh) \in Nat /\ Len(resultCh') = Len(resultCh) + 1
      /\ \A k \in DOMAIN resultCh : k \in DOMAIN resultCh' /\ resultCh'[k] = resultCh[k]
      /\ Len(resultCh) + 1 \in DOMAIN resultCh' /\ resultCh'[Len(resultCh) + 1] = res
      /\ \A k \in DOMAIN resultCh' : k \in DOMAIN resultCh \/ k = Len(resultCh) + 1
  <2>1. resultCh \in Seq(Results)
    BY DEF TypeOK
  <2> HIDE DEF Core, res, i
  <2> QED
    BY <1>3, <1>4, <2>1, SendProperties
<1>7. /\ \A v \in Workers : v # w => pc'[v] = pc[v] /\ (At(v)' <=> At(v))
      /\ ~At(w)' /\ pc'[w] = "take"
      /\ pc' \in [Workers -> {"take", "forkPoint", "diff", "send", "done", "panic"}]
  BY <1>4 DEF TypeOK, At
<1> HIDE DEF i, res
<1>8. TypeOK'
  BY <1>4, <1>5, <1>6, <1>7 DEF TypeOK, At
<1>9. NoSendAfterClose' /\ FailuresAreEmpty' /\ EndsInOrder'
  BY <1>1, <1>2, <1>4, <1>7 DEF NoSendAfterClose, FailuresAreEmpty, EndsInOrder
<1>10. Placed'
  <2>1. \A k \in DOMAIN jobs : jobs[k] \in Indices /\ jobs[k] # i
    BY <1>1 DEF Placed, TypeOK, i
  <2>2. \A v \in Workers : At(v)' => v # w /\ At(v) /\ idx[v] \in Indices /\ idx[v] # i
    BY <1>1, <1>7 DEF Placed, TypeOK, At, i
  <2>3. \A k \in DOMAIN jobs : /\ extracted'[jobs[k]].times = 0
                               /\ \A v \in Workers : At(v)' => idx[v] # jobs[k]
    BY <1>5, <2>1, <2>2 DEF Placed
  <2>4. \A v \in Workers : At(v)' => extracted'[idx[v]].times = 0
    BY <1>5, <2>2 DEF Placed
  <2>5. ASSUME NEW j \in Indices, extracted'[j].times = 0
        PROVE  (\E k \in DOMAIN jobs : jobs[k] = j) \/ \E v \in Workers : At(v)' /\ idx[v] = j
    BY <1>5, <1>7, <2>5 DEF Placed, i
  <2> QED
    BY <1>4, <2>2, <2>3, <2>4, <2>5 DEF Placed
<1>11. Delivered'
  <2>1. \A k \in DOMAIN resultCh : resultCh[k] \in Results /\ resultCh[k].idx \in Indices /\ resultCh[k].idx # i
    BY <1>1, ResultsOnTheirWay
  <2>2. ASSUME NEW k \in DOMAIN resultCh'
        PROVE  LET r == resultCh'[k]
               IN  /\ extracted'[r.idx].times = 1 /\ extracted'[r.idx].diffs = r.diff
                   /\ results'[r.idx] = {}
                   /\ r.err => r.diff = {}
    <3>1. CASE k \in DOMAIN resultCh
      BY <1>4, <1>5, <1>6, <2>1, <3>1, ResultsOnTheirWay
    <3>2. CASE k = Len(resultCh) + 1
      BY <1>1, <1>3, <1>4, <1>5, <1>6, <3>2
    <3> QED
      BY <1>6, <3>1, <3>2
  <2>3. \A j, k \in DOMAIN resultCh' : resultCh'[j].idx = resultCh'[k].idx => j = k
    BY <1>3, <1>6, <2>1 DEF Delivered
  <2>4. \A j \in Indices : extracted'[j].times = 0 => results'[j] = {} /\ extracted'[j].diffs = {}
    BY <1>4, <1>5 DEF Delivered
  <2>5. ASSUME NEW j \in Indices
        PROVE  (\E k \in DOMAIN resultCh' : resultCh'[k].idx = j) \/ results'[j] = extracted'[j].diffs
    <3>1. CASE j = i
      BY <1>3, <1>6, <3>1
    <3>2. CASE j # i
      BY <1>4, <1>5, <1>6, <3>2 DEF Delivered
    <3> QED
      BY <3>1, <3>2
  <2>6. processed' + Len(resultCh') = Cardinality({j \in Indices : extracted'[j].times = 1})
    <3>1. {j \in Indices : extracted'[j].times = 1} = Extracted \cup {i}
      BY <1>1, <1>5 DEF Extracted
    <3>2. i \notin Extracted
      BY <1>1 DEF Extracted
    <3>3. Cardinality(Extracted \cup {i}) = Cardinality(Extracted) + 1
      BY <3>2, ExtractedIsCounted, FS_AddElement
    <3>4. processed + Len(resultCh) = Cardinality(Extracted) /\ processed \in Nat
      BY DEF Delivered, Extracted, TypeOK
    <3>5. processed' + Len(resultCh') = Cardinality(Extracted) + 1
      BY <1>4, <1>6, <3>4, ExtractedIsCounted
    <3> QED
      BY <3>1, <3>3, <3>5
  <2> QED
    BY <2>2, <2>3, <2>4, <2>5, <2>6 DEF Delivered
<1> QED
  BY <1>8, <1>9, <1>10, <1>11

LEMMA CollectPreserves ==
  ASSUME Core, Collect
  PROVE  Core'
<1> USE DEF Core
<1> DEFINE res == Head(resultCh)
<1>1. /\ 1 \in DOMAIN resultCh /\ res = resultCh[1] /\ res \in Results
      /\ resultCh' = Tail(resultCh) /\ resultCh' \in Seq(Results)
      /\ Len(resultCh) \in Nat \ {0} /\ Len(resultCh') = Len(resultCh) - 1
      /\ \A k \in DOMAIN resultCh' : k + 1 \in DOMAIN resultCh /\ k + 1 # 1 /\ resultCh'[k] = resultCh[k + 1]
      /\ \A k \in DOMAIN resultCh : k # 1 => k - 1 \in DOMAIN resultCh' /\ resultCh'[k - 1] = resultCh[k]
      /\ \A j, k \in DOMAIN resultCh' : j + 1 = k + 1 => j = k
  BY ReceiveProperties DEF TypeOK, Collect
<1>2. /\ extracted[res.idx].times = 1 /\ extracted[res.idx].diffs = res.diff
      /\ results[res.idx] = {}
      /\ res.err => res.diff = {}
      /\ res.idx \in Indices /\ res.diff \in SUBSET Diffs
  BY <1>1, ResultsOnTheirWay
<1>3. /\ results' \in [Indices -> SUBSET Diffs]
      /\ results'[res.idx] = extracted[res.idx].diffs
      /\ \A j \in Indices : j # res.idx => results'[j] = results[j]
  <2>1. results \in [Indices -> SUBSET Diffs]
    BY DEF TypeOK
  <2>2. CASE res.err
    <3>1. results' = results
      BY <2>2 DEF Collect
    <3> HIDE DEF res
    <3> QED
      BY <1>2, <2>1, <2>2, <3>1
  <2>3. CASE ~res.err
    <3>1. results' = [results EXCEPT ![res.idx] = res.diff]
      BY <2>3 DEF Collect
    <3> HIDE DEF res
    <3> QED
      BY <1>2, <2>1, <3>1
  <2> QED
    BY <2>2, <2>3
<1>4. /\ UNCHANGED <<jobs, closed, pc, idx, diff, collector, extracted>>
      /\ processed' = processed + 1 /\ collector = "collecting"
  BY DEF Collect, workerState
<1> HIDE DEF res
<1>5. processed + Len(resultCh) = Cardinality(Extracted) /\ processed \in Nat
  BY DEF Delivered, Extracted, TypeOK
<1>6. processed' \in 0 .. Count
  <2>1. Cardinality(Extracted) \in Nat /\ Cardinality(Extracted) <= Count /\ Count \in Nat
    BY ExtractedIsCounted, CollectDiffsAssumption DEF CollectDiffsAssumption
  <2> QED
    BY <1>1, <1>4, <1>5, <2>1
<1>7. TypeOK'
  BY <1>1, <1>3, <1>4, <1>6 DEF TypeOK
<1>8. NoSendAfterClose' /\ FailuresAreEmpty' /\ EndsInOrder'
  BY <1>4 DEF NoSendAfterClose, FailuresAreEmpty, EndsInOrder
<1>9. Placed'
  BY <1>4 DEF Placed, At
<1>10. Delivered'
  <2>2. \A k \in DOMAIN resultCh' : resultCh'[k].idx \in Indices /\ resultCh'[k].idx # res.idx
    BY <1>1, ResultsOnTheirWay DEF Delivered
  <2>3. ASSUME NEW k \in DOMAIN resultCh'
        PROVE  LET r == resultCh'[k]
               IN  /\ extracted'[r.idx].times = 1 /\ extracted'[r.idx].diffs = r.diff
                   /\ results'[r.idx] = {}
                   /\ r.err => r.diff = {}
    <3>1. k + 1 \in DOMAIN resultCh /\ resultCh'[k] = resultCh[k + 1]
      BY <1>1
    <3> DEFINE r == resultCh[k + 1]
    <3>2. r.idx \in Indices /\ r.idx # res.idx
      BY <2>2, <3>1
    <3>3. /\ extracted[r.idx].times = 1 /\ extracted[r.idx].diffs = r.diff
          /\ results[r.idx] = {}
          /\ r.err => r.diff = {}
      BY <3>1, ResultsOnTheirWay
    <3> HIDE DEF r
    <3>4. results'[r.idx] = {} /\ extracted' = extracted
      BY <1>3, <1>4, <3>2, <3>3
    <3> QED
      BY <3>1, <3>3, <3>4 DEF r
  <2>4. \A j, k \in DOMAIN resultCh' : resultCh'[j].idx = resultCh'[k].idx => j = k
    BY <1>1 DEF Delivered
  <2>5. \A j \in Indices : extracted'[j].times = 0 => results'[j] = {} /\ extracted'[j].diffs = {}
    BY <1>2, <1>3, <1>4 DEF Delivered
  <2>6. ASSUME NEW j \in Indices
        PROVE  (\E k \in DOMAIN resultCh' : resultCh'[k].idx = j) \/ results'[j] = extracted'[j].diffs
    <3>1. CASE j = res.idx
      BY <1>3, <1>4, <3>1
    <3>2. ASSUME j # res.idx, NEW k \in DOMAIN resultCh, resultCh[k].idx = j
          PROVE  \E l \in DOMAIN resultCh' : resultCh'[l].idx = j
      <4>1. k # 1
        BY <1>1, <3>2
      <4>2. k - 1 \in DOMAIN resultCh' /\ resultCh'[k - 1].idx = j
        BY <1>1, <3>2, <4>1
      <4> QED
        BY <4>2
    <3>3. CASE j # res.idx /\ results[j] = extracted[j].diffs
      BY <1>3, <1>4, <3>3
    <3> QED
      BY <3>1, <3>2, <3>3 DEF Delivered
  <2>7. processed' + Len(resultCh') = Cardinality({j \in Indices : extracted'[j].times = 1})
    <3>1. {j \in Indices : extracted'[j].times = 1} = Extracted
      BY <1>4 DEF Extracted
    <3>2. processed' + Len(resultCh') = Cardinality(Extracted)
      BY <1>1, <1>4, <1>5
    <3> QED
      BY <3>1, <3>2
  <2> QED
    BY <2>3, <2>4, <2>5, <2>6, <2>7 DEF Delivered
<1> QED
  BY <1>7, <1>8, <1>9, <1>10

LEMMA CoreStep == Core /\ [Next]_vars => Core'
<1> SUFFICES ASSUME Core, [Next]_vars
             PROVE  Core'
  OBVIOUS
<1>1. ASSUME NEW w \in Workers, Worker(w)
      PROVE  Core'
  BY <1>1, TakePreserves, LeavePreserves, FindForkPointPreserves, DiffPreserves, SendPreserves DEF Worker
<1>2. CASE CloseResults
  <2>1. EndsInOrder'
    BY <1>2 DEF CloseResults, Core, EndsInOrder, workerState
  <2>2. TypeOK'
    BY <1>2 DEF CloseResults, Core, TypeOK, workerState
  <2> QED
    BY <1>2, <2>1, <2>2 DEF CloseResults, Core, NoSendAfterClose, Placed, At, FailuresAreEmpty, Delivered, workerState
<1>3. CASE Collect
  BY <1>3, CollectPreserves
<1>4. CASE Return
  <2>1. EndsInOrder'
    BY <1>4 DEF Return, Core, EndsInOrder, workerState
  <2>2. TypeOK'
    BY <1>4 DEF Return, Core, TypeOK, workerState
  <2> QED
    BY <1>4, <2>1, <2>2 DEF Return, Core, NoSendAfterClose, Placed, At, FailuresAreEmpty, Delivered, workerState
<1>5. CASE UNCHANGED vars
  BY <1>5 DEF vars, Core, TypeOK, NoSendAfterClose, Placed, At, FailuresAreEmpty, Delivered, EndsInOrder, workerState
<1> QED
  BY <1>1, <1>2, <1>3, <1>4, <1>5 DEF Next

-----------------------------------------------------------------------------
(***************************************************************************)
(* The theorems.                                                           *)
(***************************************************************************)

\* No worker sends on the closed channel, and every commit is in one place: waiting, with
\* one worker, or extracted once.
THEOREM PoolInvariant == Spec => []PoolInv
<1>1. Core => PoolInv
  BY PlacedInOnePlace DEF Core, PoolInv
<1> QED
  BY <1>1, CoreInit, CoreStep, PTL DEF Spec

\* When CollectDiffs returns, it has what was extracted for every commit, at the place of
\* that commit.
THEOREM ResultsAreTheCommits == Spec => []ResultsMatchCommits
<1>1. Core => ResultsMatchCommits
  <2> SUFFICES ASSUME Core, collector = "returned"
               PROVE  /\ processed = Count
                      /\ \A i \in Indices : extracted[i].times = 1 /\ results[i] = extracted[i].diffs
    BY DEF ResultsMatchCommits
  <2> USE DEF Core
  <2>1. resultCh = <<>> /\ (closed \/ Count = 0) /\ Count \in Nat
    BY CollectDiffsAssumption DEF EndsInOrder, CollectDiffsAssumption
  <2>2. ASSUME NEW i \in Indices
        PROVE  extracted[i].times = 1
    <3>1. Count >= 1 /\ closed
      BY <2>1 DEF Indices
    <3>2. 1 \in Workers
      BY <3>1, CollectDiffsAssumption DEF Workers, CollectDiffsAssumption
    <3>3. jobs = <<>> /\ \A w \in Workers : ~At(w)
      BY <3>1, <3>2 DEF EndsInOrder, At
    <3>4. extracted[i].times # 0
      BY <3>3 DEF Placed
    <3>5. extracted[i].times \in 0 .. 1
      BY DEF TypeOK
    <3> QED
      BY <3>4, <3>5
  <2>3. \A i \in Indices : results[i] = extracted[i].diffs
    BY <2>1 DEF Delivered
  <2>4. processed = Count
    <3>1. Extracted = Indices
      BY <2>2 DEF Extracted
    <3>2. processed + Len(resultCh) = Cardinality(Extracted) /\ processed \in Nat
      BY DEF Delivered, Extracted, TypeOK
    <3>3. Len(resultCh) = 0
      BY <2>1
    <3> QED
      BY <3>1, <3>2, <3>3, ExtractedIsCounted
  <2> QED
    BY <2>2, <2>3, <2>4
<1> QED
  BY <1>1, CoreInit, CoreStep, PTL DEF Spec
===============================================================================
