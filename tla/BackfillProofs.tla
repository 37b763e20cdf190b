---------------------------- MODULE BackfillProofs ----------------------------
(***************************************************************************)
(* What Backfill promises, for any list of commits and any size of chunks. *)
(***************************************************************************)
EXTENDS Backfill, FiniteSetTheorems, FunctionTheorems, SequenceTheorems, WellFoundedInduction, TLAPS

-----------------------------------------------------------------------------
(***************************************************************************)
(* Induction, with the set of counterexamples for a predicate.             *)
(***************************************************************************)

\* Natural numbers have a least one.
LEMMA LeastNumber ==
  ASSUME NEW T \in SUBSET Nat, T # {}
  PROVE  \E m \in T : \A k \in T : m <= k
<1>1. \E m \in T : \A k \in T : ~ (<<k, m>> \in OpToRel(<, Nat))
  BY WFMin, NatLessThanWellFounded
<1>2. \A k, m \in Nat : k < m => <<k, m>> \in OpToRel(<, Nat)
  BY DEF OpToRel
<1> DEFINE R == OpToRel(<, Nat)
<1>3. \A k, m \in Nat : k < m => <<k, m>> \in R
  BY <1>2
<1>4. PICK m \in T : \A k \in T : ~ (<<k, m>> \in R)
  BY <1>1
<1> HIDE DEF R
<1>5. ASSUME NEW k \in T
      PROVE  m <= k
  <2>1. m \in Nat /\ k \in Nat
    OBVIOUS
  <2>2. ~ (k < m)
    BY <1>3, <1>4, <2>1, Zenon
  <2> QED
    BY <2>1, <2>2
<1> QED
  BY <1>5

-----------------------------------------------------------------------------
(***************************************************************************)
(* A loop that keeps some members of a list.                               *)
(***************************************************************************)

KeptUpTo(s, C, n, f) ==
  f = [m \in 0 .. n |-> IF m = 0 THEN <<>>
                        ELSE IF s[m] \in C THEN Append(f[m - 1], s[m])
                        ELSE f[m - 1]]

LEMMA KeptExists ==
  ASSUME NEW s, NEW C, NEW N \in Nat
  PROVE  \E f : KeptUpTo(s, C, N, f)
<1> DEFINE T == {n \in 0 .. N : ~ \E f : KeptUpTo(s, C, n, f)}
<1> SUFFICES ASSUME T # {}
             PROVE  FALSE
  OBVIOUS
<1>1. PICK m \in T : \A k \in T : m <= k
  <2>1. T \in SUBSET Nat
    OBVIOUS
  <2> HIDE DEF T
  <2> QED
    BY <2>1, LeastNumber
<1>2. CASE m = 0
  <2>1. KeptUpTo(s, C, 0, [n \in 0 .. 0 |-> <<>>])
    BY DEF KeptUpTo
  <2> QED
    BY <1>2, <2>1
<1>3. CASE m # 0
  <2>1. m - 1 \in 0 .. N /\ m - 1 \notin T /\ m \in 1 .. N
    BY <1>1, <1>3
  <2>2. PICK f : KeptUpTo(s, C, m - 1, f)
    BY <2>1
  <2> DEFINE last == IF s[m] \in C THEN Append(f[m - 1], s[m]) ELSE f[m - 1]
             g == [n \in 0 .. m |-> IF n = m THEN last ELSE f[n]]
  <2>3. ASSUME NEW n \in 0 .. m
        PROVE  g[n] = IF n = 0 THEN <<>>
                      ELSE IF s[n] \in C THEN Append(g[n - 1], s[n]) ELSE g[n - 1]
    <3>1. n # 0 => n - 1 \in 0 .. m /\ n - 1 # m
      BY <2>1
    <3>2. n # 0 => g[n - 1] = f[n - 1]
      BY <3>1
    <3>3. CASE n = m
      BY <2>1, <3>2, <3>3
    <3>4. CASE n # m
      <4>1. n \in 0 .. m - 1 /\ g[n] = f[n]
        BY <3>4, <2>1
      <4>2. f[n] = IF n = 0 THEN <<>>
                   ELSE IF s[n] \in C THEN Append(f[n - 1], s[n]) ELSE f[n - 1]
        BY <2>2, <4>1 DEF KeptUpTo
      <4> QED
        BY <3>2, <4>1, <4>2
    <3> QED
      BY <3>3, <3>4
  <2>4. KeptUpTo(s, C, m, g)
    <3>1. [n \in 0 .. m |-> g[n]] =
            [n \in 0 .. m |-> IF n = 0 THEN <<>>
                              ELSE IF s[n] \in C THEN Append(g[n - 1], s[n]) ELSE g[n - 1]]
      BY <2>3
    <3>2. g = [n \in 0 .. m |-> g[n]]
      OBVIOUS
    <3> HIDE DEF g
    <3> QED
      BY <3>1, <3>2 DEF KeptUpTo
  <2> QED
    BY <2>4
<1> QED
  BY <1>2, <1>3

LEMMA ThoseDef ==
  ASSUME NEW S, NEW s \in Seq(S), NEW C
  PROVE  \E kept : KeptUpTo(s, C, Len(s), kept) /\ Those(s, C) = kept[Len(s)]
<1>1. \E f : f = [n \in 0 .. Len(s) |-> IF n = 0 THEN <<>>
                                        ELSE IF s[n] \in C THEN Append(f[n - 1], s[n])
                                        ELSE f[n - 1]]
  <2>1. \E f : KeptUpTo(s, C, Len(s), f)
    BY KeptExists, LenProperties
  <2> QED
    BY <2>1 DEF KeptUpTo
<1> DEFINE kept == CHOOSE g : g = [n \in 0 .. Len(s) |->
                                     IF n = 0 THEN <<>>
                                     ELSE IF s[n] \in C THEN Append(g[n - 1], s[n])
                                     ELSE g[n - 1]]
<1>2. kept = [n \in 0 .. Len(s) |-> IF n = 0 THEN <<>>
                                    ELSE IF s[n] \in C THEN Append(kept[n - 1], s[n])
                                    ELSE kept[n - 1]]
  BY <1>1
<1>3. Those(s, C) = kept[Len(s)]
  BY DEF Those
<1> HIDE DEF kept
<1> QED
  BY <1>2, <1>3 DEF KeptUpTo

\* What is kept of the first n: those of them in C, in their order.
KeptOf(s, C, n, r) ==
  /\ \A k \in DOMAIN r : r[k] \in C /\ \E i \in 1 .. n : r[k] = s[i]
  /\ \A i \in 1 .. n : s[i] \in C => \E k \in DOMAIN r : r[k] = s[i]
  /\ \A k, l \in DOMAIN r : k < l => \E i, j \in 1 .. n : i < j /\ s[i] = r[k] /\ s[j] = r[l]

LEMMA KeptOfAppend ==
  ASSUME NEW S, NEW s \in Seq(S), NEW C, NEW n \in 1 .. Len(s), NEW r \in Seq(S),
         KeptOf(s, C, n - 1, r), s[n] \in C
  PROVE  Append(r, s[n]) \in Seq(S) /\ KeptOf(s, C, n, Append(r, s[n]))
<1> DEFINE q == Append(r, s[n])
<1>1. n \in Nat /\ n - 1 \in Nat /\ s[n] \in S /\ Len(r) \in Nat /\ DOMAIN r = 1 .. Len(r)
  BY LenProperties, ElementOfSeq
<1>2. /\ q \in Seq(S) /\ DOMAIN q = 1 .. Len(r) + 1
      /\ \A k \in DOMAIN r : q[k] = r[k]
      /\ q[Len(r) + 1] = s[n]
  BY <1>1, AppendProperties, LenProperties
<1> HIDE DEF q
<1>3. \A k \in DOMAIN q : q[k] \in C /\ \E i \in 1 .. n : q[k] = s[i]
  <2> SUFFICES ASSUME NEW k \in DOMAIN q
               PROVE  q[k] \in C /\ \E i \in 1 .. n : q[k] = s[i]
    OBVIOUS
  <2>1. CASE k \in DOMAIN r
    BY <2>1, <1>1, <1>2 DEF KeptOf
  <2>2. CASE k = Len(r) + 1
    BY <2>2, <1>1, <1>2
  <2> QED
    BY <2>1, <2>2, <1>1, <1>2
<1>4. \A i \in 1 .. n : s[i] \in C => \E k \in DOMAIN q : q[k] = s[i]
  <2> SUFFICES ASSUME NEW i \in 1 .. n, s[i] \in C
               PROVE  \E k \in DOMAIN q : q[k] = s[i]
    OBVIOUS
  <2>1. CASE i = n
    BY <2>1, <1>1, <1>2
  <2>2. CASE i # n
    <3>1. i \in 1 .. n - 1
      BY <2>2, <1>1
    <3>2. PICK k \in DOMAIN r : r[k] = s[i]
      BY <3>1 DEF KeptOf
    <3>3. k \in DOMAIN q
      BY <1>1, <1>2
    <3> QED
      BY <3>2, <3>3, <1>2
  <2> QED
    BY <2>1, <2>2
<1>5. \A k, l \in DOMAIN q : k < l => \E i, j \in 1 .. n : i < j /\ s[i] = q[k] /\ s[j] = q[l]
  <2> SUFFICES ASSUME NEW k \in DOMAIN q, NEW l \in DOMAIN q, k < l
               PROVE  \E i, j \in 1 .. n : i < j /\ s[i] = q[k] /\ s[j] = q[l]
    OBVIOUS
  <2>1. k \in DOMAIN r /\ (l \in DOMAIN r \/ l = Len(r) + 1)
    BY <1>1, <1>2
  <2>2. CASE l \in DOMAIN r
    <3>1. PICK i \in 1 .. n - 1, j \in 1 .. n - 1 : i < j /\ s[i] = r[k] /\ s[j] = r[l]
      BY <2>1, <2>2 DEF KeptOf
    <3> QED
      BY <3>1, <2>1, <2>2, <1>1, <1>2
  <2>3. CASE l = Len(r) + 1
    <3>1. PICK i \in 1 .. n - 1 : r[k] = s[i]
      BY <2>1 DEF KeptOf
    <3>2. i \in 1 .. n /\ n \in 1 .. n /\ i < n
      BY <1>1
    <3> QED
      BY <3>1, <3>2, <2>1, <2>3, <1>2
  <2> QED
    BY <2>1, <2>2, <2>3
<1> QED
  BY <1>2, <1>3, <1>4, <1>5 DEF q, KeptOf

LEMMA ThoseAreKept ==
  ASSUME NEW S, NEW s \in Seq(S), NEW C
  PROVE  Those(s, C) \in Seq(S) /\ KeptOf(s, C, Len(s), Those(s, C))
<1>1. PICK kept : KeptUpTo(s, C, Len(s), kept) /\ Those(s, C) = kept[Len(s)]
  BY ThoseDef
<1>2. Len(s) \in Nat
  BY LenProperties
<1>3. \A n \in 0 .. Len(s) : kept[n] = IF n = 0 THEN <<>>
                                       ELSE IF s[n] \in C THEN Append(kept[n - 1], s[n])
                                       ELSE kept[n - 1]
  BY <1>1 DEF KeptUpTo
<1> DEFINE T == {n \in 0 .. Len(s) : ~ (kept[n] \in Seq(S) /\ KeptOf(s, C, n, kept[n]))}
<1>4. T = {}
  <2> SUFFICES ASSUME T # {}
               PROVE  FALSE
    OBVIOUS
  <2>1. PICK m \in T : \A k \in T : m <= k
    <3>1. T \in SUBSET Nat
      BY <1>2
    <3> HIDE DEF T
    <3> QED
      BY <3>1, LeastNumber
  <2>2. CASE m = 0
    <3>1. kept[0] = <<>> /\ <<>> \in Seq(S) /\ DOMAIN <<>> = {}
      BY <1>2, <1>3, EmptySeq
    <3>2. KeptOf(s, C, 0, <<>>)
      BY DEF KeptOf
    <3> QED
      BY <2>2, <3>1, <3>2
  <2>3. CASE m # 0
    <3>1. m - 1 \in 0 .. Len(s) /\ m - 1 \notin T /\ m \in 1 .. Len(s)
      <4>1. m \in 0 .. Len(s)
        OBVIOUS
      <4> HIDE DEF T
      <4> QED
        BY <2>1, <2>3, <4>1, <1>2
    <3>2. kept[m - 1] \in Seq(S) /\ KeptOf(s, C, m - 1, kept[m - 1])
      BY <3>1
    <3>3. kept[m] = IF s[m] \in C THEN Append(kept[m - 1], s[m]) ELSE kept[m - 1]
      BY <1>3, <3>1, <2>3
    <3> HIDE DEF T
    <3>4. CASE s[m] \in C
      <4>1. kept[m] \in Seq(S) /\ KeptOf(s, C, m, kept[m])
        BY <3>1, <3>2, <3>3, <3>4, KeptOfAppend
      <4> QED
        BY <4>1 DEF T
    <3>5. CASE s[m] \notin C
      <4> DEFINE r == kept[m - 1]
      <4>1. kept[m] = r /\ r \in Seq(S)
        BY <3>2, <3>3, <3>5
      <4> HIDE DEF r
      <4>2. KeptOf(s, C, m - 1, r)
        BY <3>2 DEF r
      <4>3. \A i \in 1 .. m - 1 : i \in 1 .. m
        BY <3>1
      <4>4. \A i \in 1 .. m : i \in 1 .. m - 1 \/ i = m
        BY <3>1
      <4>5. KeptOf(s, C, m, r)
        BY <4>2, <4>3, <4>4, <3>5 DEF KeptOf
      <4> QED
        BY <4>1, <4>5 DEF T
    <3> QED
      BY <3>4, <3>5
  <2> QED
    BY <2>2, <2>3
<1>5. Len(s) \notin T
  BY <1>4
<1> HIDE DEF T
<1>6. kept[Len(s)] \in Seq(S) /\ KeptOf(s, C, Len(s), kept[Len(s)])
  BY <1>2, <1>5 DEF T
<1> QED
  BY <1>1, <1>6

\* So nothing is lost, added, repeated or moved.
LEMMA ThoseProperties ==
  ASSUME NEW S, NEW s \in Seq(S), NEW C
  PROVE  /\ Those(s, C) \in Seq(S)
         /\ Members(Those(s, C)) = Members(s) \cap C
         /\ \A k, l \in DOMAIN Those(s, C) :
              k < l => \E i, j \in DOMAIN s : i < j /\ s[i] = Those(s, C)[k] /\ s[j] = Those(s, C)[l]
         /\ OneEach(s) => OneEach(Those(s, C))
<1> DEFINE r == Those(s, C)
<1>1. r \in Seq(S) /\ KeptOf(s, C, Len(s), r) /\ DOMAIN s = 1 .. Len(s) /\ DOMAIN r \subseteq Nat
  <2>1. r \in Seq(S) /\ KeptOf(s, C, Len(s), r) /\ DOMAIN s = 1 .. Len(s)
    BY ThoseAreKept, LenProperties
  <2>2. DOMAIN r \subseteq Nat
    BY <2>1, LenProperties
  <2> QED
    BY <2>1, <2>2
<1> HIDE DEF r
<1>2. Members(r) = Members(s) \cap C
  <2>1. \A x : x \in Members(r) => x \in Members(s) /\ x \in C
    BY <1>1 DEF Members, KeptOf
  <2>2. \A x : x \in Members(s) /\ x \in C => x \in Members(r)
    BY <1>1 DEF Members, KeptOf
  <2> QED
    BY <2>1, <2>2
<1>3. ASSUME NEW k \in DOMAIN r, NEW l \in DOMAIN r, k < l
      PROVE  \E i, j \in DOMAIN s : i < j /\ s[i] = r[k] /\ s[j] = r[l]
  <2>1. \E i, j \in 1 .. Len(s) : i < j /\ s[i] = r[k] /\ s[j] = r[l]
    BY <1>1, <1>3 DEF KeptOf
  <2> QED
    BY <1>1, <2>1
<1>4. ASSUME OneEach(s), NEW k \in DOMAIN r, NEW l \in DOMAIN r, k < l
      PROVE  r[k] # r[l]
  <2>1. PICK i \in DOMAIN s, j \in DOMAIN s : i < j /\ s[i] = r[k] /\ s[j] = r[l]
    BY <1>3, <1>4
  <2>2. i # j
    BY <2>1, <1>1
  <2> QED
    BY <2>1, <2>2, <1>4 DEF OneEach
<1>5. OneEach(s) => OneEach(r)
  BY <1>1, <1>4 DEF OneEach
<1> QED
  BY <1>1, <1>2, <1>3, <1>5 DEF r

-----------------------------------------------------------------------------
(***************************************************************************)
(* Slices of a list.                                                       *)
(***************************************************************************)

Slices == Seq(Commits) \ {<<>>}

PendingOf(t) == UNION {Members(t[k]) : k \in DOMAIN t}

\* No commit is twice in the slices t.
Apart(t) ==
  /\ \A k \in DOMAIN t : OneEach(t[k])
  /\ \A k, l \in DOMAIN t : k # l => Members(t[k]) \cap Members(t[l]) = {}

LEMMA LengthIsCount ==
  ASSUME NEW S, NEW s \in Seq(S), OneEach(s)
  PROVE  IsFiniteSet(Members(s)) /\ Cardinality(Members(s)) = Len(s) /\ Len(s) \in Nat
<1>1. Len(s) \in Nat /\ DOMAIN s = 1 .. Len(s) /\ s \in [1 .. Len(s) -> S]
  BY LenProperties
<1>2. IsFiniteSet(1 .. Len(s)) /\ Cardinality(1 .. Len(s)) = Len(s)
  BY <1>1, FS_Interval
<1>3. s \in [1 .. Len(s) -> Members(s)]
  BY <1>1 DEF Members
<1>4. /\ \A a, b \in 1 .. Len(s) : s[a] = s[b] => a = b
      /\ \A x \in Members(s) : \E a \in 1 .. Len(s) : s[a] = x
  BY <1>1 DEF Members, OneEach
<1>5. ExistsBijection(1 .. Len(s), Members(s))
  <2>1. s \in Bijection(1 .. Len(s), Members(s))
    BY <1>3, <1>4, Fun_IsBij
  <2> QED
    BY <2>1, Fun_ExistsBij
<1> QED
  BY <1>1, <1>2, <1>5, FS_Bijection

LEMMA SliceProperties ==
  ASSUME NEW S, NEW s \in Seq(S), NEW m \in 1 .. Len(s), NEW n \in m .. Len(s)
  PROVE  /\ SubSeq(s, m, n) \in Seq(S) \ {<<>>}
         /\ Members(SubSeq(s, m, n)) = {s[i] : i \in m .. n}
         /\ OneEach(s) => OneEach(SubSeq(s, m, n))
<1> DEFINE r == SubSeq(s, m, n)
<1>1. Len(s) \in Nat /\ m \in Int /\ n \in Int /\ 1 <= m /\ m <= n /\ n <= Len(s)
  BY LenProperties
<1>2. DOMAIN s = 1 .. Len(s) /\ \A i \in m .. n : i \in 1 .. Len(s) /\ s[i] \in S
  BY <1>1, LenProperties, ElementOfSeq
<1>3. r \in Seq(S) /\ Len(r) = n - m + 1 /\ \A i \in 1 .. n - m + 1 : r[i] = s[m + i - 1]
  BY <1>1, <1>2, SubSeqProperties
<1>4. DOMAIN r = 1 .. n - m + 1 /\ r # <<>>
  BY <1>1, <1>3, LenProperties, EmptySeq
<1> HIDE DEF r
<1>5. Members(r) = {s[i] : i \in m .. n}
  <2>1. ASSUME NEW i \in m .. n
        PROVE  s[i] \in Members(r)
    <3>1. i - m + 1 \in DOMAIN r /\ r[i - m + 1] = s[i]
      BY <1>1, <1>3, <1>4
    <3> QED
      BY <3>1 DEF Members
  <2>2. ASSUME NEW k \in DOMAIN r
        PROVE  r[k] \in {s[i] : i \in m .. n}
    <3>1. m + k - 1 \in m .. n /\ r[k] = s[m + k - 1]
      BY <1>1, <1>3, <1>4
    <3> QED
      BY <3>1
  <2> QED
    BY <2>1, <2>2 DEF Members
<1>6. ASSUME OneEach(s), NEW k \in DOMAIN r, NEW l \in DOMAIN r, r[k] = r[l]
      PROVE  k = l
  <2>1. m + k - 1 \in DOMAIN s /\ m + l - 1 \in DOMAIN s /\ s[m + k - 1] = s[m + l - 1]
    BY <1>1, <1>2, <1>3, <1>4, <1>6
  <2>2. m + k - 1 = m + l - 1
    BY <2>1, <1>6 DEF OneEach
  <2> QED
    BY <2>2, <1>1, <1>4
<1>7. OneEach(s) => OneEach(r)
  BY <1>6 DEF OneEach
<1> QED
  BY <1>3, <1>4, <1>5, <1>7 DEF r

\* The halves of a slice have its commits between them.
LEMMA HalvesAreApart ==
  ASSUME NEW s \in Slices, OneEach(s), Len(s) # 1
  PROVE  LET mid == Len(s) \div 2
             left == SubSeq(s, 1, mid)
             right == SubSeq(s, mid + 1, Len(s))
         IN  /\ left \in Slices /\ right \in Slices
             /\ OneEach(left) /\ OneEach(right)
             /\ Members(left) \cap Members(right) = {}
             /\ Members(left) \cup Members(right) = Members(s)
<1> DEFINE mid == Len(s) \div 2
           left == SubSeq(s, 1, mid)
           right == SubSeq(s, mid + 1, Len(s))
<1>1. s \in Seq(Commits) /\ Len(s) \in Nat /\ Len(s) # 0 /\ DOMAIN s = 1 .. Len(s)
  BY LenProperties, EmptySeq DEF Slices
<1>2. mid \in 1 .. Len(s) /\ mid + 1 \in 1 .. Len(s) /\ Len(s) \in mid + 1 .. Len(s)
      /\ 1 \in 1 .. Len(s) /\ mid \in Nat
  BY <1>1
<1> HIDE DEF mid
<1>3. left \in Slices /\ Members(left) = {s[i] : i \in 1 .. mid} /\ OneEach(left)
  BY <1>1, <1>2, SliceProperties DEF Slices
<1>4. right \in Slices /\ Members(right) = {s[i] : i \in mid + 1 .. Len(s)} /\ OneEach(right)
  BY <1>1, <1>2, SliceProperties DEF Slices
<1> HIDE DEF left, right
<1>5. \A i \in 1 .. mid : \A j \in mid + 1 .. Len(s) : i \in DOMAIN s /\ j \in DOMAIN s /\ i # j
  BY <1>1, <1>2
<1>6. Members(left) \cap Members(right) = {}
  BY <1>3, <1>4, <1>5 DEF OneEach
<1>7. \A i \in DOMAIN s : i \in 1 .. mid \/ i \in mid + 1 .. Len(s)
  BY <1>1, <1>2
<1>8. Members(left) \cup Members(right) = Members(s)
  <2>1. Members(left) \subseteq Members(s) /\ Members(right) \subseteq Members(s)
    <3>1. \A i \in 1 .. mid : i \in DOMAIN s
      BY <1>1, <1>2
    <3>2. \A i \in mid + 1 .. Len(s) : i \in DOMAIN s
      BY <1>1, <1>2
    <3> QED
      BY <3>1, <3>2, <1>3, <1>4 DEF Members
  <2>2. Members(s) \subseteq Members(left) \cup Members(right)
    BY <1>3, <1>4, <1>7 DEF Members
  <2> QED
    BY <2>1, <2>2
<1> QED
  BY <1>3, <1>4, <1>6, <1>8 DEF left, right, mid

\* What is pending without the first slice.
LEMMA PopProperties ==
  ASSUME NEW t \in Seq(Slices), t # <<>>, Apart(t)
  PROVE  /\ Head(t) \in Slices /\ OneEach(Head(t)) /\ Members(Head(t)) \subseteq PendingOf(t)
         /\ Tail(t) \in Seq(Slices) /\ Apart(Tail(t))
         /\ Len(t) \in Nat \ {0} /\ Len(Tail(t)) = Len(t) - 1
         /\ PendingOf(Tail(t)) = PendingOf(t) \ Members(Head(t))
<1> DEFINE q == Tail(t)
           first == Head(t)
<1>1. Len(t) \in Nat \ {0} /\ DOMAIN t = 1 .. Len(t) /\ first = t[1]
  BY EmptySeq, LenProperties
<1>2. /\ first \in Slices /\ q \in Seq(Slices) /\ Len(q) = Len(t) - 1
      /\ \A i \in 1 .. Len(q) : q[i] = t[i + 1]
  BY HeadTailProperties
<1>3. DOMAIN q = 1 .. Len(t) - 1
  BY <1>2, LenProperties
<1>4. 1 \in DOMAIN t
  BY <1>1
<1>5. OneEach(first) /\ Members(first) \subseteq PendingOf(t)
  BY <1>1, <1>4 DEF Apart, PendingOf
<1>6. \A i \in DOMAIN q : i + 1 \in DOMAIN t /\ i + 1 # 1 /\ q[i] = t[i + 1]
  BY <1>1, <1>2, <1>3
<1>7. \A i \in DOMAIN t : i # 1 => i - 1 \in DOMAIN q /\ q[i - 1] = t[i]
  BY <1>1, <1>2, <1>3
<1>8. \A i, j \in DOMAIN q : i # j => i + 1 # j + 1
  BY <1>3
<1> HIDE DEF q, first
<1>9. Apart(q)
  BY <1>6, <1>8 DEF Apart
<1>10. PendingOf(q) = PendingOf(t) \ Members(first)
  <2>1. \A i \in DOMAIN q : Members(q[i]) \subseteq PendingOf(t) /\ Members(q[i]) \cap Members(first) = {}
    BY <1>1, <1>4, <1>6 DEF PendingOf, Apart
  <2>2. \A i \in DOMAIN t : Members(t[i]) \subseteq Members(first) \cup PendingOf(q)
    BY <1>1, <1>7 DEF PendingOf
  <2>3. PendingOf(q) \subseteq PendingOf(t) \ Members(first)
    BY <2>1 DEF PendingOf
  <2>4. PendingOf(t) \subseteq Members(first) \cup PendingOf(q)
    BY <2>2 DEF PendingOf
  <2> QED
    BY <2>3, <2>4
<1> QED
  BY <1>1, <1>2, <1>5, <1>9, <1>10 DEF q, first

\* What is pending when the first slice is cut in two.
LEMMA CutProperties ==
  ASSUME NEW t \in Seq(Slices), t # <<>>, Apart(t),
         NEW left \in Slices, NEW right \in Slices, OneEach(left), OneEach(right),
         Members(left) \cap Members(right) = {},
         Members(left) \cup Members(right) = Members(Head(t))
  PROVE  /\ <<left, right>> \o Tail(t) \in Seq(Slices)
         /\ Len(<<left, right>> \o Tail(t)) = Len(t) + 1
         /\ Apart(<<left, right>> \o Tail(t))
         /\ PendingOf(<<left, right>> \o Tail(t)) = PendingOf(t)
<1> DEFINE r == Tail(t)
           q == <<left, right>> \o r
<1>1. /\ r \in Seq(Slices) /\ Apart(r) /\ Len(t) \in Nat \ {0} /\ Len(r) = Len(t) - 1
      /\ PendingOf(r) = PendingOf(t) \ Members(Head(t))
      /\ Members(Head(t)) \subseteq PendingOf(t)
  BY PopProperties
<1>2. DOMAIN r = 1 .. Len(t) - 1
  BY <1>1, LenProperties
<1> HIDE DEF r
<1>3. <<left, right>> \in Seq(Slices) /\ Len(<<left, right>>) = 2
  OBVIOUS
<1>4. /\ q \in Seq(Slices) /\ Len(q) = Len(t) + 1
      /\ \A i \in 1 .. Len(t) + 1 : q[i] = IF i <= 2 THEN <<left, right>>[i] ELSE r[i - 2]
  BY <1>1, <1>3, ConcatProperties
<1>5. DOMAIN q = 1 .. Len(t) + 1
  BY <1>4, LenProperties
<1> HIDE DEF q
<1>6. 1 \in DOMAIN q /\ 2 \in DOMAIN q /\ q[1] = left /\ q[2] = right
  BY <1>1, <1>4, <1>5
<1>7. \A i \in DOMAIN q : i = 1 \/ i = 2 \/ (i - 2 \in DOMAIN r /\ q[i] = r[i - 2])
  BY <1>1, <1>2, <1>4, <1>5
<1>8. \A i \in DOMAIN r : i + 2 \in DOMAIN q /\ q[i + 2] = r[i]
  BY <1>1, <1>2, <1>4, <1>5
<1>9. \A i, j \in DOMAIN q : i # j => i - 2 # j - 2
  BY <1>5
<1>10. \A i \in DOMAIN r : /\ Members(r[i]) \cap Members(left) = {}
                           /\ Members(r[i]) \cap Members(right) = {}
  BY <1>1 DEF PendingOf
<1>11. Apart(q)
  <2>1. \A k \in DOMAIN q : OneEach(q[k])
    BY <1>1, <1>6, <1>7 DEF Apart
  <2>2. \A k, l \in DOMAIN q : k # l => Members(q[k]) \cap Members(q[l]) = {}
    BY <1>1, <1>6, <1>7, <1>9, <1>10 DEF Apart
  <2> QED
    BY <2>1, <2>2 DEF Apart
<1>12. PendingOf(q) = Members(left) \cup Members(right) \cup PendingOf(r)
  <2>1. \A k \in DOMAIN q : Members(q[k]) \subseteq Members(left) \cup Members(right) \cup PendingOf(r)
    BY <1>6, <1>7 DEF PendingOf
  <2>2. PendingOf(r) \subseteq PendingOf(q)
    BY <1>8 DEF PendingOf
  <2>3. Members(left) \subseteq PendingOf(q) /\ Members(right) \subseteq PendingOf(q)
    BY <1>6 DEF PendingOf
  <2>4. PendingOf(q) \subseteq Members(left) \cup Members(right) \cup PendingOf(r)
    BY <2>1 DEF PendingOf
  <2> QED
    BY <2>2, <2>3, <2>4
<1>13. PendingOf(q) = PendingOf(t)
  BY <1>1, <1>12
<1> QED
  BY <1>4, <1>11, <1>13 DEF q, r

\* As every slice has a commit of its own, there are no more slices than commits in them.
LEMMA SlicesAreFew ==
  ASSUME NEW t \in Seq(Slices), Apart(t), IsFiniteSet(PendingOf(t))
  PROVE  Len(t) \in Nat /\ Cardinality(PendingOf(t)) \in Nat /\ Len(t) <= Cardinality(PendingOf(t))
<1>1. Len(t) \in Nat /\ DOMAIN t = 1 .. Len(t)
  BY LenProperties
<1>2. ASSUME NEW k \in 1 .. Len(t)
      PROVE  t[k][1] \in Members(t[k])
  <2>1. t[k] \in Seq(Commits) /\ t[k] # <<>>
    BY <1>1, ElementOfSeq DEF Slices
  <2>2. DOMAIN t[k] = 1 .. Len(t[k]) /\ Len(t[k]) \in Nat \ {0}
    BY <2>1, LenProperties, EmptySeq
  <2>3. 1 \in DOMAIN t[k]
    BY <2>2
  <2> QED
    BY <2>3 DEF Members
<1> DEFINE f == [k \in 1 .. Len(t) |-> t[k][1]]
<1>3. f \in [1 .. Len(t) -> PendingOf(t)]
  BY <1>1, <1>2 DEF PendingOf
<1>4. \A k, l \in 1 .. Len(t) : f[k] = f[l] => k = l
  BY <1>1, <1>2 DEF Apart
<1> HIDE DEF f
<1>5. f \in Injection(1 .. Len(t), PendingOf(t))
  BY <1>3, <1>4, Fun_IsInj
<1>6. Cardinality(1 .. Len(t)) <= Cardinality(PendingOf(t))
  BY <1>5, FS_Injection
<1>7. Cardinality(1 .. Len(t)) = Len(t)
  BY <1>1, FS_Interval
<1> QED
  BY <1>1, <1>6, <1>7, FS_CardinalityType

LEMMA Multiples ==
  ASSUME NEW a \in Nat, NEW b \in Nat, a <= b, NEW c \in Nat
  PROVE  a * c \in Nat /\ b * c \in Nat /\ a * c <= b * c
OBVIOUS

LEMMA Division ==
  ASSUME NEW a \in Nat, NEW c \in Nat \ {0}
  PROVE  /\ a \div c \in Nat
         /\ (a \div c) * c \in Nat
         /\ (a \div c) * c <= a /\ a < (a \div c) * c + c
OBVIOUS

LEMMA NextMultiple ==
  ASSUME NEW k \in Nat \ {0}, NEW c \in Nat
  PROVE  k - 1 \in Nat /\ (k - 1) * c \in Nat /\ k * c \in Nat /\ k * c = (k - 1) * c + c
OBVIOUS

\* The chunks of a list have its commits between them.
LEMMA ChunksAreApart ==
  ASSUME NEW s \in Seq(Commits), s # <<>>, OneEach(s)
  PROVE  /\ Chunks(s) \in Seq(Slices) /\ Chunks(s) # <<>> /\ Len(Chunks(s)) \in Nat \ {0}
         /\ Apart(Chunks(s))
         /\ PendingOf(Chunks(s)) = Members(s)
<1> DEFINE c == fetchChunkSize
           L == Len(s)
           n == (L + c - 1) \div c
           low(k) == (k - 1) * c + 1
           high(k) == IF k * c < L THEN k * c ELSE L
           q == Chunks(s)
<1>1. c \in Nat \ {0} /\ L \in Nat \ {0} /\ DOMAIN s = 1 .. L
  BY BackfillAssumption, LenProperties, EmptySeq DEF BackfillAssumption
<1>2. q = [k \in 1 .. n |-> SubSeq(s, low(k), high(k))]
  BY DEF Chunks
<1> HIDE DEF c, L, q
<1>3. L + c - 1 \in Nat
  BY <1>1
<1>4. n \in Nat /\ n * c \in Nat /\ n * c <= L + c - 1 /\ L + c - 1 < n * c + c
  BY <1>1, <1>3, Division
<1> HIDE DEF n
<1>5. n # 0
  <2> SUFFICES ASSUME n = 0 PROVE FALSE
    OBVIOUS
  <2>1. n * c = 0
    BY <1>1
  <2> QED
    BY <2>1, <1>1, <1>4
<1>6. L <= n * c /\ (n - 1) * c \in Nat /\ (n - 1) * c < L
  BY <1>1, <1>4, <1>5, NextMultiple
<1>7. ASSUME NEW k \in 1 .. n
      PROVE  /\ low(k) \in 1 .. L /\ high(k) \in low(k) .. L
             /\ k * c \in Nat /\ high(k) <= k * c /\ (k * c < L => high(k) = k * c)
             /\ (k * c >= L => high(k) = L)
  <2>1. k \in Nat \ {0} /\ k - 1 \in Nat /\ n - 1 \in Nat /\ k - 1 <= n - 1
    BY <1>4, <1>5
  <2>2. /\ (k - 1) * c \in Nat /\ k * c \in Nat /\ k * c = (k - 1) * c + c
    BY <2>1, <1>1, NextMultiple
  <2>3. (k - 1) * c <= (n - 1) * c
    BY <2>1, <1>1, Multiples
  <2> QED
    BY <2>2, <2>3, <1>1, <1>6
<1>8. ASSUME NEW i \in 1 .. L
      PROVE  \E k \in 1 .. n : i \in low(k) .. high(k)
  <2> DEFINE d == (i - 1) \div c
  <2>1. i - 1 \in Nat
    BY <1>1
  <2>2. d \in Nat /\ d * c \in Nat /\ d * c <= i - 1 /\ i - 1 < d * c + c
    BY <2>1, <1>1, Division
  <2> HIDE DEF d
  <2>3. d + 1 \in Nat \ {0} /\ (d + 1) - 1 = d
    BY <2>2
  <2>4. (d + 1) * c \in Nat /\ (d + 1) * c = d * c + c
    BY <2>3, <1>1, NextMultiple
  <2>5. d < n
    <3> SUFFICES ASSUME n <= d
                 PROVE  FALSE
      BY <2>2, <1>4
    <3>1. n * c <= d * c
      BY <2>2, <1>1, <1>4, Multiples
    <3> QED
      BY <3>1, <2>2, <1>1, <1>4, <1>6
  <2>6. d + 1 \in 1 .. n
    BY <2>2, <2>5, <1>4
  <2>7. low(d + 1) = d * c + 1
    BY <2>3
  <2>8. high(d + 1) = (IF (d + 1) * c < L THEN (d + 1) * c ELSE L)
    OBVIOUS
  <2> HIDE DEF low, high
  <2>9. i \in low(d + 1) .. high(d + 1)
    BY <2>2, <2>4, <2>7, <2>8, <1>1
  <2> QED
    BY <2>6, <2>9
<1>9. ASSUME NEW k \in 1 .. n, NEW l \in 1 .. n, k < l
      PROVE  high(k) < low(l)
  <2>1. k \in Nat /\ l - 1 \in Nat /\ k <= l - 1
    BY <1>4, <1>9
  <2>2. k * c <= (l - 1) * c /\ (l - 1) * c \in Nat /\ k * c \in Nat
    BY <2>1, <1>1, Multiples
  <2>3. high(k) <= k * c
    BY <1>7
  <2>4. low(l) = (l - 1) * c + 1
    OBVIOUS
  <2>5. high(k) \in Int
    BY <1>1, <2>2
  <2> HIDE DEF low, high
  <2> QED
    BY <2>2, <2>3, <2>4, <2>5
<1> HIDE DEF low, high
<1>10. \A k \in 1 .. n : low(k) \in 1 .. L /\ high(k) \in low(k) .. L
  BY <1>7
<1>11. ASSUME NEW k \in 1 .. n
       PROVE  /\ q[k] \in Slices /\ OneEach(q[k])
              /\ Members(q[k]) = {s[i] : i \in low(k) .. high(k)}
  <2>1. q[k] = SubSeq(s, low(k), high(k))
    BY <1>2
  <2>2. low(k) \in 1 .. Len(s) /\ high(k) \in low(k) .. Len(s)
    BY <1>10 DEF L
  <2>3. /\ SubSeq(s, low(k), high(k)) \in Seq(Commits) \ {<<>>}
        /\ Members(SubSeq(s, low(k), high(k))) = {s[i] : i \in low(k) .. high(k)}
        /\ OneEach(SubSeq(s, low(k), high(k)))
    BY <2>2, SliceProperties
  <2> QED
    BY <2>1, <2>3 DEF Slices
<1>12. q \in Seq(Slices) /\ DOMAIN q = 1 .. n /\ Len(q) = n
  <2>1. q \in [1 .. n -> Slices]
    BY <1>2, <1>11
  <2>2. q \in Seq(Slices)
    BY <2>1, <1>4, IsASeq
  <2> QED
    BY <2>1, <2>2, <1>4, LenProperties
<1>13. ASSUME NEW k \in 1 .. n, NEW l \in 1 .. n, k < l
       PROVE  Members(q[k]) \cap Members(q[l]) = {}
  <2>1. \A i \in low(k) .. high(k) : \A j \in low(l) .. high(l) :
          i \in DOMAIN s /\ j \in DOMAIN s /\ i # j
    BY <1>1, <1>9, <1>10, <1>13
  <2>2. /\ Members(q[k]) = {s[i] : i \in low(k) .. high(k)}
        /\ Members(q[l]) = {s[j] : j \in low(l) .. high(l)}
    BY <1>11
  <2> QED
    BY <2>1, <2>2 DEF OneEach
<1>14. Apart(q)
  <2>1. \A k, l \in 1 .. n : k # l => k < l \/ l < k
    BY <1>4
  <2>2. \A k, l \in 1 .. n : k # l => Members(q[k]) \cap Members(q[l]) = {}
    BY <2>1, <1>13
  <2> QED
    BY <2>2, <1>11, <1>12 DEF Apart
<1>15. PendingOf(q) = Members(s)
  <2>1. ASSUME NEW k \in 1 .. n
        PROVE  Members(q[k]) \subseteq Members(s)
    <3>1. Members(q[k]) = {s[i] : i \in low(k) .. high(k)}
      BY <1>11
    <3>2. \A i \in low(k) .. high(k) : i \in DOMAIN s
      BY <1>1, <1>10
    <3> QED
      BY <3>1, <3>2 DEF Members
  <2>2. \A i \in 1 .. L : \E k \in 1 .. n : s[i] \in Members(q[k])
    BY <1>8, <1>11
  <2>3. Members(s) \subseteq PendingOf(q)
    BY <2>2, <1>1, <1>12 DEF Members, PendingOf
  <2>4. PendingOf(q) \subseteq Members(s)
    BY <2>1, <1>12 DEF PendingOf
  <2> QED
    BY <2>3, <2>4
<1>16. q # <<>>
  BY <1>4, <1>5, <1>12, EmptySeq
<1> QED
  BY <1>4, <1>5, <1>12, <1>14, <1>15, <1>16 DEF q

-----------------------------------------------------------------------------
(***************************************************************************)
(* What is collected.                                                      *)
(***************************************************************************)

LEMMA MembersType ==
  ASSUME NEW S, NEW s \in Seq(S)
  PROVE  Members(s) \subseteq S
BY LenProperties, ElementOfSeq DEF Members

\* The positions of the existing commits that have metadata, in ascending order.
LEMMA PositionsProperties ==
  ASSUME existing \in Seq(Commits)
  PROVE  /\ Positions \in Seq(DOMAIN existing)
         /\ DOMAIN Positions \subseteq Nat
         /\ \A k \in DOMAIN Positions : Positions[k] \in DOMAIN existing /\ existing[Positions[k]] \in metadata
         /\ \A i \in DOMAIN existing : existing[i] \in metadata => \E k \in DOMAIN Positions : Positions[k] = i
         /\ \A k, l \in DOMAIN Positions : k < l => Positions[k] < Positions[l]
         /\ OneEach(Positions)
<1> DEFINE places == [i \in DOMAIN existing |-> i]
           r == Positions
<1>1. Len(existing) \in Nat /\ DOMAIN existing = 1 .. Len(existing)
  BY LenProperties
<1>2. places \in [1 .. Len(existing) -> DOMAIN existing]
  BY <1>1
<1>3. /\ places \in Seq(DOMAIN existing) /\ DOMAIN places = DOMAIN existing
      /\ Members(places) = DOMAIN existing
      /\ \A i \in DOMAIN existing : places[i] = i
  <2>1. places \in Seq(DOMAIN existing)
    BY <1>1, <1>2, IsASeq
  <2> QED
    BY <2>1 DEF Members
<1>4. OneEach(places)
  BY <1>3 DEF OneEach
<1>5. r = Those(places, WithMetadata)
  BY DEF Positions
<1> HIDE DEF places, r
<1>6. /\ r \in Seq(DOMAIN existing)
      /\ Members(r) = DOMAIN existing \cap WithMetadata
      /\ \A k, l \in DOMAIN r : k < l => \E i, j \in DOMAIN places : i < j /\ places[i] = r[k] /\ places[j] = r[l]
      /\ OneEach(r)
  BY <1>3, <1>4, <1>5, ThoseProperties
<1>7. Members(r) = WithMetadata
  BY <1>6 DEF WithMetadata
<1>8. \A k \in DOMAIN r : r[k] \in DOMAIN existing /\ existing[r[k]] \in metadata
  BY <1>7 DEF Members, WithMetadata
<1>9. \A i \in DOMAIN existing : existing[i] \in metadata => \E k \in DOMAIN r : r[k] = i
  BY <1>7 DEF Members, WithMetadata
<1>10. \A k, l \in DOMAIN r : k < l => r[k] < r[l]
  BY <1>3, <1>6
<1>11. DOMAIN r \subseteq Nat
  BY <1>6, LenProperties
<1> QED
  BY <1>6, <1>8, <1>9, <1>10, <1>11 DEF r

\* A record for each of them.
LEMMA AssembledRecords ==
  ASSUME existing \in Seq(Commits), DOMAIN diffs = DOMAIN existing,
         \A i \in DOMAIN existing : diffs[i] \in {existing[i], Empty}
  PROVE  [k \in DOMAIN Positions |-> Record(k)] \in Seq([commit : Commits, diff : Commits \cup {Empty}])
<1>1. \A i \in DOMAIN existing : existing[i] \in Commits
  BY LenProperties, ElementOfSeq
<1>2. \A k \in DOMAIN Positions : Record(k) \in [commit : Commits, diff : Commits \cup {Empty}]
  BY <1>1, PositionsProperties DEF Record
<1>3. Len(Positions) \in Nat /\ DOMAIN Positions = 1 .. Len(Positions)
  BY PositionsProperties, LenProperties
<1> QED
  BY <1>2, <1>3, IsASeq

-----------------------------------------------------------------------------
(***************************************************************************)
(* The initial states, and the steps outside of the bisection.             *)
(***************************************************************************)

LEMMA InitInv == Init => FetchInv
<1> SUFFICES ASSUME Init
             PROVE  FetchInv
  OBVIOUS
<1> USE DEF Init
<1>1. TypeOK
  <2>1. /\ <<>> \in Seq(Commits) /\ <<>> \in Seq(Seq(Commits) \ {<<>>})
        /\ <<>> \in Seq(Commits \cup {Empty})
        /\ <<>> \in Seq([commit : Commits, diff : Commits \cup {Empty}])
    BY EmptySeq
  <2>2. pc \in Steps
    BY DEF Steps
  <2>3. /\ commits \in Seq(Commits) /\ existing \in Seq(Commits) /\ missing \in Seq(Commits)
        /\ todo \in Seq(Seq(Commits) \ {<<>>})
        /\ diffs \in Seq(Commits \cup {Empty})
        /\ records \in Seq([commit : Commits, diff : Commits \cup {Empty}])
    BY <2>1
  <2>4. /\ unfetchable \in Nat /\ fetches \in Nat /\ form \in 0..2
        /\ refused \subseteq Commits /\ metadata \subseteq Commits /\ stored \subseteq 1..2
        /\ remote \subseteq Commits /\ local \subseteq Commits
    OBVIOUS
  <2>5. /\ mode \in {"upload", "output", "uploadOnly"}
        /\ tarball \in BOOLEAN
        /\ output \in {"absent", "partial", "whole"}
        /\ outcome \in {"none", "nothing", "exported", "failed"}
    OBVIOUS
  <2> HIDE DEF Init
  <2> QED
    BY <2>2, <2>3, <2>4, <2>5 DEF TypeOK
<1>2. NothingForgotten /\ BisectionIsBounded /\ SlicesAreCounted
  BY DEF NothingForgotten, BisectionIsBounded, SlicesAreCounted, Fetching
<1>3. ListsAreFiltered
  BY FS_EmptySet DEF ListsAreFiltered, Fetched
<1>4. CollectedInOrder
  BY DEF CollectedInOrder
<1>5. WaysToTheEnd
  BY DEF WaysToTheEnd
<1> QED
  BY <1>1, <1>2, <1>3, <1>4, <1>5 DEF FetchInv

LEMMA FetchCommitListInv == FetchInv /\ FetchCommitList => FetchInv'
<1> SUFFICES ASSUME FetchInv, FetchCommitList
             PROVE  FetchInv'
  OBVIOUS
<1> USE DEF FetchInv, FetchCommitList, Go, End, inputs, fetchState, lists, archive, delivery
<1>1. TypeOK'
  BY BackfillAssumption DEF TypeOK, Steps, BackfillAssumption
<1>2. NothingForgotten' /\ BisectionIsBounded' /\ SlicesAreCounted'
  BY DEF NothingForgotten, BisectionIsBounded, SlicesAreCounted, Fetching
<1>3. ListsAreFiltered'
  BY DEF ListsAreFiltered, Fetched
<1>4. CollectedInOrder'
  BY DEF CollectedInOrder, Positions, WithMetadata, Record
<1>5. WaysToTheEnd'
  BY DEF WaysToTheEnd, TypeOK
<1> QED
  BY <1>1, <1>2, <1>3, <1>4, <1>5

LEMMA PresignInv == FetchInv /\ Presign => FetchInv'
<1> SUFFICES ASSUME FetchInv, Presign
             PROVE  FetchInv'
  OBVIOUS
<1> USE DEF FetchInv, Presign, Go, End, inputs, fetchState, lists, archive, delivery
<1>1. TypeOK'
  BY DEF TypeOK, Steps
<1>2. NothingForgotten' /\ BisectionIsBounded' /\ SlicesAreCounted'
  BY DEF NothingForgotten, BisectionIsBounded, SlicesAreCounted, Fetching
<1>3. ListsAreFiltered'
  BY DEF ListsAreFiltered, Fetched
<1>4. CollectedInOrder'
  BY DEF CollectedInOrder, Positions, WithMetadata, Record
<1>5. WaysToTheEnd'
  BY DEF WaysToTheEnd, TypeOK
<1> QED
  BY <1>1, <1>2, <1>3, <1>4, <1>5

LEMMA GetSuiteInv == FetchInv /\ GetSuite => FetchInv'
<1> SUFFICES ASSUME FetchInv, GetSuite
             PROVE  FetchInv'
  OBVIOUS
<1> USE DEF FetchInv, GetSuite, Go, End, inputs, fetchState, lists, archive, delivery
<1>1. TypeOK'
  BY DEF TypeOK, Steps
<1>2. NothingForgotten' /\ BisectionIsBounded' /\ SlicesAreCounted'
  BY DEF NothingForgotten, BisectionIsBounded, SlicesAreCounted, Fetching
<1>3. ListsAreFiltered'
  BY DEF ListsAreFiltered, Fetched
<1>4. CollectedInOrder'
  BY DEF CollectedInOrder, Positions, WithMetadata, Record
<1>5. WaysToTheEnd'
  BY DEF WaysToTheEnd, TypeOK
<1> QED
  BY <1>1, <1>2, <1>3, <1>4, <1>5

LEMMA DetectDefaultBranchInv == FetchInv /\ DetectDefaultBranch => FetchInv'
<1> SUFFICES ASSUME FetchInv, DetectDefaultBranch
             PROVE  FetchInv'
  OBVIOUS
<1> USE DEF FetchInv, DetectDefaultBranch, Go, End, inputs, fetchState, lists, archive, delivery
<1>1. TypeOK'
  BY DEF TypeOK, Steps
<1>2. NothingForgotten' /\ BisectionIsBounded' /\ SlicesAreCounted'
  BY DEF NothingForgotten, BisectionIsBounded, SlicesAreCounted, Fetching
<1>3. ListsAreFiltered'
  BY DEF ListsAreFiltered, Fetched
<1>4. CollectedInOrder'
  BY DEF CollectedInOrder, Positions, WithMetadata, Record
<1>5. WaysToTheEnd'
  BY DEF WaysToTheEnd, TypeOK
<1> QED
  BY <1>1, <1>2, <1>3, <1>4, <1>5

LEMMA FilterFailsInv == FetchInv /\ FilterFails => FetchInv'
<1> SUFFICES ASSUME FetchInv, FilterFails
             PROVE  FetchInv'
  OBVIOUS
<1> USE DEF FetchInv, FilterFails, Go, End, inputs, fetchState, lists, archive, delivery
<1>1. TypeOK'
  BY DEF TypeOK, Steps
<1>2. NothingForgotten' /\ BisectionIsBounded' /\ SlicesAreCounted'
  BY DEF NothingForgotten, BisectionIsBounded, SlicesAreCounted, Fetching
<1>3. ListsAreFiltered'
  BY DEF ListsAreFiltered, Fetched
<1>4. CollectedInOrder'
  BY DEF CollectedInOrder, Positions, WithMetadata, Record
<1>5. WaysToTheEnd'
  BY DEF WaysToTheEnd, TypeOK
<1> QED
  BY <1>1, <1>2, <1>3, <1>4, <1>5

\* Nothing is left to be fetched, so what is missing is here or was refused.
LEMMA FetchEndsInv == FetchInv /\ FetchEnds => FetchInv'
<1> SUFFICES ASSUME FetchInv, FetchEnds
             PROVE  FetchInv'
  OBVIOUS
<1> USE DEF FetchInv, FetchEnds, Go, End, inputs, fetchState, lists, archive, delivery
<1>1. TypeOK'
  BY DEF TypeOK, Steps
<1>2. NothingForgotten' /\ BisectionIsBounded' /\ SlicesAreCounted'
  BY DEF NothingForgotten, BisectionIsBounded, SlicesAreCounted, Fetching
<1>3. ListsAreFiltered'
  <2>1. DOMAIN todo = {}
    OBVIOUS
  <2>2. Members(missing) \subseteq local \cup refused
    BY <2>1 DEF NothingForgotten, Fetching
  <2> QED
    BY <2>2 DEF ListsAreFiltered, Fetched
<1>4. CollectedInOrder'
  BY DEF CollectedInOrder, Positions, WithMetadata, Record
<1>5. WaysToTheEnd'
  BY DEF WaysToTheEnd, TypeOK
<1> QED
  BY <1>1, <1>2, <1>3, <1>4, <1>5

LEMMA RefilterInv == FetchInv /\ Refilter => FetchInv'
<1> SUFFICES ASSUME FetchInv, Refilter
             PROVE  FetchInv'
  OBVIOUS
<1> USE DEF FetchInv, Refilter, Go, End, inputs, fetchState, lists, archive, delivery
<1>1. TypeOK'
  BY ThoseProperties DEF TypeOK, Steps, Filter
<1>2. NothingForgotten' /\ BisectionIsBounded' /\ SlicesAreCounted'
  BY DEF NothingForgotten, BisectionIsBounded, SlicesAreCounted, Fetching
<1>3. ListsAreFiltered'
  <2>1. existing' = Those(commits, local) /\ missing' = Those(commits, Commits \ local)
    BY DEF Filter
  <2> QED
    BY <2>1 DEF ListsAreFiltered, Fetched
<1>4. CollectedInOrder'
  BY DEF CollectedInOrder, Positions, WithMetadata, Record
<1>5. WaysToTheEnd'
  BY DEF WaysToTheEnd, TypeOK
<1> QED
  BY <1>1, <1>2, <1>3, <1>4, <1>5

LEMMA ProcessInv == FetchInv /\ Process => FetchInv'
<1> SUFFICES ASSUME FetchInv, Process
             PROVE  FetchInv'
  OBVIOUS
<1> USE DEF FetchInv, Process, Go, End, inputs, fetchState, lists, archive, delivery
<1>1. TypeOK'
  BY DEF TypeOK, Steps
<1>2. NothingForgotten' /\ BisectionIsBounded' /\ SlicesAreCounted'
  BY DEF NothingForgotten, BisectionIsBounded, SlicesAreCounted, Fetching
<1>3. ListsAreFiltered'
  BY DEF ListsAreFiltered, Fetched
<1>4. CollectedInOrder'
  BY DEF CollectedInOrder, Positions, WithMetadata, Record
<1>5. WaysToTheEnd'
  BY DEF WaysToTheEnd, TypeOK
<1> QED
  BY <1>1, <1>2, <1>3, <1>4, <1>5

LEMMA BuildMainlineCacheInv == FetchInv /\ BuildMainlineCache => FetchInv'
<1> SUFFICES ASSUME FetchInv, BuildMainlineCache
             PROVE  FetchInv'
  OBVIOUS
<1> USE DEF FetchInv, BuildMainlineCache, Go, End, inputs, fetchState, lists, archive, delivery
<1>1. TypeOK'
  BY DEF TypeOK, Steps
<1>2. NothingForgotten' /\ BisectionIsBounded' /\ SlicesAreCounted'
  BY DEF NothingForgotten, BisectionIsBounded, SlicesAreCounted, Fetching
<1>3. ListsAreFiltered'
  BY DEF ListsAreFiltered, Fetched
<1>4. CollectedInOrder'
  BY DEF CollectedInOrder, Positions, WithMetadata, Record
<1>5. WaysToTheEnd'
  BY DEF WaysToTheEnd, TypeOK
<1> QED
  BY <1>1, <1>2, <1>3, <1>4, <1>5

LEMMA FetchBulkMetadataInv == FetchInv /\ FetchBulkMetadata => FetchInv'
<1> SUFFICES ASSUME FetchInv, FetchBulkMetadata
             PROVE  FetchInv'
  OBVIOUS
<1> USE DEF FetchInv, FetchBulkMetadata, Go, End, inputs, fetchState, lists, archive, delivery
<1>1. TypeOK'
  <2>1. Members(existing) \subseteq Commits
    BY MembersType DEF TypeOK
  <2>2. metadata' \subseteq Commits
    BY <2>1 DEF TypeOK
  <2> QED
    BY <2>2 DEF TypeOK, Steps
<1>2. NothingForgotten' /\ BisectionIsBounded' /\ SlicesAreCounted'
  BY DEF NothingForgotten, BisectionIsBounded, SlicesAreCounted, Fetching
<1>3. ListsAreFiltered'
  BY DEF ListsAreFiltered, Fetched
<1>4. CollectedInOrder'
  BY DEF CollectedInOrder, Positions, WithMetadata, Record
<1>5. WaysToTheEnd'
  BY DEF WaysToTheEnd, TypeOK
<1> QED
  BY <1>1, <1>2, <1>3, <1>4, <1>5

LEMMA CollectDiffsInv == FetchInv /\ CollectDiffs => FetchInv'
<1> SUFFICES ASSUME FetchInv, CollectDiffs
             PROVE  FetchInv'
  OBVIOUS
<1> USE DEF FetchInv, CollectDiffs, Go, End, inputs, fetchState, lists, archive, delivery
<1>1. TypeOK'
  <2>1. PICK failed \in SUBSET DOMAIN existing :
          diffs' = [i \in DOMAIN existing |-> IF i \in failed THEN Empty ELSE existing[i]]
    OBVIOUS
  <2>2. /\ existing \in Seq(Commits) /\ Len(existing) \in Nat
        /\ DOMAIN existing = 1 .. Len(existing)
    BY LenProperties DEF TypeOK
  <2>3. \A i \in 1 .. Len(existing) : existing[i] \in Commits
    BY <2>2, ElementOfSeq
  <2>4. diffs' \in [1 .. Len(existing) -> Commits \cup {Empty}]
    BY <2>1, <2>2, <2>3
  <2>5. diffs' \in Seq(Commits \cup {Empty})
    BY <2>2, <2>4, IsASeq
  <2> QED
    BY <2>5 DEF TypeOK, Steps
<1>2. NothingForgotten' /\ BisectionIsBounded' /\ SlicesAreCounted'
  BY DEF NothingForgotten, BisectionIsBounded, SlicesAreCounted, Fetching
<1>3. ListsAreFiltered'
  BY DEF ListsAreFiltered, Fetched
<1>4. CollectedInOrder'
  BY DEF CollectedInOrder, Positions, WithMetadata, Record
<1>5. WaysToTheEnd'
  BY DEF WaysToTheEnd, TypeOK
<1> QED
  BY <1>1, <1>2, <1>3, <1>4, <1>5

LEMMA AssembleInv == FetchInv /\ Assemble => FetchInv'
<1> SUFFICES ASSUME FetchInv, Assemble
             PROVE  FetchInv'
  OBVIOUS
<1> USE DEF FetchInv, Assemble, Go, End, inputs, fetchState, lists, archive, delivery
<1>1. TypeOK'
  <2>1. records' \in Seq([commit : Commits, diff : Commits \cup {Empty}])
    BY AssembledRecords DEF TypeOK, WaysToTheEnd, CollectedInOrder
  <2> QED
    BY <2>1 DEF TypeOK, Steps
<1>2. NothingForgotten' /\ BisectionIsBounded' /\ SlicesAreCounted'
  BY DEF NothingForgotten, BisectionIsBounded, SlicesAreCounted, Fetching
<1>3. ListsAreFiltered'
  BY DEF ListsAreFiltered, Fetched
<1>4. CollectedInOrder'
  BY DEF CollectedInOrder, Positions, WithMetadata, Record
<1>5. WaysToTheEnd'
  BY DEF WaysToTheEnd, TypeOK
<1> QED
  BY <1>1, <1>2, <1>3, <1>4, <1>5

LEMMA CreateTarballInv == FetchInv /\ CreateTarball => FetchInv'
<1> SUFFICES ASSUME FetchInv, CreateTarball
             PROVE  FetchInv'
  OBVIOUS
<1> USE DEF FetchInv, CreateTarball, Go, End, inputs, fetchState, lists, archive, delivery
<1>1. TypeOK'
  BY DEF TypeOK, Steps
<1>2. NothingForgotten' /\ BisectionIsBounded' /\ SlicesAreCounted'
  BY DEF NothingForgotten, BisectionIsBounded, SlicesAreCounted, Fetching
<1>3. ListsAreFiltered'
  BY DEF ListsAreFiltered, Fetched
<1>4. CollectedInOrder'
  BY DEF CollectedInOrder, Positions, WithMetadata, Record
<1>5. WaysToTheEnd'
  BY DEF WaysToTheEnd, TypeOK
<1> QED
  BY <1>1, <1>2, <1>3, <1>4, <1>5

LEMMA CopyFileInv == FetchInv /\ CopyFile => FetchInv'
<1> SUFFICES ASSUME FetchInv, CopyFile
             PROVE  FetchInv'
  OBVIOUS
<1> USE DEF FetchInv, CopyFile, Go, End, inputs, fetchState, lists, archive, delivery
<1>1. TypeOK'
  BY DEF TypeOK, Steps
<1>2. NothingForgotten' /\ BisectionIsBounded' /\ SlicesAreCounted'
  BY DEF NothingForgotten, BisectionIsBounded, SlicesAreCounted, Fetching
<1>3. ListsAreFiltered'
  BY DEF ListsAreFiltered, Fetched
<1>4. CollectedInOrder'
  BY DEF CollectedInOrder, Positions, WithMetadata, Record
<1>5. WaysToTheEnd'
  BY DEF WaysToTheEnd, TypeOK
<1> QED
  BY <1>1, <1>2, <1>3, <1>4, <1>5

LEMMA UploadToS3Inv == FetchInv /\ UploadToS3 => FetchInv'
<1> SUFFICES ASSUME FetchInv, UploadToS3
             PROVE  FetchInv'
  OBVIOUS
<1> USE DEF FetchInv, UploadToS3, Go, End, inputs, fetchState, lists, archive, delivery
<1>1. TypeOK'
  BY DEF TypeOK, Steps, WaysToTheEnd
<1>2. NothingForgotten' /\ BisectionIsBounded' /\ SlicesAreCounted'
  BY DEF NothingForgotten, BisectionIsBounded, SlicesAreCounted, Fetching
<1>3. ListsAreFiltered'
  BY DEF ListsAreFiltered, Fetched
<1>4. CollectedInOrder'
  BY DEF CollectedInOrder, Positions, WithMetadata, Record
<1>5. WaysToTheEnd'
  BY DEF WaysToTheEnd, TypeOK
<1> QED
  BY <1>1, <1>2, <1>3, <1>4, <1>5

LEMMA UploadFailsInv == FetchInv /\ UploadFails => FetchInv'
<1> SUFFICES ASSUME FetchInv, UploadFails
             PROVE  FetchInv'
  OBVIOUS
<1> USE DEF FetchInv, UploadFails, Go, End, inputs, fetchState, lists, archive, delivery
<1>1. TypeOK'
  BY DEF TypeOK, Steps, WaysToTheEnd
<1>2. NothingForgotten' /\ BisectionIsBounded' /\ SlicesAreCounted'
  BY DEF NothingForgotten, BisectionIsBounded, SlicesAreCounted, Fetching
<1>3. ListsAreFiltered'
  BY DEF ListsAreFiltered, Fetched
<1>4. CollectedInOrder'
  BY DEF CollectedInOrder, Positions, WithMetadata, Record
<1>5. WaysToTheEnd'
  BY DEF WaysToTheEnd, TypeOK
<1> QED
  BY <1>1, <1>2, <1>3, <1>4, <1>5

LEMMA ForbiddenInv == FetchInv /\ Forbidden => FetchInv'
<1> SUFFICES ASSUME FetchInv, Forbidden
             PROVE  FetchInv'
  OBVIOUS
<1> USE DEF FetchInv, Forbidden, Go, End, inputs, fetchState, lists, archive, delivery
<1>1. TypeOK'
  BY DEF TypeOK, Steps
<1>2. NothingForgotten' /\ BisectionIsBounded' /\ SlicesAreCounted'
  BY DEF NothingForgotten, BisectionIsBounded, SlicesAreCounted, Fetching
<1>3. ListsAreFiltered'
  BY DEF ListsAreFiltered, Fetched
<1>4. CollectedInOrder'
  BY DEF CollectedInOrder, Positions, WithMetadata, Record
<1>5. WaysToTheEnd'
  BY DEF WaysToTheEnd, TypeOK
<1> QED
  BY <1>1, <1>2, <1>3, <1>4, <1>5

-----------------------------------------------------------------------------
(***************************************************************************)
(* The bisection.                                                          *)
(***************************************************************************)

LEMMA PendingIsCounted ==
  ASSUME TypeOK, NEW t \in Seq(Slices), Apart(t)
  PROVE  /\ IsFiniteSet(PendingOf(t))
         /\ Len(t) \in Nat /\ Cardinality(PendingOf(t)) \in Nat
         /\ Len(t) <= Cardinality(PendingOf(t))
<1>1. \A k \in DOMAIN t : t[k] \in Seq(Commits)
  BY LenProperties, ElementOfSeq DEF Slices
<1>2. \A k \in DOMAIN t : Members(t[k]) \subseteq Commits
  BY <1>1, MembersType
<1>3. PendingOf(t) \in SUBSET Commits
  BY <1>2 DEF PendingOf
<1>4. IsFiniteSet(PendingOf(t))
  BY <1>3, BackfillAssumption, FS_Subset DEF BackfillAssumption
<1> QED
  BY <1>4, SlicesAreFew

\* A slice of n commits has n members.
LEMMA SliceIsCounted ==
  ASSUME NEW t \in Seq(Slices), t # <<>>, Apart(t), IsFiniteSet(PendingOf(t))
  PROVE  /\ Len(Head(t)) \in Nat \ {0}
         /\ Cardinality(PendingOf(t)) \in Nat
         /\ Cardinality(PendingOf(Tail(t))) = Cardinality(PendingOf(t)) - Len(Head(t))
<1> DEFINE first == Head(t)
<1>1. /\ first \in Seq(Commits) /\ first # <<>> /\ OneEach(first)
      /\ Members(first) \subseteq PendingOf(t)
      /\ PendingOf(Tail(t)) = PendingOf(t) \ Members(first)
  BY PopProperties DEF Slices
<1> HIDE DEF first
<1>2. Len(first) \in Nat \ {0}
  BY <1>1, EmptySeq, LenProperties
<1>3. Cardinality(Members(first)) = Len(first)
  BY <1>1, LengthIsCount
<1>4. Cardinality(PendingOf(t) \ Members(first))
        = Cardinality(PendingOf(t)) - Cardinality(PendingOf(t) \cap Members(first))
  BY FS_Difference
<1>5. PendingOf(t) \cap Members(first) = Members(first)
  BY <1>1
<1> QED
  BY <1>1, <1>2, <1>3, <1>4, <1>5, FS_CardinalityType DEF first

\* While fetching, the slices and the bound.
LEMMA WhileFetching ==
  ASSUME FetchInv, pc = "fetch"
  PROVE  /\ todo \in Seq(Slices) /\ Apart(todo) /\ Pending = PendingOf(todo)
         /\ IsFiniteSet(Pending)
         /\ Cardinality(Pending) \in Nat /\ Len(todo) \in Nat /\ Len(missing) \in Nat
         /\ fetches \in Nat
         /\ fetches + 2 * Cardinality(Pending) < 2 * Len(missing) + Len(todo)
<1>1. todo \in Seq(Slices) /\ fetches \in Nat /\ Len(missing) \in Nat
  BY LenProperties DEF FetchInv, TypeOK, Slices
<1>2. Apart(todo) /\ Pending = PendingOf(todo)
  BY DEF FetchInv, SlicesAreCounted, BisectionIsBounded, Fetching, Apart, Pending, PendingOf
<1>3. fetches + 2 * Cardinality(Pending) < 2 * Len(missing) + Len(todo)
  BY DEF FetchInv, SlicesAreCounted, Fetching
<1> QED
  BY <1>1, <1>2, <1>3, PendingIsCounted DEF FetchInv

\* What is enough to know of the slices and the count of fetches after a step.
LEMMA StillBounded ==
  ASSUME TypeOK', todo' \in Seq(Slices), Apart(todo'),
         fetches' + 2 * Cardinality(PendingOf(todo')) < 2 * Len(missing') + Len(todo')
  PROVE  BisectionIsBounded' /\ SlicesAreCounted'
<1>1. Len(todo') \in Nat /\ Cardinality(PendingOf(todo')) \in Nat /\ Len(todo') <= Cardinality(PendingOf(todo'))
  <2>1. ASSUME NEW k \in DOMAIN todo'
        PROVE  Members(todo'[k]) \in SUBSET Commits
    <3>1. todo'[k] \in Seq(Commits)
      BY LenProperties, ElementOfSeq DEF Slices
    <3> QED
      BY <3>1, MembersType
  <2>2. PendingOf(todo') \in SUBSET Commits
    BY <2>1 DEF PendingOf
  <2>3. IsFiniteSet(PendingOf(todo'))
    BY <2>2, BackfillAssumption, FS_Subset DEF BackfillAssumption
  <2> QED
    BY <2>3, SlicesAreFew
<1>2. fetches' \in Nat /\ Len(missing') \in Nat
  BY LenProperties DEF TypeOK
<1>3. fetches' < 2 * Len(missing')
  BY <1>1, <1>2
<1>4. BisectionIsBounded'
  BY <1>3 DEF BisectionIsBounded, Fetching, Apart
<1>5. SlicesAreCounted'
  BY DEF SlicesAreCounted, Fetching, Apart, Pending, PendingOf
<1> QED
  BY <1>4, <1>5

LEMMA FilterExistingCommitsInv == FetchInv /\ FilterExistingCommits => FetchInv'
<1> SUFFICES ASSUME FetchInv, FilterExistingCommits
             PROVE  FetchInv'
  OBVIOUS
<1> USE DEF FetchInv, FilterExistingCommits, Go, inputs, archive, delivery
<1>1. existing' = Those(commits, local) /\ missing' = Those(commits, Commits \ local)
  BY DEF Filter
<1>2. commits \in Seq(Commits) /\ OneEach(commits) /\ Members(commits) \subseteq Commits
  <2>1. OneEach(<<>>) /\ OneEach(CommitList)
    BY BackfillAssumption DEF OneEach, BackfillAssumption
  <2> QED
    BY <2>1, MembersType DEF TypeOK, ListsAreFiltered
<1>3. /\ existing' \in Seq(Commits) /\ missing' \in Seq(Commits) /\ OneEach(missing')
      /\ Members(missing') = Members(commits) \ local
  BY <1>1, <1>2, ThoseProperties
<1>4. refused = {} /\ fetches = 0
  BY DEF ListsAreFiltered
<1>5. CASE missing' = <<>>
  <2>1. todo' = Chunks(<<>>) /\ Chunks(<<>>) = <<>>
    <3>1. (Len(<<>>) + fetchChunkSize - 1) \div fetchChunkSize = 0
      BY BackfillAssumption DEF BackfillAssumption
    <3> QED
      BY <1>5, <3>1 DEF Chunks
  <2>2. TypeOK'
    BY <1>3, <2>1, EmptySeq DEF TypeOK, Steps
  <2>3. NothingForgotten' /\ BisectionIsBounded' /\ SlicesAreCounted'
    BY <1>5 DEF NothingForgotten, BisectionIsBounded, SlicesAreCounted, Fetching
  <2>4. ListsAreFiltered'
    BY <1>1, <1>5 DEF ListsAreFiltered, Fetched
  <2>5. CollectedInOrder' /\ WaysToTheEnd'
    BY <1>5 DEF CollectedInOrder, WaysToTheEnd
  <2> QED
    BY <2>2, <2>3, <2>4, <2>5
<1>6. CASE missing' # <<>>
  <2>1. /\ todo' \in Seq(Slices) /\ Apart(todo') /\ Len(todo') \in Nat \ {0}
        /\ PendingOf(todo') = Members(missing')
    BY <1>3, <1>6, ChunksAreApart
  <2>2. TypeOK'
    BY <1>3, <1>6, <2>1 DEF TypeOK, Steps, Slices
  <2>3. Cardinality(PendingOf(todo')) = Len(missing') /\ Len(missing') \in Nat
    BY <1>3, <2>1, LengthIsCount
  <2>4. fetches' + 2 * Cardinality(PendingOf(todo')) < 2 * Len(missing') + Len(todo')
    BY <1>4, <2>1, <2>3
  <2>5. BisectionIsBounded' /\ SlicesAreCounted'
    BY <2>1, <2>2, <2>4, StillBounded
  <2>6. NothingForgotten'
    BY <2>1 DEF NothingForgotten, PendingOf
  <2>7. ListsAreFiltered'
    BY <1>3, <1>6 DEF ListsAreFiltered, Fetched
  <2>8. CollectedInOrder' /\ WaysToTheEnd'
    BY <1>6 DEF CollectedInOrder, WaysToTheEnd
  <2> QED
    BY <2>2, <2>5, <2>6, <2>7, <2>8
<1> QED
  BY <1>5, <1>6

LEMMA FetchWorksInv == FetchInv /\ FetchWorks => FetchInv'
<1> SUFFICES ASSUME FetchInv, FetchWorks
             PROVE  FetchInv'
  OBVIOUS
<1> USE DEF FetchInv, inputs, lists, archive, delivery
<1>1. PICK more \in SUBSET remote : local' = local \cup Members(Head(todo)) \cup more
  BY DEF FetchWorks
<1>2. /\ pc = "fetch" /\ todo # <<>> /\ Members(Head(todo)) \subseteq remote
      /\ todo' = Tail(todo) /\ fetches' = fetches + 1
      /\ UNCHANGED <<mode, remote, unfetchable, refused, commits, existing, missing,
                     metadata, diffs, records, form, tarball, output, stored, pc, outcome>>
  BY DEF FetchWorks
<1>3. /\ todo \in Seq(Slices) /\ Apart(todo) /\ Pending = PendingOf(todo)
      /\ IsFiniteSet(Pending)
      /\ Cardinality(Pending) \in Nat /\ Len(todo) \in Nat /\ Len(missing) \in Nat
      /\ fetches \in Nat
      /\ fetches + 2 * Cardinality(Pending) < 2 * Len(missing) + Len(todo)
  BY <1>2, WhileFetching
<1>4. /\ todo' \in Seq(Slices) /\ Apart(todo') /\ Len(todo') = Len(todo) - 1
      /\ PendingOf(todo') = Pending \ Members(Head(todo))
  BY <1>2, <1>3, PopProperties
<1>5. /\ Len(Head(todo)) \in Nat \ {0}
      /\ Cardinality(PendingOf(todo')) = Cardinality(Pending) - Len(Head(todo))
  BY <1>2, <1>3, SliceIsCounted
<1>6. TypeOK'
  BY <1>1, <1>2, <1>3, <1>4 DEF TypeOK, Slices
<1>7. fetches' + 2 * Cardinality(PendingOf(todo')) < 2 * Len(missing') + Len(todo')
  BY <1>2, <1>3, <1>4, <1>5
<1>8. BisectionIsBounded' /\ SlicesAreCounted'
  BY <1>4, <1>6, <1>7, StillBounded
<1>9. NothingForgotten'
  <2>1. \A c \in Members(missing) : c \in local \/ c \in refused \/ c \in Pending
    BY <1>2 DEF NothingForgotten, Fetching, Pending
  <2>2. \A c \in Members(missing) : c \in local' \/ c \in refused \/ c \in PendingOf(todo')
    BY <1>1, <1>4, <2>1
  <2> QED
    BY <1>2, <2>2 DEF NothingForgotten, PendingOf
<1>10. ListsAreFiltered'
  BY <1>1, <1>2 DEF ListsAreFiltered, Fetched
<1>11. CollectedInOrder' /\ WaysToTheEnd'
  BY <1>2 DEF CollectedInOrder, WaysToTheEnd
<1> QED
  BY <1>6, <1>8, <1>9, <1>10, <1>11

\* A commit given up is refused and counted, a slice cut is pending as its halves.
LEMMA FetchFailsInv == FetchInv /\ FetchFails => FetchInv'
<1> SUFFICES ASSUME FetchInv, FetchFails
             PROVE  FetchInv'
  OBVIOUS
<1> USE DEF FetchInv, inputs, lists, archive, delivery
<1> DEFINE slice == Head(todo)
           mid == Len(slice) \div 2
           left == SubSeq(slice, 1, mid)
           right == SubSeq(slice, mid + 1, Len(slice))
<1>1. /\ pc = "fetch" /\ todo # <<>> /\ fetches' = fetches + 1
      /\ UNCHANGED <<mode, remote, local, commits, existing, missing,
                     metadata, diffs, records, form, tarball, output, stored, pc, outcome>>
  BY DEF FetchFails
<1>2. /\ todo \in Seq(Slices) /\ Apart(todo) /\ Pending = PendingOf(todo)
      /\ IsFiniteSet(Pending)
      /\ Cardinality(Pending) \in Nat /\ Len(todo) \in Nat /\ Len(missing) \in Nat
      /\ fetches \in Nat
      /\ fetches + 2 * Cardinality(Pending) < 2 * Len(missing) + Len(todo)
  BY <1>1, WhileFetching
<1>3. \A c \in Members(missing) : c \in local \/ c \in refused \/ c \in Pending
  BY <1>1 DEF NothingForgotten, Fetching, Pending
<1>4. slice \in Slices /\ OneEach(slice)
  BY <1>1, <1>2, PopProperties
<1>5. slice \in Seq(Commits) /\ Members(slice) \subseteq Commits
  BY <1>4, MembersType DEF Slices
<1>6. CASE Len(slice) = 1
  <2>1. todo' = Tail(todo) /\ unfetchable' = unfetchable + 1 /\ refused' = refused \cup Members(slice)
    BY <1>6 DEF FetchFails
  <2>2. /\ todo' \in Seq(Slices) /\ Apart(todo') /\ Len(todo') = Len(todo) - 1
        /\ PendingOf(todo') = Pending \ Members(slice)
    BY <1>1, <1>2, <2>1, PopProperties
  <2>3. Cardinality(PendingOf(todo')) = Cardinality(Pending) - 1
    BY <1>1, <1>2, <1>6, <2>1, SliceIsCounted
  <2>4. TypeOK'
    BY <1>1, <1>2, <1>5, <2>1, <2>2 DEF TypeOK, Slices
  <2>5. fetches' + 2 * Cardinality(PendingOf(todo')) < 2 * Len(missing') + Len(todo')
    BY <1>1, <1>2, <2>2, <2>3
  <2>6. BisectionIsBounded' /\ SlicesAreCounted'
    BY <2>2, <2>4, <2>5, StillBounded
  <2>7. NothingForgotten'
    <3>1. \A c \in Members(missing) : c \in local \/ c \in refused' \/ c \in PendingOf(todo')
      BY <1>3, <2>1, <2>2
    <3> QED
      BY <1>1, <3>1 DEF NothingForgotten, PendingOf
  <2>8. Cardinality(refused') <= unfetchable'
    <3>1. IsFiniteSet(refused) /\ IsFiniteSet(Members(slice)) /\ Cardinality(Members(slice)) = 1
      BY <1>4, <1>5, <1>6, LengthIsCount, BackfillAssumption, FS_Subset DEF TypeOK, BackfillAssumption
    <3>2. Cardinality(refused') = Cardinality(refused) + 1 - Cardinality(refused \cap Members(slice))
      BY <2>1, <3>1, FS_Union
    <3>3. Cardinality(refused \cap Members(slice)) \in Nat /\ Cardinality(refused) \in Nat
      BY <3>1, FS_Intersection, FS_CardinalityType
    <3>4. Cardinality(refused) <= unfetchable /\ unfetchable \in Nat
      BY DEF ListsAreFiltered, TypeOK
    <3> QED
      BY <2>1, <3>2, <3>3, <3>4
  <2>9. ListsAreFiltered'
    BY <1>1, <2>8 DEF ListsAreFiltered, Fetched
  <2>10. CollectedInOrder' /\ WaysToTheEnd'
    BY <1>1 DEF CollectedInOrder, WaysToTheEnd
  <2> QED
    BY <2>4, <2>6, <2>7, <2>9, <2>10
<1>7. CASE Len(slice) # 1
  <2>1. todo' = <<left, right>> \o Tail(todo) /\ unfetchable' = unfetchable /\ refused' = refused
    BY <1>7 DEF FetchFails
  <2>2. /\ left \in Slices /\ right \in Slices /\ OneEach(left) /\ OneEach(right)
        /\ Members(left) \cap Members(right) = {}
        /\ Members(left) \cup Members(right) = Members(slice)
    BY <1>4, <1>7, HalvesAreApart
  <2> HIDE DEF left, right
  <2>3. /\ todo' \in Seq(Slices) /\ Apart(todo') /\ Len(todo') = Len(todo) + 1
        /\ PendingOf(todo') = Pending
    BY <1>1, <1>2, <2>1, <2>2, CutProperties
  <2>4. TypeOK'
    BY <1>1, <1>2, <2>1, <2>3 DEF TypeOK, Slices
  <2>5. fetches' + 2 * Cardinality(PendingOf(todo')) < 2 * Len(missing') + Len(todo')
    BY <1>1, <1>2, <2>3
  <2>6. BisectionIsBounded' /\ SlicesAreCounted'
    BY <2>3, <2>4, <2>5, StillBounded
  <2>7. NothingForgotten'
    <3>1. \A c \in Members(missing) : c \in local \/ c \in refused \/ c \in PendingOf(todo')
      BY <1>3, <2>3
    <3> QED
      BY <1>1, <2>1, <3>1 DEF NothingForgotten, PendingOf
  <2>8. ListsAreFiltered'
    BY <1>1, <2>1 DEF ListsAreFiltered, Fetched
  <2>9. CollectedInOrder' /\ WaysToTheEnd'
    BY <1>1 DEF CollectedInOrder, WaysToTheEnd
  <2> QED
    BY <2>4, <2>6, <2>7, <2>8, <2>9
<1> QED
  BY <1>6, <1>7

LEMMA StutterInv == FetchInv /\ UNCHANGED vars => FetchInv'
<1> SUFFICES ASSUME FetchInv, UNCHANGED vars
             PROVE  FetchInv'
  OBVIOUS
<1> USE DEF FetchInv, vars, inputs, fetchState, lists, archive, delivery
<1>1. TypeOK' /\ WaysToTheEnd'
  BY DEF TypeOK, WaysToTheEnd
<1>2. NothingForgotten' /\ BisectionIsBounded' /\ SlicesAreCounted'
  BY DEF NothingForgotten, BisectionIsBounded, SlicesAreCounted, Fetching, Pending
<1>3. ListsAreFiltered' /\ CollectedInOrder'
  BY DEF ListsAreFiltered, Fetched, CollectedInOrder, Positions, WithMetadata, Record
<1> QED
  BY <1>1, <1>2, <1>3

LEMMA NextInv == FetchInv /\ [Next]_vars => FetchInv'
<1> SUFFICES ASSUME FetchInv, [Next]_vars
             PROVE  FetchInv'
  OBVIOUS
<1>1. CASE ServerSteps
  BY <1>1, FetchCommitListInv, PresignInv, GetSuiteInv DEF ServerSteps
<1>2. CASE GitSteps
  BY <1>2, DetectDefaultBranchInv, FilterFailsInv, FilterExistingCommitsInv, FetchWorksInv,
     FetchFailsInv, FetchEndsInv, RefilterInv, BuildMainlineCacheInv, FetchBulkMetadataInv,
     CollectDiffsInv DEF GitSteps
<1>3. CASE OwnSteps
  BY <1>3, ProcessInv, AssembleInv, CreateTarballInv DEF OwnSteps
<1>4. CASE DeliverySteps
  BY <1>4, CopyFileInv, UploadToS3Inv, UploadFailsInv, ForbiddenInv DEF DeliverySteps
<1>5. CASE UNCHANGED vars
  BY <1>5, StutterInv
<1> QED
  BY <1>1, <1>2, <1>3, <1>4, <1>5 DEF Next

-----------------------------------------------------------------------------
(***************************************************************************)
(* What follows.                                                           *)
(***************************************************************************)

\* The bisection forgets no commit and takes fewer than two fetches for each missing one,
\* whatever the remote refuses; what is filtered, collected and stored is in order.
THEOREM FetchInvariant == Spec => []FetchInv
<1> QED
  BY InitInv, NextInv, PTL DEF Spec

\* What is left out after the last filter was missing before the fetches, and not fetched.
LEMMA SkippedAtRefilter ==
  ASSUME FetchInv, Refilter
  PROVE  Members(missing') \subseteq refused /\ Len(missing') <= unfetchable
<1>1. /\ pc = "refilter" /\ missing' = Those(commits, Commits \ local)
      /\ commits \in Seq(Commits) /\ Members(commits) \subseteq Commits
  BY MembersType DEF FetchInv, TypeOK, Refilter, Filter
<1>2. /\ missing' \in Seq(Commits) /\ Members(missing') = Members(commits) \ local
  BY <1>1, ThoseProperties
<1>3. Members(commits) \subseteq local \cup Members(missing) /\ Members(missing) \subseteq local \cup refused
  BY <1>1 DEF FetchInv, ListsAreFiltered
<1>4. Members(missing') \subseteq refused
  BY <1>2, <1>3
<1>5. OneEach(commits)
  BY BackfillAssumption DEF FetchInv, ListsAreFiltered, OneEach, BackfillAssumption
<1>6. Cardinality(Members(missing')) = Len(missing') /\ Len(missing') \in Nat
  BY <1>1, <1>2, <1>5, ThoseProperties, LengthIsCount
<1>7. IsFiniteSet(refused)
  BY BackfillAssumption, FS_Subset DEF FetchInv, TypeOK, BackfillAssumption
<1>8. Cardinality(Members(missing')) <= Cardinality(refused) /\ Cardinality(refused) \in Nat
  BY <1>4, <1>7, FS_Subset, FS_CardinalityType
<1>9. Cardinality(refused) <= unfetchable /\ unfetchable \in Nat
  BY DEF FetchInv, ListsAreFiltered, TypeOK
<1> QED
  BY <1>4, <1>6, <1>8, <1>9

\* Whatever the remote has and git does: a commit is left out only if git refused it when
\* asked for it alone, and the warning counts at least the commits left out.
THEOREM SkippedWereRefused == Spec => []OnlyRefusedAreSkipped
<1> USE DEF OnlyRefusedAreSkipped, Fetched
<1>1. Init => OnlyRefusedAreSkipped
  BY DEF Init
<1>2. FetchInv /\ OnlyRefusedAreSkipped /\ [Next]_vars => OnlyRefusedAreSkipped'
  <2> SUFFICES ASSUME FetchInv, OnlyRefusedAreSkipped, [Next]_vars
               PROVE  OnlyRefusedAreSkipped'
    OBVIOUS
  <2> USE DEF Go, End, inputs, fetchState, lists, archive, delivery
  <2>1. CASE Refilter
    BY <2>1, SkippedAtRefilter DEF Refilter
  <2>2. CASE FilterExistingCommits
    <3>1. CASE missing' = <<>>
      BY <2>2, <3>1 DEF FetchInv, TypeOK, FilterExistingCommits, Members
    <3>2. CASE missing' # <<>>
      BY <2>2, <3>2 DEF FilterExistingCommits
    <3> QED
      BY <3>1, <3>2
  <2>3. CASE FetchWorks \/ FetchFails \/ FetchEnds
    BY <2>3 DEF FetchWorks, FetchFails, FetchEnds
  <2>4. CASE ServerSteps
    BY <2>4 DEF ServerSteps, FetchCommitList, Presign, GetSuite
  <2>5. CASE DetectDefaultBranch \/ FilterFails \/ BuildMainlineCache \/ FetchBulkMetadata \/ CollectDiffs
    BY <2>5 DEF DetectDefaultBranch, FilterFails, BuildMainlineCache, FetchBulkMetadata, CollectDiffs
  <2>6. CASE OwnSteps
    BY <2>6 DEF OwnSteps, Process, Assemble, CreateTarball
  <2>7. CASE DeliverySteps
    BY <2>7 DEF DeliverySteps, CopyFile, UploadToS3, UploadFails, Forbidden
  <2>8. CASE UNCHANGED vars
    BY <2>8 DEF vars
  <2> QED
    BY <2>1, <2>2, <2>3, <2>4, <2>5, <2>6, <2>7, <2>8 DEF Next, GitSteps
<1> QED
  BY <1>1, <1>2, FetchInvariant, PTL DEF Spec

\* However many commits there are, and whichever have metadata or diffs: the archive has
\* each once, in the order of the list, with its own diffs or none.
THEOREM ArchivesAreFaithful == Spec => []ArchiveIsFaithful
<1>1. FetchInv => ArchiveIsFaithful
  <2> SUFFICES ASSUME FetchInv, pc \in {"tarball", "copy", "upload", "retry"}, mode # "uploadOnly"
               PROVE  /\ \A k \in DOMAIN records : records[k].diff \in {records[k].commit, Empty}
                      /\ Members(commits) = Members(missing) \cup Members(existing)
                      /\ {records[k].commit : k \in DOMAIN records} = Members(existing) \cap metadata
                      /\ Len(records) = Cardinality(metadata)
                      /\ \A c \in Members(existing) : c \in local
                      /\ \A k, l \in DOMAIN records :
                           k < l => \E i, j \in DOMAIN commits :
                                      i < j /\ commits[i] = records[k].commit /\ commits[j] = records[l].commit
    BY DEF ArchiveIsFaithful
  <2>1. /\ commits \in Seq(Commits) /\ Members(commits) \subseteq Commits
        /\ existing \in Seq(Commits) /\ OneEach(commits)
    BY MembersType, BackfillAssumption DEF FetchInv, TypeOK, ListsAreFiltered, OneEach, BackfillAssumption
  <2>2. existing = Those(commits, local) /\ missing = Those(commits, Commits \ local)
    BY DEF FetchInv, ListsAreFiltered, Fetched
  <2>3. /\ Members(existing) = Members(commits) \cap local
        /\ OneEach(existing)
        /\ \A k, l \in DOMAIN existing :
             k < l => \E i, j \in DOMAIN commits : i < j /\ commits[i] = existing[k] /\ commits[j] = existing[l]
    BY <2>1, <2>2, ThoseProperties
  <2>4. Members(missing) = Members(commits) \cap (Commits \ local)
    BY <2>1, <2>2, ThoseProperties
  <2>5. /\ metadata \subseteq Members(existing)
        /\ \A i \in DOMAIN existing : diffs[i] \in {existing[i], Empty}
        /\ records = [k \in DOMAIN Positions |-> Record(k)]
    BY DEF FetchInv, CollectedInOrder
  <2>6. /\ Positions \in Seq(DOMAIN existing)
        /\ \A k \in DOMAIN Positions : Positions[k] \in DOMAIN existing /\ existing[Positions[k]] \in metadata
        /\ \A i \in DOMAIN existing : existing[i] \in metadata => \E k \in DOMAIN Positions : Positions[k] = i
        /\ \A k, l \in DOMAIN Positions : k < l => Positions[k] < Positions[l]
        /\ OneEach(Positions)
    BY <2>1, PositionsProperties
  <2>7. /\ DOMAIN records = DOMAIN Positions
        /\ \A k \in DOMAIN Positions : /\ records[k].commit = existing[Positions[k]]
                                       /\ records[k].diff = diffs[Positions[k]]
    BY <2>5 DEF Record
  <2>8. \A k \in DOMAIN records : records[k].diff \in {records[k].commit, Empty}
    BY <2>5, <2>6, <2>7
  <2>9. {records[k].commit : k \in DOMAIN records} = Members(existing) \cap metadata
    <3>1. \A k \in DOMAIN records : records[k].commit \in Members(existing) \cap metadata
      BY <2>6, <2>7 DEF Members
    <3>2. \A i \in DOMAIN existing : existing[i] \in metadata =>
            \E k \in DOMAIN records : records[k].commit = existing[i]
      BY <2>6, <2>7
    <3>3. \A c \in Members(existing) \cap metadata : \E k \in DOMAIN records : records[k].commit = c
      BY <3>2 DEF Members
    <3> QED
      BY <3>1, <3>3
  <2>10. Len(records) = Cardinality(metadata)
    <3> DEFINE names == [k \in DOMAIN Positions |-> existing[Positions[k]]]
    <3>1. Len(Positions) \in Nat /\ DOMAIN Positions = 1 .. Len(Positions)
      BY <2>6, LenProperties
    <3>2. \A i \in DOMAIN existing : existing[i] \in Commits
      BY <2>1, LenProperties, ElementOfSeq
    <3>3. names \in Seq(Commits) /\ Len(names) = Len(Positions)
      <4>1. names \in [1 .. Len(Positions) -> Commits]
        BY <2>6, <3>1, <3>2
      <4>2. names \in Seq(Commits)
        BY <3>1, <4>1, IsASeq
      <4> QED
        BY <3>1, <4>2, LenProperties
    <3>4. OneEach(names)
      BY <2>3, <2>6 DEF OneEach
    <3>5. Members(names) = {records[k].commit : k \in DOMAIN records}
      BY <2>7 DEF Members
    <3> HIDE DEF names
    <3>6. Members(names) = metadata
      BY <2>5, <2>9, <3>5
    <3>7. Cardinality(metadata) = Len(names)
      BY <3>3, <3>4, <3>6, LengthIsCount
    <3>8. Len(records) = Len(Positions)
      <4>1. records \in Seq([commit : Commits, diff : Commits \cup {Empty}])
        BY DEF FetchInv, TypeOK
      <4>2. DOMAIN records = 1 .. Len(records) /\ Len(records) \in Nat
        BY <4>1, LenProperties
      <4> QED
        BY <2>7, <3>1, <4>2
    <3> QED
      BY <3>3, <3>7, <3>8
  <2>11. ASSUME NEW k \in DOMAIN records, NEW l \in DOMAIN records, k < l
         PROVE  \E i, j \in DOMAIN commits :
                  i < j /\ commits[i] = records[k].commit /\ commits[j] = records[l].commit
    <3>1. Positions[k] \in DOMAIN existing /\ Positions[l] \in DOMAIN existing /\ Positions[k] < Positions[l]
      BY <2>6, <2>7, <2>11
    <3>2. PICK i \in DOMAIN commits, j \in DOMAIN commits :
            i < j /\ commits[i] = existing[Positions[k]] /\ commits[j] = existing[Positions[l]]
      BY <2>3, <3>1
    <3> QED
      BY <2>7, <3>2
  <2>12. /\ Members(commits) = Members(missing) \cup Members(existing)
         /\ \A c \in Members(existing) : c \in local
    BY <2>1, <2>3, <2>4
  <2> QED
    BY <2>8, <2>9, <2>10, <2>11, <2>12
<1> QED
  BY <1>1, FetchInvariant, PTL

\* The archive is stored under one form at most, and a command that ends well has stored or
\* written it.
THEOREM ArchivesAreDeliveredOnce == Spec => []DeliveredOnce
<1> USE DEF DeliveredOnce
<1>1. Init => DeliveredOnce
  BY FS_EmptySet DEF Init
<1>2. FetchInv /\ DeliveredOnce /\ [Next]_vars => DeliveredOnce'
  <2> SUFFICES ASSUME FetchInv, DeliveredOnce, [Next]_vars
               PROVE  DeliveredOnce'
    OBVIOUS
  <2> USE DEF Go, End, inputs, fetchState, lists, archive, delivery
  <2>1. /\ Cardinality({}) = 0 /\ Cardinality({form}) = 1
        /\ {} \cup {form} = {form}
    BY FS_EmptySet, FS_Singleton
  <2>2. WaysToTheEnd
    BY DEF FetchInv
  <2>3. CASE UploadToS3 \/ UploadFails
    BY <2>1, <2>2, <2>3 DEF UploadToS3, UploadFails, WaysToTheEnd
  <2>4. CASE CopyFile
    BY <2>2, <2>4 DEF CopyFile, WaysToTheEnd
  <2>5. CASE Forbidden
    BY <2>2, <2>5 DEF Forbidden, WaysToTheEnd
  <2>6. CASE ServerSteps
    BY <2>2, <2>6 DEF ServerSteps, FetchCommitList, Presign, GetSuite, WaysToTheEnd
  <2>7. CASE GitSteps
    BY <2>2, <2>7 DEF GitSteps, DetectDefaultBranch, FilterFails, FilterExistingCommits, FetchWorks,
       FetchFails, FetchEnds, Refilter, BuildMainlineCache, FetchBulkMetadata, CollectDiffs, WaysToTheEnd
  <2>8. CASE OwnSteps
    BY <2>2, <2>8 DEF OwnSteps, Process, Assemble, CreateTarball, WaysToTheEnd
  <2>9. CASE UNCHANGED vars
    BY <2>9 DEF vars
  <2> QED
    BY <2>3, <2>4, <2>5, <2>6, <2>7, <2>8, <2>9 DEF Next, DeliverySteps
<1> QED
  BY <1>1, <1>2, FetchInvariant, PTL DEF Spec

\* However the command ends, but in the making of the tarball, that stays exactly if an upload
\* failed that a later --upload can repeat.
THEOREM TarballsAreKept == Spec => TarballKeptForRetry
<1> DEFINE Kept == pc \notin {"tarball", "done"} /\ pc' = "done" =>
                     (tarball' <=> pc \in {"upload", "retry"} /\ mode = "upload" /\ outcome' = "failed")
<1>1. FetchInv /\ [Next]_vars => [Kept]_vars
  <2> SUFFICES ASSUME FetchInv, Next, pc \notin {"tarball", "done"}, pc' = "done"
               PROVE  tarball' <=> pc \in {"upload", "retry"} /\ mode = "upload" /\ outcome' = "failed"
    OBVIOUS
  <2> USE DEF Go, End, inputs, fetchState, lists, archive, delivery
  <2>1. WaysToTheEnd /\ mode \in {"upload", "output", "uploadOnly"}
    BY DEF FetchInv, TypeOK
  <2>2. tarball <=> pc \in {"copy", "upload", "retry"} /\ mode # "uploadOnly"
    BY <2>1 DEF WaysToTheEnd
  <2>3. CASE UploadToS3 \/ CopyFile
    BY <2>3 DEF UploadToS3, CopyFile
  <2>4. CASE UploadFails \/ Forbidden
    BY <2>1, <2>2, <2>4 DEF UploadFails, Forbidden, WaysToTheEnd
  <2>5. CASE ServerSteps
    BY <2>2, <2>5 DEF ServerSteps, FetchCommitList, Presign, GetSuite
  <2>6. CASE GitSteps
    BY <2>2, <2>6 DEF GitSteps, DetectDefaultBranch, FilterFails, FilterExistingCommits, FetchWorks,
       FetchFails, FetchEnds, Refilter, BuildMainlineCache, FetchBulkMetadata, CollectDiffs
  <2>7. CASE OwnSteps
    BY <2>2, <2>7 DEF OwnSteps, Process, Assemble, CreateTarball
  <2> QED
    BY <2>3, <2>4, <2>5, <2>6, <2>7 DEF Next, DeliverySteps
<1> QED
  BY <1>1, FetchInvariant, PTL DEF Spec, TarballKeptForRetry

=============================================================================
