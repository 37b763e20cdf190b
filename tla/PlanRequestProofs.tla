-------------------------- MODULE PlanRequestProofs --------------------------
(***************************************************************************)
(* What a plan request promises, for all targets, prefixes, refs and       *)
(* metadata: by the algebra of cleaned paths, which is proved first.       *)
(***************************************************************************)
EXTENDS PlanRequest, SequenceTheorems, WellFoundedInduction, TLAPS

-----------------------------------------------------------------------------
(***************************************************************************)
(* Induction, with the set of counterexamples for a predicate.             *)
(***************************************************************************)

\* Natural numbers have a least one.
LEMMA LeastNumber ==
  ASSUME NEW T \in SUBSET Nat, T # {}
  PROVE  \E m \in T : \A k \in T : m <= k
<1>1. \E m \in T : \A k \in T : ~ (<<k, m>> \in OpToRel(<, Nat))
  BY WFMin, NatLessThanWellFounded
<1>2. \A k, m \in Nat : k < m => <<k, m>> \in OpToRel(<, Nat)
  BY DEF OpToRel
<1> DEFINE R == OpToRel(<, Nat)
<1>3. \A k, m \in Nat : k < m => <<k, m>> \in R
  BY <1>2
<1>4. PICK m \in T : \A k \in T : ~ (<<k, m>> \in R)
  BY <1>1
<1> HIDE DEF R
<1>5. ASSUME NEW k \in T
      PROVE  m <= k
  <2>1. m \in Nat /\ k \in Nat
    OBVIOUS
  <2>2. ~ (k < m)
    BY <1>3, <1>4, <2>1, Zenon
  <2> QED
    BY <2>1, <2>2
<1> QED
  BY <1>5

\* A set with the empty sequence that is closed under Append has all sequences.
LEMMA AppendInduction ==
  ASSUME NEW S, NEW T, <<>> \in T,
         \A s \in Seq(S) : s \in T => \A x \in S : Append(s, x) \in T
  PROVE  Seq(S) \subseteq T
<1> SUFFICES ASSUME NEW s \in Seq(S), s \notin T
             PROVE  FALSE
  OBVIOUS
<1> DEFINE Bad == {n \in 0 .. Len(s) : SubSeq(s, 1, n) \notin T}
<1>1. Len(s) \in Nat /\ SubSeq(s, 1, Len(s)) = s
  BY LenProperties, SubSeqFull
<1>2. Len(s) \in Bad /\ Bad \in SUBSET Nat
  <2>1. Len(s) \in 0 .. Len(s)
    BY <1>1
  <2>2. SubSeq(s, 1, Len(s)) \notin T
    BY <1>1, Zenon
  <2> QED
    BY <2>1, <2>2
<1> HIDE DEF Bad
<1>3. PICK m \in Bad : \A k \in Bad : m <= k
  <2>1. Bad # {}
    BY <1>2
  <2> QED
    BY <1>2, <2>1, LeastNumber
<1>4. m \in 0 .. Len(s) /\ SubSeq(s, 1, m) \notin T
  BY DEF Bad
<1>5. m # 0
  <2>1. SubSeq(s, 1, 0) = <<>>
    BY SubSeqEmpty
  <2> QED
    BY <1>4, <2>1
<1>6. m - 1 \in 0 .. Len(s) /\ m \in 1 .. Len(s) /\ m - 1 \notin Bad
  BY <1>1, <1>2, <1>3, <1>4, <1>5
<1>7. SubSeq(s, 1, m - 1) \in T
  BY <1>6 DEF Bad
<1>8. /\ SubSeq(s, 1, m - 1) \in Seq(S)
      /\ s[m] \in S
      /\ SubSeq(s, 1, m) = SubSeq(s, 1, m - 1) \o <<s[m]>>
  <2>1. \A i \in 1 .. m - 1 : s[i] \in S
    BY <1>1, <1>6, ElementOfSeq
  <2>2. 1 \in 1 .. Len(s) /\ m \in 1 .. Len(s) /\ m - 1 \in Int
    BY <1>1, <1>6
  <2> QED
    BY <1>6, <2>1, <2>2, ElementOfSeq, SubSeqProperties, SubSeqRecursiveSecond
<1>9. SubSeq(s, 1, m) = Append(SubSeq(s, 1, m - 1), s[m])
  BY <1>8, AppendIsConcat
<1> QED
  BY <1>4, <1>7, <1>8, <1>9

-----------------------------------------------------------------------------
(***************************************************************************)
(* Clean, part by part.                                                    *)
(***************************************************************************)

EnteredUpTo(s, n, f) == f = [m \in 0 .. n |-> IF m = 0 THEN <<>> ELSE Enter(f[m - 1], s[m])]

LEMMA EnteredExists ==
  ASSUME NEW s, NEW N \in Nat
  PROVE  \E f : EnteredUpTo(s, N, f)
<1> DEFINE T == {n \in 0 .. N : ~ \E f : EnteredUpTo(s, n, f)}
<1> SUFFICES ASSUME T # {}
             PROVE  FALSE
  OBVIOUS
<1>1. PICK m \in T : \A k \in T : m <= k
  <2>1. T \in SUBSET Nat
    OBVIOUS
  <2> HIDE DEF T
  <2> QED
    BY <2>1, LeastNumber
<1>2. CASE m = 0
  <2>1. EnteredUpTo(s, 0, [n \in 0 .. 0 |-> <<>>])
    BY DEF EnteredUpTo
  <2> QED
    BY <1>2, <2>1
<1>3. CASE m # 0
  <2>1. m - 1 \in 0 .. N /\ m - 1 \notin T /\ m \in 1 .. N
    BY <1>1, <1>3
  <2>2. PICK f : EnteredUpTo(s, m - 1, f)
    BY <2>1
  <2> DEFINE g == [n \in 0 .. m |-> IF n = m THEN Enter(f[m - 1], s[m]) ELSE f[n]]
  <2>3. ASSUME NEW n \in 0 .. m
        PROVE  g[n] = IF n = 0 THEN <<>> ELSE Enter(g[n - 1], s[n])
    <3>1. n # 0 => n - 1 \in 0 .. m /\ n - 1 # m
      BY <2>1
    <3>2. n # 0 => g[n - 1] = f[n - 1]
      BY <3>1
    <3>3. CASE n = m
      BY <2>1, <3>2, <3>3
    <3>4. CASE n # m
      <4>1. n \in 0 .. m - 1 /\ g[n] = f[n]
        BY <3>4, <2>1
      <4>2. f[n] = IF n = 0 THEN <<>> ELSE Enter(f[n - 1], s[n])
        BY <2>2, <4>1 DEF EnteredUpTo
      <4> QED
        BY <3>2, <4>1, <4>2
    <3> QED
      BY <3>3, <3>4
  <2>4. EnteredUpTo(s, m, g)
    <3>1. [n \in 0 .. m |-> g[n]] = [n \in 0 .. m |-> IF n = 0 THEN <<>> ELSE Enter(g[n - 1], s[n])]
      BY <2>3
    <3>2. g = [n \in 0 .. m |-> g[n]]
      OBVIOUS
    <3> HIDE DEF g
    <3> QED
      BY <3>1, <3>2 DEF EnteredUpTo
  <2> QED
    BY <2>4
<1> QED
  BY <1>2, <1>3

LEMMA CleanDef ==
  ASSUME NEW S, NEW s \in Seq(S)
  PROVE  \E f : EnteredUpTo(s, Len(s), f) /\ Clean(s) = f[Len(s)]
<1>1. \E f : f = [m \in 0 .. Len(s) |-> IF m = 0 THEN <<>> ELSE Enter(f[m - 1], s[m])]
  <2>1. \E f : EnteredUpTo(s, Len(s), f)
    BY EnteredExists, LenProperties
  <2> QED
    BY <2>1 DEF EnteredUpTo
<1> DEFINE after == CHOOSE f : f = [m \in 0 .. Len(s) |-> IF m = 0 THEN <<>> ELSE Enter(f[m - 1], s[m])]
<1>2. after = [m \in 0 .. Len(s) |-> IF m = 0 THEN <<>> ELSE Enter(after[m - 1], s[m])]
  BY <1>1
<1>3. Clean(s) = after[Len(s)]
  BY DEF Clean
<1> HIDE DEF after
<1> QED
  BY <1>2, <1>3 DEF EnteredUpTo

\* Two sequences that begin alike are cleaned alike up to there.
LEMMA EnteredAlike ==
  ASSUME NEW s, NEW t, NEW n \in Nat, NEW k \in Nat, n <= k,
         \A i \in 1 .. n : s[i] = t[i],
         NEW f, EnteredUpTo(s, n, f), NEW g, EnteredUpTo(t, k, g)
  PROVE  f[n] = g[n]
<1> DEFINE T == {m \in 0 .. n : f[m] # g[m]}
<1> SUFFICES ASSUME T # {}
             PROVE  FALSE
  <2>1. n \in 0 .. n
    OBVIOUS
  <2> QED
    BY <2>1
<1>1. PICK m \in T : \A j \in T : m <= j
  <2>1. T \in SUBSET Nat
    OBVIOUS
  <2> HIDE DEF T
  <2> QED
    BY <2>1, LeastNumber
<1>2. m \in 0 .. n /\ m \in 0 .. k
  OBVIOUS
<1>3. /\ f[m] = IF m = 0 THEN <<>> ELSE Enter(f[m - 1], s[m])
      /\ g[m] = IF m = 0 THEN <<>> ELSE Enter(g[m - 1], t[m])
  BY <1>2 DEF EnteredUpTo
<1>4. CASE m = 0
  BY <1>3, <1>4
<1>5. CASE m # 0
  <2>1. m \in 1 .. n /\ m - 1 \in 0 .. n /\ m - 1 \notin T
    BY <1>1, <1>5
  <2>2. f[m - 1] = g[m - 1]
    BY <2>1
  <2> QED
    BY <1>3, <1>5, <2>1, <2>2
<1> QED
  BY <1>4, <1>5

LEMMA CleanEmpty == Clean(<<>>) = <<>>
<1>1. PICK f : EnteredUpTo(<<>>, Len(<<>>), f) /\ Clean(<<>>) = f[Len(<<>>)]
  BY CleanDef, EmptySeq
<1> QED
  BY <1>1 DEF EnteredUpTo

LEMMA CleanAppend ==
  ASSUME NEW S, NEW s \in Seq(S), NEW x \in S
  PROVE  Clean(Append(s, x)) = Enter(Clean(s), x)
<1> DEFINE t == Append(s, x)
           n == Len(s)
<1>1. /\ n \in Nat /\ t \in Seq(S) /\ Len(t) = n + 1 /\ t[n + 1] = x
      /\ \A i \in 1 .. n : s[i] = t[i]
  BY AppendProperties, LenProperties
<1>2. PICK f : EnteredUpTo(s, n, f) /\ Clean(s) = f[n]
  BY CleanDef
<1>3. PICK g : EnteredUpTo(t, n + 1, g) /\ Clean(t) = g[n + 1]
  BY <1>1, CleanDef
<1> HIDE DEF t, n
<1>4. f[n] = g[n]
  BY <1>1, <1>2, <1>3, EnteredAlike
<1>5. g[n + 1] = Enter(g[n], t[n + 1])
  BY <1>1, <1>3 DEF EnteredUpTo
<1> QED
  BY <1>1, <1>2, <1>3, <1>4, <1>5 DEF t

-----------------------------------------------------------------------------
(***************************************************************************)
(* The algebra of cleaned paths.                                           *)
(***************************************************************************)

\* A cleaned path goes up before it goes down.
Cleaned == {s \in Seq(Parts) : \A i \in 1 .. Len(s) : s[i] = Up => \A j \in 1 .. i : s[j] = Up}

LEMMA PartsType == Up \in Parts /\ <<>> \in Cleaned /\ Cleaned \subseteq Seq(Parts)
BY EmptySeq DEF Parts, Cleaned

LEMMA FrontProperties ==
  ASSUME NEW S, NEW s \in Seq(S), s # <<>>
  PROVE  /\ Front(s) \in Seq(S) /\ Len(Front(s)) = Len(s) - 1 /\ Len(s) \in Nat \ {0}
         /\ \A i \in 1 .. Len(s) - 1 : Front(s)[i] = s[i]
         /\ Last(s) \in S /\ Last(s) = s[Len(s)]
         /\ s = Append(Front(s), Last(s))
<1>1. Len(s) \in Nat \ {0} /\ Len(s) - 1 \in Int /\ 1 \in 1 .. Len(s) /\ Len(s) \in 1 .. Len(s)
  BY EmptySeq
<1>2. \A i \in 1 .. Len(s) - 1 : s[i] \in S
  BY <1>1, ElementOfSeq
<1>3. /\ Front(s) \in Seq(S) /\ Len(Front(s)) = Len(s) - 1
      /\ \A i \in 1 .. Len(s) - 1 : Front(s)[i] = s[i]
  <2> DEFINE n == Len(s) - 1
  <2>1. n \in Nat /\ 1 \in Int
    BY <1>1
  <2>2. \A i \in 1 .. n : s[i] \in S
    BY <1>2
  <2> HIDE DEF n
  <2>3. /\ SubSeq(s, 1, n) \in Seq(S)
        /\ Len(SubSeq(s, 1, n)) = IF 1 <= n THEN n - 1 + 1 ELSE 0
        /\ \A i \in 1 .. n - 1 + 1 : SubSeq(s, 1, n)[i] = s[1 + i - 1]
    BY <2>1, <2>2, SubSeqProperties
  <2>4. Len(SubSeq(s, 1, n)) = n /\ \A i \in 1 .. n : SubSeq(s, 1, n)[i] = s[i]
    BY <2>1, <2>3
  <2> QED
    BY <2>3, <2>4 DEF n, Front
<1>4. Last(s) = s[Len(s)] /\ Last(s) \in S
  BY <1>1, ElementOfSeq DEF Last
<1>5. s = Front(s) \o <<Last(s)>>
  BY <1>1, SubSeqFull, SubSeqRecursiveSecond DEF Front, Last
<1>6. s = Append(Front(s), Last(s))
  BY <1>3, <1>4, <1>5, AppendIsConcat
<1> QED
  BY <1>1, <1>3, <1>4, <1>6

LEMMA FrontOfAppend ==
  ASSUME NEW S, NEW s \in Seq(S), NEW x \in S
  PROVE  Append(s, x) # <<>> /\ Front(Append(s, x)) = s /\ Last(Append(s, x)) = x
<1> DEFINE t == Append(s, x)
<1>1. t \in Seq(S) /\ t # <<>> /\ Len(t) = Len(s) + 1 /\ t[Len(s) + 1] = x /\ Len(s) \in Nat
  BY AppendProperties, LenProperties
<1> HIDE DEF t
<1>2. Front(t) \in Seq(S) /\ Last(t) \in S /\ Last(t) = t[Len(t)] /\ t = Append(Front(t), Last(t))
  BY <1>1, FrontProperties
<1>3. Append(Front(t), Last(t)) = Append(s, x)
  BY <1>2 DEF t
<1>4. Front(t) = s
  BY <1>2, <1>3, AppendInjective
<1> QED
  BY <1>1, <1>2, <1>4 DEF t

LEMMA ConcatAppend ==
  ASSUME NEW S, NEW s \in Seq(S), NEW t \in Seq(S), NEW x \in S
  PROVE  s \o Append(t, x) = Append(s \o t, x)
<1>1. s \o t \in Seq(S) /\ <<x>> \in Seq(S)
  BY ConcatProperties
<1>2. Append(t, x) = t \o <<x>> /\ Append(s \o t, x) = (s \o t) \o <<x>>
  BY <1>1, AppendIsConcat
<1> QED
  BY <1>1, <1>2, ConcatAssociative

\* A part is appended, or takes back the name before it.
LEMMA EnterCases ==
  ASSUME NEW s \in Seq(Parts), NEW x \in Parts
  PROVE  /\ Enter(s, x) \in Seq(Parts)
         /\ \/ /\ Enter(s, x) = Append(s, x)
               /\ x = Up => s = <<>> \/ Last(s) = Up
            \/ /\ Enter(s, x) = Front(s)
               /\ x = Up /\ s # <<>> /\ Last(s) # Up
BY FrontProperties, AppendProperties DEF Enter

LEMMA EnterCleaned ==
  ASSUME NEW s \in Cleaned, NEW x \in Parts
  PROVE  Enter(s, x) \in Cleaned
<1>1. s \in Seq(Parts) /\ Len(s) \in Nat
  BY LenProperties DEF Cleaned
<1>2. \A i \in 1 .. Len(s) : s[i] = Up => \A j \in 1 .. i : s[j] = Up
  BY DEF Cleaned
<1>3. CASE Enter(s, x) = Append(s, x) /\ (x = Up => s = <<>> \/ Last(s) = Up)
  <2> DEFINE t == Append(s, x)
  <2>1. /\ t \in Seq(Parts) /\ Len(t) = Len(s) + 1 /\ t[Len(s) + 1] = x
        /\ \A i \in 1 .. Len(s) : t[i] = s[i]
    BY <1>1, AppendProperties
  <2> HIDE DEF t
  <2>2. ASSUME NEW i \in 1 .. Len(t), t[i] = Up, NEW j \in 1 .. i
        PROVE  t[j] = Up
    <3>1. CASE i <= Len(s)
      BY <1>1, <1>2, <2>1, <2>2, <3>1
    <3>2. CASE i = Len(s) + 1
      <4>1. x = Up
        BY <2>1, <2>2, <3>2
      <4>2. CASE j = i
        BY <2>2, <4>2
      <4>3. CASE j # i
        <5>1. j \in 1 .. Len(s) /\ Len(s) # 0
          BY <1>1, <3>2, <4>3
        <5>2. s # <<>> /\ s[Len(s)] = Up
          BY <1>1, <1>3, <4>1, <5>1, EmptySeq DEF Last
        <5>3. s[j] = Up
          BY <1>1, <1>2, <5>1, <5>2
        <5> QED
          BY <2>1, <5>1, <5>3
      <4> QED
        BY <4>2, <4>3
    <3> QED
      BY <1>1, <2>1, <3>1, <3>2
  <2> QED
    BY <1>3, <2>1, <2>2 DEF Cleaned, t
<1>4. CASE Enter(s, x) = Front(s) /\ s # <<>>
  <2>1. /\ Front(s) \in Seq(Parts) /\ Len(Front(s)) = Len(s) - 1
        /\ \A i \in 1 .. Len(s) - 1 : Front(s)[i] = s[i]
    BY <1>1, <1>4, FrontProperties
  <2>2. ASSUME NEW i \in 1 .. Len(s) - 1, Front(s)[i] = Up, NEW j \in 1 .. i
        PROVE  Front(s)[j] = Up
    BY <1>1, <1>2, <2>1, <2>2
  <2> QED
    BY <1>4, <2>1, <2>2 DEF Cleaned
<1> QED
  BY <1>1, <1>3, <1>4, EnterCases

LEMMA CleanCleaned ==
  ASSUME NEW s \in Seq(Parts)
  PROVE  Clean(s) \in Cleaned
<1> DEFINE T == {t \in Seq(Parts) : Clean(t) \in Cleaned}
<1>1. <<>> \in T
  BY CleanEmpty, PartsType, EmptySeq
<1>2. ASSUME NEW t \in Seq(Parts), t \in T, NEW x \in Parts
      PROVE  Append(t, x) \in T
  BY <1>2, CleanAppend, EnterCleaned, AppendProperties
<1> HIDE DEF T
<1>3. s \in T
  BY <1>1, <1>2, AppendInduction
<1> QED
  BY <1>3 DEF T

LEMMA CleanType ==
  ASSUME NEW s \in Seq(Parts)
  PROVE  Clean(s) \in Seq(Parts)
BY CleanCleaned, PartsType

\* A cleaned path stays as it is.
LEMMA CleanOfCleaned ==
  ASSUME NEW s \in Cleaned
  PROVE  Clean(s) = s
<1> DEFINE T == {t \in Seq(Parts) : t \in Cleaned => Clean(t) = t}
<1>1. <<>> \in T
  BY CleanEmpty, EmptySeq
<1>2. ASSUME NEW t \in Seq(Parts), t \in T, NEW x \in Parts
      PROVE  Append(t, x) \in T
  <2> DEFINE u == Append(t, x)
  <2>1. /\ u \in Seq(Parts) /\ Len(u) = Len(t) + 1 /\ u[Len(t) + 1] = x /\ Len(t) \in Nat
        /\ \A i \in 1 .. Len(t) : u[i] = t[i]
    BY AppendProperties, LenProperties
  <2> HIDE DEF u
  <2> SUFFICES ASSUME u \in Cleaned PROVE Clean(u) = u
    BY <2>1 DEF T, u
  <2>2. \A i \in 1 .. Len(u) : u[i] = Up => \A j \in 1 .. i : u[j] = Up
    BY DEF Cleaned
  <2>3. t \in Cleaned
    <3>1. ASSUME NEW i \in 1 .. Len(t), t[i] = Up, NEW j \in 1 .. i
          PROVE  t[j] = Up
      BY <2>1, <2>2, <3>1
    <3> QED
      BY <3>1 DEF Cleaned
  <2>4. Clean(u) = Enter(t, x)
    BY <1>2, <2>3, CleanAppend DEF T, u
  <2>5. x = Up => t = <<>> \/ Last(t) = Up
    <3> SUFFICES ASSUME x = Up, t # <<>> PROVE Last(t) = Up
      OBVIOUS
    <3>1. Len(t) # 0
      BY EmptySeq
    <3> QED
      BY <2>1, <2>2, <3>1 DEF Last
  <2> QED
    BY <2>4, <2>5 DEF Enter, u
<1> HIDE DEF T
<1>3. s \in T
  BY <1>1, <1>2, AppendInduction, PartsType
<1> QED
  BY <1>3 DEF T

LEMMA CleanConcatAppend ==
  ASSUME NEW s \in Seq(Parts), NEW t \in Seq(Parts), NEW x \in Parts
  PROVE  Clean(s \o Append(t, x)) = Enter(Clean(s \o t), x)
<1>1. s \o Append(t, x) = Append(s \o t, x) /\ s \o t \in Seq(Parts)
  BY ConcatAppend, ConcatProperties
<1>2. Clean(Append(s \o t, x)) = Enter(Clean(s \o t), x)
  BY <1>1, CleanAppend
<1> QED
  BY <1>1, <1>2

\* What is before may be cleaned first.
LEMMA CleanLeft ==
  ASSUME NEW s \in Seq(Parts), NEW t \in Seq(Parts)
  PROVE  Clean(Clean(s) \o t) = Clean(s \o t)
<1> DEFINE T == {u \in Seq(Parts) : Clean(Clean(s) \o u) = Clean(s \o u)}
<1>0. Clean(s) \in Seq(Parts) /\ Clean(s) \in Cleaned
  BY CleanType, CleanCleaned
<1>1. <<>> \in T
  BY <1>0, CleanOfCleaned, ConcatEmptySeq, EmptySeq
<1>2. ASSUME NEW u \in Seq(Parts), u \in T, NEW x \in Parts
      PROVE  Append(u, x) \in T
  <2>1. s \o u \in Seq(Parts) /\ Clean(s) \o u \in Seq(Parts)
    BY <1>0, ConcatProperties
  <2>2. Clean(Clean(s) \o Append(u, x)) = Enter(Clean(Clean(s) \o u), x)
    BY <1>0, CleanConcatAppend
  <2>3. Clean(s \o Append(u, x)) = Enter(Clean(s \o u), x)
    BY <2>1, CleanConcatAppend
  <2> QED
    BY <1>2, <2>2, <2>3, AppendProperties
<1> HIDE DEF T
<1>3. t \in T
  BY <1>1, <1>2, AppendInduction
<1> QED
  BY <1>3 DEF T

\* And so may what comes after.
LEMMA CleanRight ==
  ASSUME NEW s \in Seq(Parts), NEW t \in Seq(Parts)
  PROVE  Clean(s \o Clean(t)) = Clean(s \o t)
<1> DEFINE T == {u \in Seq(Parts) : Clean(s \o Clean(u)) = Clean(s \o u)}
<1>1. <<>> \in T
  BY CleanEmpty, EmptySeq
<1>2. ASSUME NEW u \in Seq(Parts), u \in T, NEW x \in Parts
      PROVE  Append(u, x) \in T
  <2> DEFINE c == Clean(u)
  <2>1. c \in Seq(Parts) /\ s \o u \in Seq(Parts) /\ s \o c \in Seq(Parts)
    BY CleanType, ConcatProperties
  <2>2. Clean(s \o c) = Clean(s \o u)
    BY <1>2
  <2>3. Clean(Append(u, x)) = Enter(c, x) /\ Append(u, x) \in Seq(Parts)
    BY CleanAppend, AppendProperties
  <2> HIDE DEF c
  <2>4. Clean(s \o Append(u, x)) = Enter(Clean(s \o c), x)
    BY <2>2, CleanConcatAppend
  <2>5. CASE Enter(c, x) = Append(c, x)
    <3>1. Clean(s \o Append(c, x)) = Enter(Clean(s \o c), x)
      BY <2>1, CleanConcatAppend
    <3> QED
      BY <2>3, <2>4, <2>5, <3>1
  <2>6. CASE Enter(c, x) = Front(c) /\ x = Up /\ c # <<>> /\ Last(c) # Up
    <3> DEFINE r == Front(c)
               y == Last(c)
    <3>1. r \in Seq(Parts) /\ y \in Parts /\ c = Append(r, y)
      BY <2>1, <2>6, FrontProperties
    <3>2. y # Up
      BY <2>6
    <3> HIDE DEF r, y
    <3>3. s \o r \in Seq(Parts)
      BY <3>1, ConcatProperties
    <3>4. Clean(s \o r) \in Seq(Parts)
      BY <3>3, CleanType
    <3>5. Clean(s \o c) = Enter(Clean(s \o r), y)
      BY <3>1, <3>3, CleanConcatAppend
    <3>6. Enter(Clean(s \o r), y) = Append(Clean(s \o r), y)
      BY <3>2 DEF Enter
    <3>7. Enter(Append(Clean(s \o r), y), Up) = Clean(s \o r)
      BY <3>1, <3>2, <3>4, FrontOfAppend DEF Enter
    <3>8. Enter(Clean(s \o c), x) = Clean(s \o r)
      BY <2>6, <3>5, <3>6, <3>7
    <3> QED
      BY <2>3, <2>4, <2>6, <3>8 DEF r
  <2> QED
    BY <2>1, <2>5, <2>6, EnterCases
<1> HIDE DEF T
<1>3. t \in T
  BY <1>1, <1>2, AppendInduction
<1> QED
  BY <1>3 DEF T

-----------------------------------------------------------------------------
(***************************************************************************)
(* Off with the prefix.                                                    *)
(***************************************************************************)

\* Lengths up to which two paths are the same.
SharedLengths(s, t) == {m \in 0 .. Len(s) : m <= Len(t) /\ SubSeq(s, 1, m) = SubSeq(t, 1, m)}

LEMMA SubSeqOfFirst ==
  ASSUME NEW S, NEW s \in Seq(S), NEW m \in 0 .. Len(s)
  PROVE  /\ SubSeq(s, 1, m) \in Seq(S) /\ Len(SubSeq(s, 1, m)) = m
         /\ \A i \in 1 .. m : SubSeq(s, 1, m)[i] = s[i]
         /\ SubSeq(SubSeq(s, 1, m), 1, m) = SubSeq(s, 1, m)
<1>1. Len(s) \in Nat /\ m \in Nat /\ 1 \in Int /\ m \in Int
  BY LenProperties
<1>2. \A i \in 1 .. m : s[i] \in S
  BY <1>1, ElementOfSeq
<1>3. /\ SubSeq(s, 1, m) \in Seq(S)
      /\ Len(SubSeq(s, 1, m)) = IF 1 <= m THEN m - 1 + 1 ELSE 0
      /\ \A i \in 1 .. m - 1 + 1 : SubSeq(s, 1, m)[i] = s[1 + i - 1]
  BY <1>1, <1>2, SubSeqProperties
<1>4. Len(SubSeq(s, 1, m)) = m /\ \A i \in 1 .. m : SubSeq(s, 1, m)[i] = s[i]
  BY <1>1, <1>3
<1> QED
  BY <1>3, <1>4, SubSeqFull

LEMMA SharedSymmetric ==
  ASSUME NEW s \in Seq(Parts), NEW t \in Seq(Parts)
  PROVE  \A m \in SharedLengths(s, t) : m \in SharedLengths(t, s)
BY LenProperties DEF SharedLengths

LEMMA SharedIsCommon ==
  ASSUME NEW s \in Seq(Parts), NEW t \in Seq(Parts), NEW m \in SharedLengths(s, t)
  PROVE  SubSeq(s, 1, m) \in CommonPrefixes({s, t}) /\ Len(SubSeq(s, 1, m)) = m
<1> DEFINE c == SubSeq(s, 1, m)
<1>1. /\ m \in 0 .. Len(s) /\ m <= Len(t) /\ c = SubSeq(t, 1, m)
      /\ Len(s) \in Nat /\ Len(t) \in Nat
  BY LenProperties DEF SharedLengths
<1>2. Len(c) = m /\ SubSeq(c, 1, m) = c
  BY <1>1, SubSeqOfFirst
<1>3. c \in Prefixes(s)
  BY <1>1 DEF Prefixes
<1> HIDE DEF c
<1>4. IsPrefix(c, s) /\ IsPrefix(c, t)
  BY <1>1, <1>2 DEF IsPrefix, c
<1> QED
  BY <1>2, <1>3, <1>4 DEF CommonPrefixes, c

LEMMA CommonIsShared ==
  ASSUME NEW s \in Seq(Parts), NEW t \in Seq(Parts), NEW c \in CommonPrefixes({s, t})
  PROVE  Len(c) \in SharedLengths(s, t) /\ c = SubSeq(s, 1, Len(c)) /\ c = SubSeq(t, 1, Len(c))
<1>1. IsPrefix(c, s) /\ IsPrefix(c, t)
  BY DEF CommonPrefixes
<1>2. ASSUME NEW u \in Seq(Parts), c \in Prefixes(u)
      PROVE  Len(c) \in 0 .. Len(u) /\ SubSeq(c, 1, Len(c)) = c
  <2>1. PICK l \in 0 .. Len(u) : c = SubSeq(u, 1, l)
    BY <1>2 DEF Prefixes
  <2> QED
    BY <2>1, SubSeqOfFirst
<1>3. c \in Prefixes(s) \/ c \in Prefixes(t)
  BY DEF CommonPrefixes
<1>4. Len(c) \in Nat /\ SubSeq(c, 1, Len(c)) = c
  <2>1. Len(s) \in Nat /\ Len(t) \in Nat
    BY LenProperties
  <2> QED
    BY <1>2, <1>3, <2>1
<1>5. Len(c) <= Len(s) /\ Len(c) <= Len(t) /\ SubSeq(s, 1, Len(c)) = c /\ SubSeq(t, 1, Len(c)) = c
  BY <1>1, <1>4 DEF IsPrefix
<1> QED
  BY <1>4, <1>5, LenProperties DEF SharedLengths

\* What two paths share is as long as it can be.
LEMMA SharedIsLongest ==
  ASSUME NEW s \in Seq(Parts), NEW t \in Seq(Parts), NEW n, n = Len(LongestCommonPrefix({s, t}))
  PROVE  n \in SharedLengths(s, t) /\ \A m \in SharedLengths(s, t) : m <= n
<1> DEFINE M == SharedLengths(s, t)
           T == {k \in 0 .. Len(s) : Len(s) - k \in M}
<1>1. Len(s) \in Nat /\ Len(t) \in Nat
  BY LenProperties
<1>2. M \in SUBSET Nat /\ \A m \in M : m <= Len(s)
  BY <1>1 DEF SharedLengths
<1>3. 0 \in M
  BY <1>1, SubSeqEmpty DEF SharedLengths
<1> HIDE DEF M
<1>4. T \in SUBSET Nat /\ T # {}
  BY <1>1, <1>3
<1>5. PICK k \in T : \A j \in T : k <= j
  <2> HIDE DEF T
  <2> QED
    BY <1>4, LeastNumber
<1> DEFINE l == Len(s) - k
<1>6. l \in M /\ \A m \in M : m <= l
  <2>1. l \in M /\ l \in Int
    BY <1>1, <1>5
  <2>2. ASSUME NEW m \in M
        PROVE  m <= l
    <3>1. m \in Nat /\ m <= Len(s) /\ Len(s) - (Len(s) - m) = m
      BY <1>1, <1>2
    <3>2. Len(s) - m \in T
      BY <1>1, <3>1
    <3>3. k <= Len(s) - m
      BY <1>5, <3>2
    <3> QED
      BY <1>1, <3>1, <3>3
  <2> QED
    BY <2>1, <2>2
<1> HIDE DEF l, T
<1>7. SubSeq(s, 1, l) \in CommonPrefixes({s, t}) /\ Len(SubSeq(s, 1, l)) = l
  BY <1>6, SharedIsCommon DEF M
<1>8. \A c \in CommonPrefixes({s, t}) : Len(c) \in M
  BY CommonIsShared DEF M
<1>9. \E longest \in CommonPrefixes({s, t}) : \A c \in CommonPrefixes({s, t}) : Len(c) <= Len(longest)
  BY <1>6, <1>7, <1>8
<1> DEFINE g == LongestCommonPrefix({s, t})
<1>10. g \in CommonPrefixes({s, t}) /\ \A c \in CommonPrefixes({s, t}) : Len(c) <= Len(g)
  BY <1>9 DEF LongestCommonPrefix
<1>11. Len(g) \in M
  BY <1>8, <1>10
<1>12. l <= Len(g)
  BY <1>7, <1>10
<1> HIDE DEF g
<1>13. \A m \in M : m <= Len(g)
  BY <1>2, <1>6, <1>11, <1>12
<1> QED
  BY <1>11, <1>13 DEF g, M

\* A path with the prefix before it has every ".." of the prefix's.
LEMMA UpsStay ==
  ASSUME NEW s \in Seq(Parts), NEW v \in Seq(Parts), NEW i \in 1 .. Len(Clean(s)), Clean(s)[i] = Up
  PROVE  i \in 1 .. Len(Clean(s \o v)) /\ Clean(s \o v)[i] = Up
<1> DEFINE T == {u \in Seq(Parts) : i \in 1 .. Len(Clean(s \o u)) /\ Clean(s \o u)[i] = Up}
<1>1. <<>> \in T
  BY ConcatEmptySeq, EmptySeq
<1>2. ASSUME NEW u \in Seq(Parts), u \in T, NEW x \in Parts
      PROVE  Append(u, x) \in T
  <2> DEFINE c == Clean(s \o u)
             d == Enter(c, x)
  <2>1. s \o u \in Seq(Parts)
    BY ConcatProperties
  <2>2. c \in Seq(Parts) /\ Len(c) \in Nat /\ i \in 1 .. Len(c) /\ c[i] = Up
    BY <1>2, <2>1, CleanType, LenProperties
  <2>3. Clean(s \o Append(u, x)) = d
    BY CleanConcatAppend
  <2> HIDE DEF c
  <2>4. i \in 1 .. Len(d) /\ d[i] = Up
    <3>1. CASE d = Append(c, x)
      BY <2>2, <3>1, AppendProperties
    <3>2. CASE d = Front(c) /\ c # <<>> /\ Last(c) # Up
      <4>1. /\ Len(Front(c)) = Len(c) - 1 /\ Last(c) = c[Len(c)]
            /\ \A j \in 1 .. Len(c) - 1 : Front(c)[j] = c[j]
        BY <2>2, <3>2, FrontProperties
      <4>2. i \in 1 .. Len(c) - 1
        BY <2>2, <3>2, <4>1
      <4> QED
        BY <2>2, <3>2, <4>1, <4>2
    <3> QED
      BY <2>2, <3>1, <3>2, EnterCases
  <2> HIDE DEF d
  <2> QED
    BY <2>3, <2>4, AppendProperties
<1> HIDE DEF T
<1>3. v \in T
  BY <1>1, <1>2, AppendInduction
<1> QED
  BY <1>3 DEF T

\* Up and up again, from names alone.
LEMMA UpAgain ==
  ASSUME NEW s \in Cleaned, NEW k \in 0 .. Len(s), \A i \in k + 1 .. Len(s) : s[i] # Up
  PROVE  /\ [i \in 1 .. Len(s) - k |-> Up] \in Seq(Parts)
         /\ Clean(s \o [i \in 1 .. Len(s) - k |-> Up]) = SubSeq(s, 1, k)
<1> DEFINE ups(j) == [i \in 1 .. j |-> Up]
           T == {j \in 0 .. Len(s) - k : Clean(s \o ups(j)) # SubSeq(s, 1, Len(s) - j)}
<1>1. s \in Seq(Parts) /\ Len(s) \in Nat /\ SubSeq(s, 1, Len(s)) = s /\ k \in Nat /\ k <= Len(s)
  BY PartsType, LenProperties, SubSeqFull
<1>2. \A j \in Nat : ups(j) \in Seq(Parts) /\ Len(ups(j)) = j
  BY PartsType
<1>3. \A j \in Nat : ups(j + 1) = Append(ups(j), Up)
  <2> SUFFICES ASSUME NEW j \in Nat PROVE ups(j + 1) = Append(ups(j), Up)
    OBVIOUS
  <2>1. ups(j) \in Seq(Parts) /\ Len(ups(j)) = j /\ ups(j + 1) \in Seq(Parts) /\ Len(ups(j + 1)) = j + 1
    <3>1. j + 1 \in Nat
      OBVIOUS
    <3> HIDE DEF ups
    <3> QED
      BY <1>2, <3>1
  <2>2. /\ Append(ups(j), Up) \in Seq(Parts) /\ Len(Append(ups(j), Up)) = j + 1
        /\ \A i \in 1 .. j + 1 : Append(ups(j), Up)[i] = Up
    BY <2>1, PartsType, AppendProperties
  <2>3. \A i \in 1 .. j + 1 : ups(j + 1)[i] = Append(ups(j), Up)[i]
    BY <2>2
  <2> HIDE DEF ups
  <2> QED
    BY <2>1, <2>2, <2>3, SeqEqual
<1>4. T = {}
  <2> SUFFICES ASSUME T # {} PROVE FALSE
    OBVIOUS
  <2>1. PICK j \in T : \A m \in T : j <= m
    <3>1. T \in SUBSET Nat
      BY <1>1
    <3> HIDE DEF T
    <3> QED
      BY <3>1, LeastNumber
  <2>2. j \in 0 .. Len(s) - k /\ Clean(s \o ups(j)) # SubSeq(s, 1, Len(s) - j)
    OBVIOUS
  <2>3. j # 0
    <3>1. Clean(s \o <<>>) = s
      BY <1>1, CleanOfCleaned, ConcatEmptySeq
    <3>2. ups(0) = <<>>
      BY <1>2, EmptySeq
    <3>3. SubSeq(s, 1, Len(s) - 0) = s
      BY <1>1
    <3> HIDE DEF ups
    <3> QED
      BY <2>2, <3>1, <3>2, <3>3
  <2> DEFINE m == j - 1
             b == SubSeq(s, 1, Len(s) - m)
  <2>4. m \in Nat /\ m \in 0 .. Len(s) - k /\ m \notin T /\ m + 1 = j
    <3>1. m \in Nat /\ m \in 0 .. Len(s) - k /\ m + 1 = j /\ ~ (j <= m)
      BY <1>1, <2>2, <2>3
    <3> HIDE DEF T, m
    <3> QED
      BY <2>1, <3>1
  <2>5. Clean(s \o ups(m)) = b
    BY <2>4
  <2>6. Clean(s \o ups(j)) = Enter(b, Up)
    <3>1. ups(j) = Append(ups(m), Up) /\ ups(m) \in Seq(Parts)
      BY <1>2, <1>3, <2>4
    <3> HIDE DEF ups, b, m
    <3> QED
      BY <1>1, <2>5, <3>1, CleanConcatAppend, PartsType
  <2>7. Len(s) - m \in k + 1 .. Len(s) /\ Len(s) - m - 1 = Len(s) - j /\ Len(s) - m \in 0 .. Len(s)
    BY <1>1, <2>2, <2>4
  <2>8. b \in Seq(Parts) /\ Len(b) = Len(s) - m /\ b[Len(s) - m] = s[Len(s) - m]
    BY <1>1, <2>7, SubSeqOfFirst
  <2>9. b # <<>> /\ Last(b) # Up
    <3>1. Len(s) - m # 0 /\ s[Len(s) - m] # Up
      BY <1>1, <2>7
    <3> HIDE DEF b, m
    <3>2. Len(b) # 0 /\ b[Len(b)] # Up
      BY <2>8, <3>1
    <3> QED
      BY <3>2, EmptySeq DEF Last
  <2>10. Front(b) = SubSeq(s, 1, Len(s) - j)
    <3>1. Front(b) = SubSeq(b, 1, Len(s) - j)
      BY <2>7, <2>8 DEF Front
    <3> DEFINE l == Len(s) - j
    <3>2. l \in 0 .. Len(s) /\ l \in 0 .. Len(b) /\ l <= Len(s) - m
      BY <1>1, <2>2, <2>7, <2>8
    <3>3. \A i \in 1 .. Len(s) - m : b[i] = s[i]
      BY <1>1, <2>7, SubSeqOfFirst
    <3> HIDE DEF l, b
    <3>4. /\ SubSeq(b, 1, l) \in Seq(Parts) /\ Len(SubSeq(b, 1, l)) = l
          /\ SubSeq(s, 1, l) \in Seq(Parts) /\ Len(SubSeq(s, 1, l)) = l
          /\ \A i \in 1 .. l : SubSeq(b, 1, l)[i] = b[i]
          /\ \A i \in 1 .. l : SubSeq(s, 1, l)[i] = s[i]
      BY <1>1, <2>8, <3>2, SubSeqOfFirst
    <3>5. \A i \in 1 .. l : SubSeq(b, 1, l)[i] = SubSeq(s, 1, l)[i]
      BY <1>1, <2>4, <3>2, <3>3, <3>4
    <3>6. SubSeq(b, 1, l) = SubSeq(s, 1, l)
      BY <3>4, <3>5, SeqEqual
    <3> QED
      BY <3>1, <3>6 DEF l
  <2> HIDE DEF b, ups
  <2> QED
    BY <2>2, <2>6, <2>9, <2>10 DEF Enter
<1>5. Len(s) - k \in 0 .. Len(s) - k /\ Len(s) - k \in Nat /\ Len(s) - (Len(s) - k) = k
  BY <1>1
<1>6. Clean(s \o ups(Len(s) - k)) = SubSeq(s, 1, Len(s) - (Len(s) - k))
  BY <1>4, <1>5
<1>7. ups(Len(s) - k) \in Seq(Parts)
  BY <1>2, <1>5
<1> QED
  BY <1>5, <1>6, <1>7

\* What a path that has the prefix is without it: under the prefix again, it is the path.
\* What only the prefix has is names, so that filepath.Rel does not fail.
THEOREM RelIsRight ==
  ASSUME NEW P \in Path, NEW p, NEW v \in Seq(Parts), Clean(p.parts) = Clean(P.parts \o v)
  PROVE  /\ Rel(P, p) \in Path
         /\ Clean(P.parts \o Rel(P, p).parts) = Clean(p.parts)
         /\ \A i \in Len(LongestCommonPrefix({Clean(P.parts), Clean(p.parts)})) + 1 .. Len(Clean(P.parts)) :
              Clean(P.parts)[i] # Up
<1> DEFINE s == P.parts
           b == Clean(s)
           t == Clean(p.parts)
           n == Len(LongestCommonPrefix({b, t}))
           ups  == [i \in 1 .. (Len(b) - n) |-> Up]
           rest == SubSeq(t, n + 1, Len(t))
<1>1. s \in Seq(Parts) /\ s \o v \in Seq(Parts)
  BY ConcatProperties DEF Path
<1>2. /\ b \in Cleaned /\ b \in Seq(Parts) /\ t \in Cleaned /\ t \in Seq(Parts)
      /\ Len(b) \in Nat /\ Len(t) \in Nat
  BY <1>1, CleanCleaned, CleanType, LenProperties
<1>3. n \in SharedLengths(b, t) /\ \A m \in SharedLengths(b, t) : m <= n
  BY <1>2, SharedIsLongest
<1>4. Rel(P, p) = [dot |-> FALSE, parts |-> ups \o rest]
  BY DEF Rel
<1>5. \A i \in 1 .. Len(b) : b[i] = Up => i \in 1 .. Len(t) /\ t[i] = Up
  BY <1>1, UpsStay
<1> HIDE DEF b, n, s
<1>6. n \in 0 .. Len(b) /\ n <= Len(t) /\ SubSeq(b, 1, n) = SubSeq(t, 1, n)
  BY <1>3 DEF SharedLengths
<1>7. ASSUME NEW i \in n + 1 .. Len(b), b[i] = Up
      PROVE  FALSE
  <2>1. i \in 1 .. Len(b) /\ i \in 1 .. Len(t) /\ i \in 0 .. Len(b) /\ i \in 0 .. Len(t)
    BY <1>2, <1>5, <1>6, <1>7
  <2>2. \A j \in 1 .. i : b[j] = Up
    BY <1>2, <1>7, <2>1 DEF Cleaned
  <2>3. \A j \in 1 .. i : b[j] = t[j]
    BY <1>2, <1>5, <2>1, <2>2
  <2>4. /\ SubSeq(b, 1, i) \in Seq(Parts) /\ Len(SubSeq(b, 1, i)) = i
        /\ SubSeq(t, 1, i) \in Seq(Parts) /\ Len(SubSeq(t, 1, i)) = i
        /\ \A j \in 1 .. i : SubSeq(b, 1, i)[j] = b[j]
        /\ \A j \in 1 .. i : SubSeq(t, 1, i)[j] = t[j]
    BY <1>2, <2>1, SubSeqOfFirst
  <2>5. SubSeq(b, 1, i) = SubSeq(t, 1, i)
    BY <2>3, <2>4, SeqEqual
  <2>6. i \in SharedLengths(b, t)
    BY <1>2, <2>1, <2>5 DEF SharedLengths
  <2>7. i <= n
    BY <1>3, <2>6
  <2> QED
    BY <1>2, <1>6, <2>7
<1>8. ups \in Seq(Parts) /\ Clean(b \o ups) = SubSeq(b, 1, n)
  BY <1>2, <1>6, <1>7, UpAgain
<1>9. rest \in Seq(Parts)
  <2>1. \A i \in n + 1 .. Len(t) : t[i] \in Parts
    BY <1>2, <1>6, ElementOfSeq
  <2>2. n + 1 \in Int /\ Len(t) \in Int
    BY <1>2, <1>6
  <2> HIDE DEF t
  <2> QED
    BY <2>1, <2>2, SubSeqProperties
<1>10. SubSeq(t, 1, n) \o rest = t
  <2>1. 1 \in 1 .. Len(t) + 1 /\ n \in 1 - 1 .. Len(t) /\ Len(t) \in n .. Len(t)
    BY <1>2, <1>6
  <2>2. SubSeq(t, 1, n) \o SubSeq(t, n + 1, Len(t)) = SubSeq(t, 1, Len(t))
    BY <1>2, <2>1, ConcatAdjacentSubSeq
  <2> QED
    BY <1>2, <2>2, SubSeqFull
<1> HIDE DEF ups, rest, t
<1>11. ups \o rest \in Seq(Parts) /\ b \o ups \in Seq(Parts)
  BY <1>2, <1>8, <1>9, ConcatProperties
<1>12. Clean(s \o (ups \o rest)) = t
  <2>1. Clean(s \o (ups \o rest)) = Clean(b \o (ups \o rest))
    BY <1>1, <1>11, CleanLeft DEF b
  <2>2. (b \o ups) \o rest = b \o (ups \o rest)
    <3>1. \A x, y, z \in Seq(Parts) : (x \o y) \o z = x \o (y \o z)
      BY ConcatAssociative
    <3> QED
      BY <1>2, <1>8, <1>9, <3>1, Zenon
  <2>3. Clean((b \o ups) \o rest) = Clean(Clean(b \o ups) \o rest)
    BY <1>9, <1>11, CleanLeft
  <2>4. Clean(b \o ups) \o rest = t
    BY <1>6, <1>8, <1>10
  <2>5. Clean(t) = t
    BY <1>2, CleanOfCleaned
  <2> QED
    BY <2>1, <2>2, <2>3, <2>4, <2>5
<1>13. Rel(P, p) \in Path
  BY <1>4, <1>11 DEF Path
<1>14. Clean(s \o Rel(P, p).parts) = t
  BY <1>4, <1>12
<1>15. \A i \in n + 1 .. Len(b) : b[i] # Up
  BY <1>7
<1> QED
  BY <1>13, <1>14, <1>15 DEF s, t, b, n

\* What a path is under a prefix, and what that is without the prefix: one file.
LEMMA PrefixedRight ==
  ASSUME NEW P \in Path, NEW v \in Path
  PROVE  /\ prefixPath(v, P) \in Path
         /\ Clean(prefixPath(v, P).parts) = Clean(P.parts \o v.parts)
         /\ P = DotPrefix => prefixPath(v, P).dot = TRUE
<1>1. P.parts \in Seq(Parts) /\ v.parts \in Seq(Parts) /\ P.parts \o v.parts \in Seq(Parts)
  BY ConcatProperties DEF Path
<1>2. CASE P = NoPrefix
  <2>1. prefixPath(v, P) = v /\ P.parts = <<>> /\ NoPrefix # DotPrefix
    BY <1>2 DEF prefixPath, NoPrefix, DotPrefix
  <2>2. P.parts \o v.parts = v.parts
    BY <1>1, <2>1, ConcatEmptySeq
  <2> QED
    BY <1>2, <2>1, <2>2
<1>3. CASE P = DotPrefix
  <2>1. prefixPath(v, P) = [v EXCEPT !.dot = TRUE] /\ P.parts = <<>>
    BY <1>3 DEF prefixPath, NoPrefix, DotPrefix
  <2>2. prefixPath(v, P) \in Path /\ prefixPath(v, P).parts = v.parts /\ prefixPath(v, P).dot = TRUE
    BY <2>1 DEF Path
  <2>3. P.parts \o v.parts = v.parts
    BY <1>1, <2>1, ConcatEmptySeq
  <2> QED
    BY <2>2, <2>3
<1>4. CASE P # NoPrefix /\ P # DotPrefix
  <2> DEFINE c == Clean(P.parts \o v.parts)
  <2>1. c \in Seq(Parts) /\ c \in Cleaned
    BY <1>1, CleanType, CleanCleaned
  <2>2. Clean(c) = c
    BY <2>1, CleanOfCleaned
  <2>3. prefixPath(v, P) = [dot |-> FALSE, parts |-> c]
    BY <1>4 DEF prefixPath
  <2> HIDE DEF c
  <2>4. prefixPath(v, P) \in Path /\ prefixPath(v, P).parts = c
    BY <2>1, <2>3 DEF Path
  <2> QED
    BY <1>4, <2>2, <2>4 DEF c
<1> QED
  BY <1>2, <1>3, <1>4

LEMMA TrimmedRight ==
  ASSUME NEW P \in Path, NEW v \in Path, NEW p, p = prefixPath(v, P)
  PROVE  /\ trimFilePathPrefix(p, P) \in Path
         /\ Clean(P.parts \o trimFilePathPrefix(p, P).parts) = Clean(P.parts \o v.parts)
<1>1. P.parts \in Seq(Parts) /\ v.parts \in Seq(Parts)
  BY DEF Path
<1>2. CASE P = NoPrefix
  <2>0. prefixPath(v, P) = v
    BY <1>2 DEF prefixPath, NoPrefix, DotPrefix
  <2>1. trimFilePathPrefix(p, P) = v
    BY <1>2, <2>0 DEF trimFilePathPrefix
  <2> QED
    BY <2>1
<1>3. CASE P # NoPrefix
  <2>1. trimFilePathPrefix(p, P) = Rel(P, p)
    BY <1>3 DEF trimFilePathPrefix
  <2>2. Clean(p.parts) = Clean(P.parts \o v.parts)
    BY PrefixedRight
  <2>3. Rel(P, p) \in Path /\ Clean(P.parts \o Rel(P, p).parts) = Clean(p.parts)
    BY <1>1, <2>2, RelIsRight
  <2> QED
    BY <2>1, <2>2, <2>3
<1> QED
  BY <1>2, <1>3

(***************************************************************************)
(* The request.                                                            *)
(***************************************************************************)

\* What a target, or an example, is under the prefix.
Prefixed == {prefixPath(v, prefix) : v \in Path}

RequestTypeInv ==
  /\ prefix \in LocationPrefixes
  /\ \E values \in Targets : targets = newRequestTargets(values, prefix)
  /\ pc \in {"choose", "filter", "examples", "done", "failed"}
  /\ asked \subseteq Path /\ listed \subseteq asked
  /\ selectors \subseteq Values(targets)
  /\ examples \subseteq Prefixed

\* Nothing is made up before it is decided on, and then all of it is asked for.
AllAskedInv ==
  /\ pc \in {"choose", "filter"} => asked = {} /\ selectors = {}
  /\ pc \in {"examples", "done"} =>
       {FileForServer(v) : v \in selectors} \cup {FileForServer(a) : a \in asked}
         = {FileForServer(v) : v \in Values(targets)}

\* Examples are of the files they were found in.
ExamplesInv ==
  /\ pc # "done" => examples = {} /\ listed = {}
  /\ {File(p) : p \in examples} = {FileForServer(f) : f \in listed}

\* With tags to filter by nothing is asked for as it is.
TagInv ==
  /\ pc = "filter" => ~ FilteredByTag
  /\ pc \in {"examples", "done"} /\ FilteredByTag => selectors = {}

RequestInv == RequestTypeInv /\ AllAskedInv /\ ExamplesInv /\ TagInv

\* What is asked for as it is is not asked for its examples.
OnceInv ==
  pc \in {"examples", "done"} =>
    \A v \in Values(targets) : v \in selectors <=> \A a \in asked : FileForServer(a) # FileForServer(v)


LEMMA PrefixType == prefix \in LocationPrefixes => prefix \in Path
BY RequestAssumption DEF RequestAssumption

LEMMA TargetsType ==
  ASSUME RequestTypeInv
  PROVE  \A i \in DOMAIN targets :
           /\ targets[i].value \in Path
           /\ targets[i].path = prefixPath(targets[i].value, prefix)
<1>1. PICK values \in Targets : targets = newRequestTargets(values, prefix)
  BY DEF RequestTypeInv
<1>2. values \in Seq(Path)
  BY RequestAssumption DEF RequestAssumption
<1>3. \A i \in DOMAIN values : values[i] \in Path
  BY <1>2, LenProperties, ElementOfSeq
<1> QED
  BY <1>1, <1>3 DEF newRequestTargets

LEMMA ValuesType ==
  ASSUME RequestTypeInv
  PROVE  /\ Values(targets) \subseteq Path
         /\ Paths(targets) = {prefixPath(v, prefix) : v \in Values(targets)}
<1>1. \A i \in DOMAIN targets :
        targets[i].value \in Path /\ targets[i].path = prefixPath(targets[i].value, prefix)
  BY TargetsType
<1>2. Values(targets) \subseteq Path
  BY <1>1 DEF Values
<1>3. Paths(targets) = {prefixPath(v, prefix) : v \in Values(targets)}
  BY <1>1 DEF Values, Paths
<1> QED
  BY <1>2, <1>3

\* The files of paths with the prefix taken off are the targets' whose paths they were.
LEMMA TrimmedFiles ==
  ASSUME RequestTypeInv, NEW vs \in SUBSET Values(targets), NEW ps,
         ps = {trimFilePathPrefix(p, prefix) : p \in {prefixPath(v, prefix) : v \in vs}}
  PROVE  /\ ps \subseteq Path
         /\ {FileForServer(a) : a \in ps} = {FileForServer(v) : v \in vs}
<1>1. prefix \in Path /\ vs \subseteq Path
  BY PrefixType, ValuesType DEF RequestTypeInv
<1>2. \A v \in vs : /\ trimFilePathPrefix(prefixPath(v, prefix), prefix) \in Path
                    /\ FileForServer(trimFilePathPrefix(prefixPath(v, prefix), prefix)) = FileForServer(v)
  BY <1>1, TrimmedRight DEF FileForServer
<1>3. ps = {trimFilePathPrefix(prefixPath(v, prefix), prefix) : v \in vs}
  OBVIOUS
<1> QED
  BY <1>2, <1>3

LEMMA RequestInit == Init => RequestInv /\ OnceInv
<1> SUFFICES ASSUME Init PROVE RequestInv /\ OnceInv
  OBVIOUS
<1>1. RequestTypeInv
  BY DEF Init, RequestTypeInv
<1>2. AllAskedInv /\ ExamplesInv /\ TagInv /\ OnceInv
  BY DEF Init, AllAskedInv, ExamplesInv, TagInv, OnceInv
<1> QED
  BY <1>1, <1>2 DEF RequestInv

\* No target list spells one file in two ways, where targets are sent as they are spelled.
OneSpelling ==
  LocationPrefixes \cap {NoPrefix, DotPrefix} # {} =>
  \A ts \in Targets : \A i, j \in DOMAIN ts :
    Clean(ts[i].parts) = Clean(ts[j].parts) => ts[i] = ts[j]

\* Files are as many as the paths the server knows them by.
LEMMA OnePath ==
  ASSUME RequestTypeInv, OneSpelling, NEW v \in Values(targets), NEW w \in Values(targets),
         FileForServer(v) = FileForServer(w)
  PROVE  prefixPath(v, prefix) = prefixPath(w, prefix)
<1>1. prefix \in Path /\ v \in Path /\ w \in Path
  BY PrefixType, ValuesType DEF RequestTypeInv
<1>2. CASE prefix = NoPrefix \/ prefix = DotPrefix
  <2>1. prefix.parts = <<>> /\ v.parts \in Seq(Parts) /\ w.parts \in Seq(Parts)
    BY <1>1, <1>2 DEF NoPrefix, DotPrefix, Path
  <2>2. prefix.parts \o v.parts = v.parts /\ prefix.parts \o w.parts = w.parts
    BY <2>1, ConcatEmptySeq
  <2>3. Clean(v.parts) = Clean(w.parts)
    BY <2>2 DEF FileForServer
  <2>4. PICK ts \in Targets : targets = newRequestTargets(ts, prefix)
    BY DEF RequestTypeInv
  <2>5. (\E i \in DOMAIN ts : v = ts[i]) /\ (\E i \in DOMAIN ts : w = ts[i])
    BY <2>4 DEF Values, newRequestTargets
  <2>6. v = w
    BY <1>2, <2>3, <2>5 DEF OneSpelling, RequestTypeInv
  <2> QED
    BY <2>6
<1>3. CASE prefix # NoPrefix /\ prefix # DotPrefix
  BY <1>3 DEF FileForServer, prefixPath
<1> QED
  BY <1>2, <1>3

\* What the server picked and what it did not: together the targets, and apart.
LEMMA FilteredRight ==
  ASSUME RequestTypeInv, NEW filtered \in SUBSET Paths(targets), NEW as,
         as = {trimFilePathPrefix(p, prefix) : p \in filtered}
  PROVE  /\ as \subseteq Path /\ Remaining(filtered) \subseteq Values(targets)
         /\ {FileForServer(v) : v \in Remaining(filtered)} \cup {FileForServer(a) : a \in as}
              = {FileForServer(v) : v \in Values(targets)}
         /\ OneSpelling =>
              \A v \in Values(targets) :
                v \in Remaining(filtered) <=> \A a \in as : FileForServer(a) # FileForServer(v)
<1> DEFINE vs == {v \in Values(targets) : prefixPath(v, prefix) \in filtered}
<1>1. filtered = {prefixPath(v, prefix) : v \in vs}
  BY ValuesType
<1>2. as \subseteq Path /\ {FileForServer(a) : a \in as} = {FileForServer(v) : v \in vs}
  <2>1. vs \in SUBSET Values(targets)
    OBVIOUS
  <2> HIDE DEF vs
  <2> QED
    BY <1>1, <2>1, TrimmedFiles
<1>3. Remaining(filtered) = Values(targets) \ vs
  BY TargetsType DEF Remaining, Values
<1>4. {FileForServer(v) : v \in Values(targets) \ vs} \cup {FileForServer(v) : v \in vs}
        = {FileForServer(v) : v \in Values(targets)}
  OBVIOUS
<1>5. ASSUME OneSpelling, NEW v \in Values(targets)
      PROVE  v \in Remaining(filtered) <=> \A a \in as : FileForServer(a) # FileForServer(v)
  <2>1. ASSUME NEW w \in vs, FileForServer(w) = FileForServer(v)
        PROVE  v \in vs
    <3>1. prefixPath(w, prefix) = prefixPath(v, prefix)
      BY <1>5, <2>1, OnePath
    <3> QED
      BY <3>1
  <2>2. v \in vs <=> \E a \in as : FileForServer(a) = FileForServer(v)
    BY <1>2, <2>1
  <2> QED
    BY <1>3, <2>2
<1> QED
  BY <1>2, <1>3, <1>4, <1>5

LEMMA EncodeAllRight ==
  ASSUME RequestInv, pc \in {"choose", "filter"}, ~ FilteredByTag, EncodeAll
  PROVE  RequestInv' /\ OnceInv'
<1>1. asked = {} /\ examples = {} /\ listed = {}
  BY DEF RequestInv, AllAskedInv, ExamplesInv
<1>2. /\ selectors' = Values(targets) /\ asked' = {} /\ examples' = {} /\ listed' = {} /\ pc' = "done"
      /\ targets' = targets /\ prefix' = prefix /\ features' = features /\ cfg' = cfg
  BY <1>1 DEF EncodeAll, inputs
<1>3. RequestTypeInv'
  BY <1>2 DEF RequestInv, RequestTypeInv, Values
<1>4. AllAskedInv' /\ ExamplesInv' /\ OnceInv'
  BY <1>2 DEF AllAskedInv, ExamplesInv, OnceInv, Values, FileForServer
<1>5. TagInv'
  BY <1>2 DEF TagInv, FilteredByTag
<1> QED
  BY <1>3, <1>4, <1>5 DEF RequestInv

LEMMA AskedRight ==
  ASSUME RequestInv, pc \in {"choose", "filter"}, NEW filtered \in SUBSET Paths(targets),
         asked' = {trimFilePathPrefix(p, prefix) : p \in filtered},
         selectors' = Remaining(filtered), pc' = "examples",
         FilteredByTag => Remaining(filtered) = {},
         UNCHANGED <<inputs, listed, examples>>
  PROVE  RequestInv' /\ (OneSpelling => OnceInv')
<1>0. RequestTypeInv /\ examples = {} /\ listed = {}
  BY DEF RequestInv, ExamplesInv
<1>1. /\ asked' \subseteq Path /\ selectors' \subseteq Values(targets)
      /\ {FileForServer(v) : v \in selectors'} \cup {FileForServer(a) : a \in asked'}
           = {FileForServer(v) : v \in Values(targets)}
      /\ OneSpelling =>
           \A v \in Values(targets) : v \in selectors' <=> \A a \in asked' : FileForServer(a) # FileForServer(v)
  <2> DEFINE as == {trimFilePathPrefix(p, prefix) : p \in filtered}
  <2>1. /\ as \subseteq Path /\ Remaining(filtered) \subseteq Values(targets)
        /\ {FileForServer(v) : v \in Remaining(filtered)} \cup {FileForServer(a) : a \in as}
             = {FileForServer(v) : v \in Values(targets)}
        /\ OneSpelling =>
             \A v \in Values(targets) :
               v \in Remaining(filtered) <=> \A a \in as : FileForServer(a) # FileForServer(v)
    BY <1>0, FilteredRight
  <2>2. asked' = as
    OBVIOUS
  <2> HIDE DEF as
  <2> QED
    BY <2>1, <2>2
<1>2. \A p : FileForServer(p)' = FileForServer(p)
  BY DEF FileForServer, inputs
<1>3. /\ Values(targets)' = Values(targets) /\ examples' = {} /\ listed' = {}
      /\ prefix' = prefix /\ targets' = targets /\ features' = features /\ cfg' = cfg
  BY <1>0 DEF Values, inputs
<1>4. RequestTypeInv'
  BY <1>0, <1>1, <1>3 DEF RequestTypeInv
<1>5. AllAskedInv' /\ ExamplesInv'
  BY <1>1, <1>3 DEF AllAskedInv, ExamplesInv, FileForServer
<1>6. OneSpelling => OnceInv'
  BY <1>1, <1>3 DEF OnceInv, FileForServer
<1>7. TagInv'
  BY <1>3 DEF TagInv, FilteredByTag
<1> QED
  BY <1>4, <1>5, <1>6, <1>7 DEF RequestInv

LEMMA GetExamplesRight ==
  ASSUME RequestInv, GetExamples
  PROVE  RequestTypeInv' /\ ExamplesInv'
<1>0. RequestTypeInv /\ prefix \in Path
  BY PrefixType DEF RequestInv, RequestTypeInv
<1> PICK dot \in BOOLEAN :
      examples' = {prefixPath([dot |-> dot, parts |-> Clean(f.parts)], prefix) : f \in listed'}
  BY DEF GetExamples
<1> DEFINE spelled(a) == [dot |-> dot, parts |-> Clean(a.parts)]
<1>1. /\ examples' = {prefixPath(spelled(a), prefix) : a \in listed'}
      /\ asked' = asked /\ asked \subseteq Path /\ listed' \subseteq asked /\ prefix' = prefix
      /\ targets' = targets /\ selectors' = selectors /\ pc' = "done"
  BY <1>0 DEF GetExamples, inputs, RequestTypeInv
<1>2. ASSUME NEW a \in listed'
      PROVE  spelled(a) \in Path /\ File(prefixPath(spelled(a), prefix)) = FileForServer(a)
  <2>1. a.parts \in Seq(Parts) /\ prefix.parts \in Seq(Parts)
    BY <1>0, <1>1 DEF Path
  <2>2. spelled(a) \in Path /\ spelled(a).parts = Clean(a.parts)
    BY <2>1, CleanType DEF Path
  <2> HIDE DEF spelled
  <2>3. File(prefixPath(spelled(a), prefix)) = Clean(prefix.parts \o Clean(a.parts))
    BY <1>0, <2>2, PrefixedRight DEF File
  <2>4. Clean(prefix.parts \o Clean(a.parts)) = FileForServer(a)
    BY <2>1, CleanRight DEF FileForServer
  <2> QED
    BY <2>2, <2>3, <2>4
<1> HIDE DEF spelled
<1>3. examples' \subseteq Prefixed'
  BY <1>1, <1>2 DEF Prefixed
<1>4. RequestTypeInv'
  BY <1>0, <1>1, <1>3 DEF RequestTypeInv, Values
<1>5. {File(p) : p \in examples'} = {FileForServer(a) : a \in listed'}
  <2> DEFINE es == {prefixPath(spelled(a), prefix) : a \in listed'}
  <2>1. {File(p) : p \in es} = {File(prefixPath(spelled(a), prefix)) : a \in listed'}
    OBVIOUS
  <2>2. {File(prefixPath(spelled(a), prefix)) : a \in listed'} = {FileForServer(a) : a \in listed'}
    BY <1>2
  <2>3. examples' = es
    BY <1>1
  <2> HIDE DEF es
  <2> QED
    BY <2>1, <2>2, <2>3
<1>6. ExamplesInv'
  BY <1>1, <1>5 DEF ExamplesInv, FileForServer, File
<1> QED
  BY <1>4, <1>6

LEMMA RequestStep ==
  ASSUME RequestInv, [Next]_vars
  PROVE  RequestInv' /\ (OneSpelling /\ OnceInv => OnceInv')
<1> USE DEF RequestInv
<1>1. CASE requestTestParams
  <2>0. pc = "choose" /\ asked = {} /\ selectors = {}
    BY <1>1 DEF requestTestParams, AllAskedInv
  <2>1. CASE /\ asked' = {trimFilePathPrefix(p, prefix) : p \in Paths(targets)}
             /\ pc' = "examples" /\ UNCHANGED <<inputs, listed, examples, selectors>>
    <3>1. Remaining(Paths(targets)) = {}
      BY DEF Remaining, Paths
    <3> QED
      BY <2>0, <2>1, <3>1, AskedRight DEF inputs
  <2>2. CASE ~ FilteredByTag /\ pc' = "filter" /\ UNCHANGED <<inputs, asked, listed, examples, selectors>>
    BY <2>0, <2>2 DEF inputs, RequestTypeInv, AllAskedInv, ExamplesInv, TagInv, FilteredByTag, OnceInv,
                      Prefixed, Values, File, FileForServer
  <2>3. CASE ~ FilteredByTag /\ EncodeAll
    BY <2>0, <2>3, EncodeAllRight
  <2> QED
    BY <1>1, <2>1, <2>2, <2>3 DEF requestTestParams
<1>2. CASE FilterTests
  <2>0. pc = "filter" /\ ~ FilteredByTag
    BY <1>2 DEF FilterTests, TagInv
  <2>1. CASE EncodeAll
    BY <2>0, <2>1, EncodeAllRight
  <2>2. CASE \E filtered \in SUBSET Paths(targets) :
               /\ asked' = {trimFilePathPrefix(p, prefix) : p \in filtered}
               /\ selectors' = Remaining(filtered)
               /\ pc' = "examples"
               /\ UNCHANGED <<inputs, listed, examples>>
    BY <2>0, <2>2, AskedRight DEF inputs
  <2> QED
    BY <1>2, <2>1, <2>2 DEF FilterTests
<1>3. CASE GetExamples
  <2>1. /\ pc = "examples" /\ pc' = "done" /\ asked' = asked /\ selectors' = selectors
        /\ prefix' = prefix /\ targets' = targets /\ features' = features /\ cfg' = cfg
    BY <1>3 DEF GetExamples, inputs
  <2>2. AllAskedInv' /\ TagInv' /\ (OnceInv => OnceInv')
    BY <2>1 DEF AllAskedInv, TagInv, FilteredByTag, OnceInv, Values, FileForServer
  <2> QED
    BY <1>3, <2>2, GetExamplesRight
<1>4. CASE Fail
  BY <1>4 DEF Fail, inputs, RequestTypeInv, AllAskedInv, ExamplesInv, TagInv, OnceInv, Prefixed, Values,
              File, FileForServer
<1>5. CASE UNCHANGED vars
  <2>1. RequestTypeInv'
    BY <1>5 DEF vars, inputs, RequestTypeInv, Prefixed, Values
  <2>2. AllAskedInv'
    BY <1>5 DEF vars, inputs, AllAskedInv, Values, FileForServer
  <2>3. ExamplesInv'
    BY <1>5 DEF vars, inputs, ExamplesInv, FileForServer, File
  <2>4. TagInv'
    BY <1>5 DEF vars, inputs, TagInv, FilteredByTag
  <2>5. OnceInv => OnceInv'
    BY <1>5 DEF vars, inputs, OnceInv, Values, FileForServer
  <2> QED
    BY <2>1, <2>2, <2>3, <2>4, <2>5
<1> QED
  BY <1>1, <1>2, <1>3, <1>4, <1>5 DEF Next

LEMMA RequestInvIsEnough ==
  /\ OnceInv => EveryTargetOnce
  /\ RequestInv => ExamplesAreTheServers
<1>1. OnceInv => EveryTargetOnce
  <2> SUFFICES ASSUME OnceInv, pc = "done", NEW i \in DOMAIN targets
               PROVE  targets[i].value \in selectors <=>
                        \A a \in asked : FileForServer(a) # FileForServer(targets[i].value)
    BY DEF EveryTargetOnce
  <2>1. targets[i].value \in Values(targets)
    BY DEF Values
  <2> QED
    BY <2>1 DEF OnceInv
<1>2. RequestInv => ExamplesAreTheServers
  <2> SUFFICES ASSUME RequestInv PROVE ExamplesAreTheServers
    OBVIOUS
  <2>1. {File(p) : p \in examples} = {FileForServer(f) : f \in listed}
    BY DEF RequestInv, ExamplesInv
  <2>2. ASSUME prefix = DotPrefix, NEW p \in examples
        PROVE  p \in [dot : {TRUE}, parts : {q.parts : q \in examples}]
    <3>1. PICK v \in Path : p = prefixPath(v, prefix)
      BY DEF RequestInv, RequestTypeInv, Prefixed
    <3>2. p \in Path /\ p.dot = TRUE
      BY <2>2, <3>1, PrefixType, PrefixedRight DEF RequestInv, RequestTypeInv
    <3> QED
      BY <3>2 DEF Path
  <2> QED
    BY <2>1, <2>2 DEF ExamplesAreTheServers
<1> QED
  BY <1>1, <1>2

-----------------------------------------------------------------------------
(***************************************************************************)
(* The plan.                                                               *)
(***************************************************************************)

\* Making a plan makes one request: every step of it is a step of createRequestParam's, or
\* leaves the request alone.
THEOREM PlanMakesOneRequest == PlanSpec => Spec
<1>1. PlanInit => Init
  BY DEF PlanInit
<1>2. [PlanNext]_<<vars, gitVars, planVars>> => [Next]_vars
  BY DEF PlanNext, KeepMetadata, CollectMetadata, MakeRequest, ReceivePlan, FallBack, trimTaskLocationPrefix
<1> QED
  BY <1>1, <1>2, PTL DEF PlanSpec, Spec

\* And it collects metadata once: every step of it is a step of autoCollectGitMetadata's, which
\* may return early, or leaves the metadata alone.
THEOREM PlanCollectsMetadataOnce == PlanSpec => Metadata!Spec
<1>1. PlanInit => Metadata!Init
  BY DEF PlanInit
<1>2. KeepMetadata => Metadata!Next
  BY DEF KeepMetadata, Metadata!Next, Metadata!autoCollectGitMetadata, Metadata!environment
<1>3. [PlanNext]_<<vars, gitVars, planVars>> => [Metadata!Next]_(Metadata!vars)
  BY <1>2 DEF PlanNext, CollectMetadata, MakeRequest, ReceivePlan, FallBack, trimTaskLocationPrefix,
              gitVars, Metadata!vars, Metadata!environment
<1> QED
  BY <1>1, <1>3, PTL DEF PlanSpec, Metadata!Spec

\* Whatever runs a case, this is the file that it is of.
CaseFile(case) ==
  IF case.format = "selector" THEN FileForServer(case.value)
  ELSE IF planPc = "received" /\ ~ fallback THEN File(case.path)
  ELSE FileForServer(case.path)

Cases == [format : {"selector", "file", "example", ""}, value : Path, path : Path]

TaskInv ==
  /\ planPc \in {"none", "received", "run"}
  /\ planPc = "none" => ~ fallback
  /\ planPc = "received" =>
       /\ task \subseteq Cases
       /\ ~ fallback => \A case \in task : case.format # "selector" => case.path \in Prefixed
       /\ AreFound({CaseFile(case) : case \in task})

\* What files are found, and dropped, is settled with the request and the plan.
LEMMA FoundStays ==
  ASSUME UNCHANGED <<vars, fallback, leftOut>>, NEW files, AreFound(files)
  PROVE  AreFound(files)'
BY DEF AreFound, Dropped, Files, FileForServer, FilteredByTag, Values, vars, inputs

LEMMA PlanReceived ==
  ASSUME RequestInv, TaskInv, ReceivePlan
  PROVE  TaskInv'
<1>0. RequestTypeInv /\ prefix \in Path /\ pc = "done" /\ selectors \subseteq Path /\ NoPrefix \in Path
  BY PrefixType, ValuesType, EmptySeq DEF RequestInv, RequestTypeInv, ReceivePlan, NoPrefix, Path
<1> PICK asSelectors \in SUBSET selectors, asFiles \in SUBSET selectors, asExamples \in SUBSET examples :
      /\ task' = {Case("selector", v, NoPrefix) : v \in asSelectors}
                 \cup {Case("file", NoPrefix, prefixPath(v, prefix)) : v \in asFiles}
                 \cup {Case("example", NoPrefix, p) : p \in asExamples}
      /\ leftOut' = {FileForServer(v) : v \in selectors \ (asSelectors \cup asFiles)}
                    \cup {File(p) : p \in examples \ asExamples}
  BY DEF ReceivePlan
<1> DEFINE ss == {Case("selector", v, NoPrefix) : v \in asSelectors}
           fs == {Case("file", NoPrefix, prefixPath(v, prefix)) : v \in asFiles}
           es == {Case("example", NoPrefix, p) : p \in asExamples}
<1>1. /\ task' = ss \cup fs \cup es /\ planPc' = "received" /\ ~ fallback'
      /\ UNCHANGED <<targets, prefix, asked, listed, features, cfg>>
  BY DEF ReceivePlan, TaskInv, vars, inputs
<1>2. \A p : FileForServer(p)' = FileForServer(p)
  BY <1>1 DEF FileForServer
<1>3. ASSUME NEW v \in selectors
      PROVE  /\ Case("selector", v, NoPrefix) \in Cases
             /\ CaseFile(Case("selector", v, NoPrefix))' = FileForServer(v)
  BY <1>0, <1>2 DEF Case, Cases, CaseFile
<1>4. ASSUME NEW v \in selectors, NEW case, case = Case("file", NoPrefix, prefixPath(v, prefix))
      PROVE  case \in Cases /\ CaseFile(case)' = FileForServer(v)
  <2>1. prefixPath(v, prefix) \in Path /\ File(prefixPath(v, prefix)) = FileForServer(v)
    BY <1>0, PrefixedRight DEF File, FileForServer
  <2>2. case.format = "file" /\ case.path = prefixPath(v, prefix) /\ case \in Cases
    BY <1>0, <1>4, <2>1 DEF Case, Cases
  <2>3. CaseFile(case)' = File(case.path)
    BY <1>1, <2>2 DEF CaseFile, File
  <2> QED
    BY <2>1, <2>2, <2>3
<1>5. ASSUME NEW p \in examples
      PROVE  /\ p \in Prefixed /\ Case("example", NoPrefix, p) \in Cases
             /\ CaseFile(Case("example", NoPrefix, p))' = File(p)
  <2>1. p \in Prefixed /\ p \in Path
    BY <1>0, PrefixedRight DEF RequestTypeInv, Prefixed
  <2> QED
    BY <1>0, <1>1, <2>1 DEF Case, Cases, CaseFile, File
<1>6. task' \subseteq Cases
  BY <1>1, <1>3, <1>4, <1>5
<1>7. \A case \in task' : case.format # "selector" => case.path \in Prefixed'
  <2>1. \A case \in ss : case.format = "selector"
    BY DEF Case
  <2>2. \A case \in fs : case.path \in Prefixed
    BY <1>0 DEF Case, Prefixed
  <2>3. \A case \in es : case.path \in Prefixed
    BY <1>5 DEF Case
  <2>4. Prefixed' = Prefixed
    BY <1>1 DEF Prefixed
  <2> HIDE DEF ss, fs, es
  <2> QED
    BY <1>1, <2>1, <2>2, <2>3, <2>4
<1>8. {CaseFile(case)' : case \in task'}
        = Files(asSelectors) \cup Files(asFiles) \cup {File(p) : p \in asExamples}
  <2>1. {CaseFile(case)' : case \in ss} = Files(asSelectors)
    BY <1>3 DEF Files
  <2>2. {CaseFile(case)' : case \in fs} = Files(asFiles)
    <3>1. \A v \in asFiles : \A case :
            case = Case("file", NoPrefix, prefixPath(v, prefix)) => CaseFile(case)' = FileForServer(v)
      BY <1>4
    <3> QED
      BY <3>1 DEF Files
  <2>3. {CaseFile(case)' : case \in es} = {File(p) : p \in asExamples}
    BY <1>5
  <2> HIDE DEF ss, fs, es
  <2>4. {CaseFile(case)' : case \in task'}
          = {CaseFile(case)' : case \in ss} \cup {CaseFile(case)' : case \in fs} \cup {CaseFile(case)' : case \in es}
    BY <1>1
  <2> QED
    BY <2>1, <2>2, <2>3, <2>4
<1>9. /\ {CaseFile(case)' : case \in task'} \subseteq Files(Values(targets))
      /\ Files(Values(targets)) \subseteq {CaseFile(case)' : case \in task'} \cup Files(asked \ listed) \cup leftOut'
      /\ FilteredByTag => {CaseFile(case)' : case \in task'} \subseteq Files(listed)
  <2> DEFINE plan == {CaseFile(case)' : case \in task'}
  <2>1. {File(p) : p \in examples} = Files(listed) /\ listed \subseteq asked
    BY <1>0 DEF RequestInv, ExamplesInv, RequestTypeInv, Files
  <2>2. Files(selectors) \cup Files(asked) = Files(Values(targets))
    BY <1>0 DEF RequestInv, AllAskedInv, Files
  <2>3. leftOut' = Files(selectors \ (asSelectors \cup asFiles)) \cup {File(p) : p \in examples \ asExamples}
    BY DEF Files
  <2>4. Files(asSelectors) \cup Files(asFiles) \cup Files(selectors \ (asSelectors \cup asFiles)) = Files(selectors)
    BY DEF Files
  <2>5. {File(p) : p \in asExamples} \cup {File(p) : p \in examples \ asExamples} = {File(p) : p \in examples}
    OBVIOUS
  <2>6. Files(asked) = Files(listed) \cup Files(asked \ listed)
    BY <2>1 DEF Files
  <2>7. FilteredByTag => Files(asSelectors) = {} /\ Files(asFiles) = {}
    BY <1>0 DEF RequestInv, TagInv, Files
  <2>8. plan = Files(asSelectors) \cup Files(asFiles) \cup {File(p) : p \in asExamples}
    BY <1>8
  <2> HIDE DEF plan
  <2>9. /\ plan \subseteq Files(Values(targets))
        /\ Files(Values(targets)) \subseteq plan \cup Files(asked \ listed) \cup leftOut'
    BY <2>1, <2>2, <2>3, <2>4, <2>5, <2>6, <2>8
  <2>10. FilteredByTag => plan \subseteq Files(listed)
    BY <2>1, <2>5, <2>7, <2>8
  <2> QED
    BY <2>9, <2>10 DEF plan
<1>10. AreFound({CaseFile(case) : case \in task})'
  <2>2. Files(Values(targets))' = Files(Values(targets)) /\ Files(asked \ listed)' = Files(asked \ listed)
    BY <1>1 DEF Values, Files, FileForServer
  <2>3. Files(listed)' = Files(listed) /\ FilteredByTag' = FilteredByTag
    BY <1>1 DEF Files, FileForServer, FilteredByTag
  <2>4. Dropped' = Files(asked \ listed) \cup leftOut'
    BY <1>1, <2>2 DEF Dropped
  <2> QED
    BY <1>9, <2>2, <2>3, <2>4 DEF AreFound
<1> HIDE DEF ss, fs, es
<1> QED
  BY <1>1, <1>2, <1>6, <1>7, <1>10 DEF TaskInv

LEMMA FellBack ==
  ASSUME RequestInv, TaskInv, FallBack
  PROVE  TaskInv'
<1> DEFINE vs == Values(targets)
<1>1. /\ task' = {Case("", NoPrefix, v) : v \in vs} /\ planPc' = "received" /\ fallback' = TRUE
      /\ targets' = targets /\ prefix' = prefix
  BY DEF FallBack, vars, inputs
<1>2. vs \subseteq Path /\ NoPrefix \in Path
  BY ValuesType, EmptySeq DEF RequestInv, NoPrefix, Path
<1>3. vs' = vs
  BY <1>1 DEF Values
<1> HIDE DEF vs
<1>4. \A v \in vs : Case("", NoPrefix, v) \in Cases /\ CaseFile(Case("", NoPrefix, v))' = FileForServer(v)
  BY <1>1, <1>2 DEF Case, Cases, CaseFile, FileForServer
<1>5. task' \subseteq Cases
  BY <1>1, <1>4
<1>6. {CaseFile(case)' : case \in task'} = {FileForServer(v) : v \in vs}
  BY <1>1, <1>4
<1>7. Files(Values(targets))' = {FileForServer(v) : v \in vs}
  BY <1>1, <1>3 DEF Files, FileForServer, vs
<1>8. AreFound({CaseFile(case) : case \in task})'
  BY <1>1, <1>6, <1>7 DEF AreFound
<1> QED
  BY <1>1, <1>5, <1>8 DEF TaskInv

LEMMA TrimmedTask ==
  ASSUME RequestInv, TaskInv, trimTaskLocationPrefix
  PROVE  RunsWhatWasFound'
<1> DEFINE run(case) == IF case.format = "selector" THEN case.value ELSE case.path
<1>0. /\ prefix \in Path /\ planPc = "received" /\ planPc' = "run"
      /\ task' = IF prefix = NoPrefix \/ fallback THEN task ELSE {Trimmed(case) : case \in task}
      /\ UNCHANGED <<vars, fallback, leftOut>> /\ prefix' = prefix
  BY PrefixType DEF RequestInv, RequestTypeInv, trimTaskLocationPrefix, vars, inputs
<1>1. /\ task \subseteq Cases
      /\ ~ fallback => \A case \in task : case.format # "selector" => case.path \in Prefixed
      /\ AreFound({CaseFile(case) : case \in task})
  BY <1>0 DEF TaskInv
<1>2. ASSUME {FileForServer(p) : p \in {run(case) : case \in task'}} = {CaseFile(case) : case \in task}
      PROVE  RunsWhatWasFound'
  <2>1. pathsFromTestCases' = {run(case) : case \in task'}
    BY DEF pathsFromTestCases
  <2>2. \A p : FileForServer(p)' = FileForServer(p)
    BY <1>0 DEF FileForServer
  <2> HIDE DEF run
  <2> PICK files : files = {CaseFile(case) : case \in task}
    OBVIOUS
  <2>3. Files(pathsFromTestCases)' = files
    BY <1>2, <2>1, <2>2 DEF Files
  <2>4. AreFound(files)'
    BY <1>0, <1>1, FoundStays
  <2>5. AreFound(files)' => AreFound(Files(pathsFromTestCases))'
    BY <2>3
  <2> QED
    BY <2>4, <2>5 DEF RunsWhatWasFound
<1>3. CASE prefix = NoPrefix \/ fallback
  <2>1. ASSUME NEW case \in task
        PROVE  FileForServer(run(case)) = CaseFile(case)
    <3>1. CASE prefix = NoPrefix
      <4>1. prefix.parts = <<>> /\ case.path.parts \in Seq(Parts)
        BY <1>1, <3>1 DEF NoPrefix, Cases, Path
      <4>2. prefix.parts \o case.path.parts = case.path.parts
        BY <4>1, ConcatEmptySeq
      <4>3. File(case.path) = FileForServer(case.path)
        BY <4>2 DEF File, FileForServer
      <4> QED
        BY <4>3 DEF CaseFile
    <3>2. CASE fallback
      BY <3>2 DEF CaseFile
    <3> QED
      BY <1>3, <3>1, <3>2
  <2>2. {FileForServer(run(case)) : case \in task} = {CaseFile(case) : case \in task}
    BY <2>1
  <2>3. {FileForServer(p) : p \in {run(case) : case \in task}} = {FileForServer(run(case)) : case \in task}
    OBVIOUS
  <2>4. task' = task
    BY <1>0, <1>3
  <2> HIDE DEF run
  <2> QED
    BY <1>1, <1>2, <2>2, <2>3, <2>4
<1>4. CASE prefix # NoPrefix /\ ~ fallback
  <2>1. ASSUME NEW case \in task
        PROVE  FileForServer(run(Trimmed(case))) = CaseFile(case)
    <3>1. CASE case.format = "selector"
      BY <3>1 DEF Trimmed, CaseFile
    <3>2. CASE case.format # "selector"
      <4> DEFINE p == case.path
      <4>1. PICK v \in Path : p = prefixPath(v, prefix)
        BY <1>1, <1>4, <3>2 DEF Prefixed
      <4>2. Trimmed(case).format = case.format /\ Trimmed(case).path = trimFilePathPrefix(p, prefix)
        BY <1>1, <3>2 DEF Trimmed, Cases
      <4>3. FileForServer(trimFilePathPrefix(p, prefix)) = FileForServer(v)
        BY <1>0, <4>1, TrimmedRight DEF FileForServer
      <4>4. File(p) = FileForServer(v)
        BY <1>0, <4>1, PrefixedRight DEF File, FileForServer
      <4> QED
        BY <1>0, <1>4, <3>2, <4>2, <4>3, <4>4 DEF CaseFile
    <3> QED
      BY <3>1, <3>2
  <2> DEFINE trimmed == {Trimmed(case) : case \in task}
  <2>2. {FileForServer(run(Trimmed(case))) : case \in task} = {CaseFile(case) : case \in task}
    BY <2>1
  <2>3. {run(case) : case \in trimmed} = {run(Trimmed(case)) : case \in task}
    OBVIOUS
  <2>4. {FileForServer(p) : p \in {run(Trimmed(case)) : case \in task}}
          = {FileForServer(run(Trimmed(case))) : case \in task}
    OBVIOUS
  <2>5. task' = trimmed
    BY <1>0, <1>4
  <2> HIDE DEF run, trimmed
  <2> QED
    BY <1>1, <1>2, <2>2, <2>3, <2>4, <2>5
<1> QED
  BY <1>3, <1>4

LEMMA TaskStep ==
  ASSUME RequestInv, TaskInv, RunsWhatWasFound, [PlanNext]_<<vars, gitVars, planVars>>
  PROVE  TaskInv' /\ RunsWhatWasFound'
<1>1. CASE planPc = "none" /\ UNCHANGED planVars
  BY <1>1 DEF planVars, TaskInv, RunsWhatWasFound
<1>2. CASE UNCHANGED <<vars, planVars>>
  <2>1. TaskInv'
    <3>1. \A case : CaseFile(case)' = CaseFile(case)
      BY <1>2 DEF CaseFile, File, FileForServer, planVars, vars, inputs
    <3>2. Prefixed' = Prefixed /\ task' = task
      BY <1>2 DEF Prefixed, planVars, vars, inputs
    <3> PICK files : files = {CaseFile(case) : case \in task}
      OBVIOUS
    <3>3. {CaseFile(case) : case \in task}' = files
      BY <3>1, <3>2
    <3>4. AreFound(files) => AreFound(files)'
      BY <1>2, FoundStays DEF planVars
    <3>5. AreFound(files)' => AreFound({CaseFile(case) : case \in task})'
      BY <3>3
    <3> QED
      BY <1>2, <3>2, <3>4, <3>5 DEF planVars, TaskInv
  <2>2. RunsWhatWasFound'
    <3>1. \A p : FileForServer(p)' = FileForServer(p)
      BY <1>2 DEF FileForServer, vars, inputs
    <3>2. pathsFromTestCases' = pathsFromTestCases
      BY <1>2 DEF pathsFromTestCases, planVars
    <3> PICK files : files = Files(pathsFromTestCases)
      OBVIOUS
    <3>3. Files(pathsFromTestCases)' = files
      BY <3>1, <3>2 DEF Files
    <3>4. AreFound(files) => AreFound(files)'
      BY <1>2, FoundStays DEF planVars
    <3>5. AreFound(files)' => AreFound(Files(pathsFromTestCases))'
      BY <3>3
    <3> QED
      BY <1>2, <3>4, <3>5 DEF planVars, RunsWhatWasFound
  <2> QED
    BY <2>1, <2>2
<1>3. CASE MakeRequest
  BY <1>1, <1>3 DEF MakeRequest
<1>4. CASE ReceivePlan
  BY <1>4, PlanReceived DEF ReceivePlan, RunsWhatWasFound
<1>5. CASE FallBack
  BY <1>5, FellBack DEF FallBack, RunsWhatWasFound
<1>6. CASE trimTaskLocationPrefix
  BY <1>6, TrimmedTask DEF trimTaskLocationPrefix, TaskInv
<1>7. CASE KeepMetadata \/ CollectMetadata \/ UNCHANGED <<vars, gitVars, planVars>>
  <2>1. UNCHANGED <<vars, planVars>>
    BY <1>7 DEF KeepMetadata, CollectMetadata, vars, planVars
  <2> QED
    BY <1>2, <2>1
<1> QED
  BY <1>3, <1>4, <1>5, <1>6, <1>7 DEF PlanNext

\* createRequestParam asks for every target once, as a selector or for its examples, if no
\* target list spells a file in two ways: with a location prefix that is not "./" even then,
\* for the server knows files by cleaned paths.
THEOREM EveryTargetIsAskedForOnce ==
  ASSUME OneSpelling
  PROVE  (Spec => []EveryTargetOnce) /\ (PlanSpec => []EveryTargetOnce)
<1>1. Init => RequestInv /\ OnceInv
  BY RequestInit
<1>2. RequestInv /\ OnceInv /\ [Next]_vars => (RequestInv /\ OnceInv)'
  BY RequestStep
<1>3. OnceInv => EveryTargetOnce
  BY RequestInvIsEnough
<1>4. Spec => []EveryTargetOnce
  BY <1>1, <1>2, <1>3, PTL DEF Spec
<1> QED
  BY <1>4, PlanMakesOneRequest, PTL

\* Every target is asked for, whatever its spelling, and nothing else is; the examples are of
\* the files they were found in; and with tags to filter by nothing is asked for without its
\* examples: the inductive invariant of a request.
THEOREM EveryTargetIsAskedFor == (Spec => []RequestInv) /\ (PlanSpec => []RequestInv)
<1>1. Init => RequestInv
  BY RequestInit
<1>2. RequestInv /\ [Next]_vars => RequestInv'
  BY RequestStep
<1>3. Spec => []RequestInv
  BY <1>1, <1>2, PTL DEF Spec
<1> QED
  BY <1>3, PlanMakesOneRequest, PTL

\* The examples of a request are of the files the runner found them in, under paths the server
\* knows: the prefix goes on what the runner lists, however that is spelled.
THEOREM ExamplesAreOfTheServersFiles ==
  (Spec => []ExamplesAreTheServers) /\ (PlanSpec => []ExamplesAreTheServers)
<1>1. RequestInv => ExamplesAreTheServers
  BY RequestInvIsEnough
<1> QED
  BY <1>1, EveryTargetIsAskedFor, PTL

\* The jobs run files that were found, and all of them but those without examples and those the
\* server leaves out, for all targets, location prefixes and answers of the server: what is put
\* before a path for the server is off again before it is run.
THEOREM FilesFoundAreRun == PlanSpec => []RunsWhatWasFound
<1>1. PlanInit => TaskInv /\ RunsWhatWasFound
  BY DEF PlanInit, TaskInv, RunsWhatWasFound
<1>2. /\ RequestInv /\ TaskInv /\ RunsWhatWasFound
      /\ [PlanNext]_<<vars, gitVars, planVars>>
      => (TaskInv /\ RunsWhatWasFound)'
  BY TaskStep
<1> QED
  BY <1>1, <1>2, EveryTargetIsAskedFor, PTL DEF PlanSpec

-----------------------------------------------------------------------------
(***************************************************************************)
(* The metadata.                                                           *)
(***************************************************************************)

MetadataTypeInv ==
  /\ <<>> \notin refs
  /\ isNil => user = Metadata!NoMetadata
  /\ gitPc # "done" => sent = Metadata!NoMetadata
  /\ gitPc \in {"repository", "commit"} => metadata = Metadata!NoMetadata
  /\ gitPc \in {"commit", "diff", "context", "merge"} =>
       baseBranch = Metadata!ResolveBaseBranch(Metadata!Explicit)

\* No empty value, and no diff but of a base branch that is there.
CollectedInv ==
  /\ \A k \in DOMAIN metadata : metadata[k] # Metadata!Empty
  /\ \A k \in DOMAIN metadata \cap Metadata!DiffKeys : metadata[k] = baseBranch /\ baseBranch \in refs
  /\ gitPc = "merge" /\ baseBranch # Metadata!Empty => "base_branch" \in DOMAIN metadata

LEMMA NoKeys == DOMAIN Metadata!NoMetadata = {} /\ Metadata!NoMetadata = Metadata!Empty /\ Metadata!Empty = <<>>
BY EmptySeq, LenProperties DEF Metadata!NoMetadata, Metadata!Empty

\* A map that has all of src but its empty values, and the rest of dst.
IsMerged(map, dst, src) ==
  /\ DOMAIN map = DOMAIN dst \cup {k \in DOMAIN src : src[k] # Metadata!Empty}
  /\ \A k \in DOMAIN map :
       \/ k \in DOMAIN src /\ src[k] # Metadata!Empty /\ map[k] = src[k]
       \/ k \in DOMAIN dst /\ map[k] = dst[k]

LEMMA MergedRight ==
  ASSUME NEW dst, NEW src
  PROVE  IsMerged(Metadata!mergeNonEmpty(dst, src), dst, src)
BY DEF IsMerged, Metadata!mergeNonEmpty, Metadata!Over, Metadata!NonEmpty

\* The user's map is not overwritten.
LEMMA MergeMetadataRight ==
  ASSUME NEW existing, NEW auto, isNil => DOMAIN existing = {},
         \A k \in DOMAIN auto : auto[k] # Metadata!Empty
  PROVE  /\ DOMAIN Metadata!MergeMetadata(existing, auto) = DOMAIN existing \cup DOMAIN auto
         /\ \A k \in DOMAIN existing : Metadata!MergeMetadata(existing, auto)[k] = existing[k]
         /\ \A k \in DOMAIN auto \ DOMAIN existing : Metadata!MergeMetadata(existing, auto)[k] = auto[k]
BY DEF Metadata!MergeMetadata, Metadata!Over, Metadata!NonEmpty

\* A base branch that can be found as it was given, or under the remote, is the one taken.
LEMMA ResolvedAsGiven ==
  ASSUME NEW explicit, Metadata!ResolveBaseBranch(explicit) # Metadata!Empty,
         Metadata!Probe(explicit) # Metadata!Empty
  PROVE  Metadata!ResolveBaseBranch(explicit) = Metadata!Probe(explicit)
<1> DEFINE x == Metadata!Probe(explicit)
           ways  == <<x, Metadata!Probe(prBase), Metadata!DetectDefaultBranch>>
           found == {i \in DOMAIN ways : ways[i] # Metadata!Empty}
<1>1. Metadata!ResolveBaseBranch(explicit) = ways[CHOOSE i \in found : \A j \in found : i <= j]
  BY DEF Metadata!ResolveBaseBranch
<1>2. DOMAIN ways = 1 .. 3 /\ ways[1] = x
  OBVIOUS
<1> HIDE DEF ways, x
<1>3. 1 \in found /\ \A j \in found : 1 <= j /\ j \in Nat
  BY <1>2 DEF x
<1> HIDE DEF found
<1>4. (CHOOSE i \in found : \A j \in found : i <= j) = 1
  BY <1>3
<1> QED
  BY <1>1, <1>2, <1>4 DEF x

LEMMA BaseIsAsGiven ==
  ASSUME MetadataTypeInv, baseBranch = Metadata!ResolveBaseBranch(Metadata!Explicit), baseBranch # Metadata!Empty
  PROVE  /\ Metadata!Explicit \in refs => baseBranch = Metadata!Explicit
         /\ /\ Metadata!Explicit # Metadata!Empty /\ Metadata!Explicit \notin refs
            /\ Metadata!Under(Metadata!Explicit) \in refs
            => baseBranch = Metadata!Under(Metadata!Explicit)
<1> DEFINE e == Metadata!Explicit
<1>1. Metadata!Empty \notin refs
  BY NoKeys DEF MetadataTypeInv
<1> HIDE DEF e
<1>2. ASSUME e \in refs
      PROVE  baseBranch = e
  <2>1. Metadata!Probe(e) = e /\ e # Metadata!Empty
    BY <1>1, <1>2 DEF Metadata!Probe
  <2> QED
    BY <2>1, ResolvedAsGiven DEF e
<1>3. ASSUME e # Metadata!Empty, e \notin refs, Metadata!Under(e) \in refs
      PROVE  baseBranch = Metadata!Under(e)
  <2>1. Metadata!Probe(e) = Metadata!Under(e) /\ Metadata!Under(e) # Metadata!Empty
    BY <1>1, <1>3 DEF Metadata!Probe, Metadata!ProbeUnderRemote
  <2> QED
    BY <2>1, ResolvedAsGiven DEF e
<1> QED
  BY <1>2, <1>3 DEF e

LEMMA MetadataInit == Metadata!Init => MetadataTypeInv /\ CollectedInv /\ MetadataInv
<1> SUFFICES ASSUME Metadata!Init PROVE MetadataTypeInv /\ CollectedInv /\ MetadataInv
  OBVIOUS
<1>1. metadata = Metadata!NoMetadata /\ sent = Metadata!NoMetadata /\ gitPc = "repository"
  BY DEF Metadata!Init
<1>2. MetadataTypeInv
  BY <1>1, PlanRequestAssumption DEF Metadata!Init, MetadataTypeInv, Metadata!PlanMetadataAssumption
<1>3. CollectedInv
  BY <1>1, NoKeys DEF CollectedInv
<1>4. MetadataInv
  BY <1>1, NoKeys DEF MetadataInv, Metadata!MergeIsFaithful, Metadata!ExplicitBaseIsDiffed,
                      Metadata!DiffsSent, Metadata!Collected
<1> QED
  BY <1>2, <1>3, <1>4

\* What is collected does not touch what the user has, nor what is sent.
LEMMA StillCollecting ==
  ASSUME MetadataTypeInv, gitPc \in {"commit", "diff", "context"}, gitPc' \in {"diff", "context", "merge"},
         UNCHANGED <<Metadata!environment, baseBranch, sent>>
  PROVE  MetadataTypeInv' /\ MetadataInv'
<1>1. /\ sent = Metadata!NoMetadata /\ sent' = sent
      /\ baseBranch = Metadata!ResolveBaseBranch(Metadata!Explicit) /\ baseBranch' = baseBranch
      /\ refs' = refs /\ isNil' = isNil /\ user' = user
      /\ gitPc' # "done" /\ gitPc' \notin {"repository", "commit"}
  BY DEF MetadataTypeInv, Metadata!environment
<1>2. (Metadata!ResolveBaseBranch(Metadata!Explicit))' = Metadata!ResolveBaseBranch(Metadata!Explicit)
  BY DEF Metadata!environment, Metadata!ResolveBaseBranch, Metadata!Explicit, Metadata!Probe,
         Metadata!DetectDefaultBranch, Metadata!ProbeUnderRemote, Metadata!Under, Metadata!Empty
<1>3. MetadataTypeInv'
  BY <1>1, <1>2 DEF MetadataTypeInv, Metadata!NoMetadata
<1>4. MetadataInv'
  BY <1>1, NoKeys DEF MetadataInv, Metadata!MergeIsFaithful, Metadata!ExplicitBaseIsDiffed,
                      Metadata!DiffsSent, Metadata!Collected
<1> QED
  BY <1>3, <1>4

LEMMA Collecting ==
  ASSUME MetadataTypeInv, CollectedInv,
         \/ Metadata!collectCommitMetadata \/ Metadata!collectDiffMetadata \/ Metadata!collectContextFields
  PROVE  MetadataTypeInv' /\ CollectedInv' /\ MetadataInv'
<1>0. Metadata!Empty \notin refs
  BY NoKeys DEF MetadataTypeInv
<1>1. CASE Metadata!collectCommitMetadata
  <2>1. /\ gitPc = "commit" /\ gitPc' \in {"diff", "context"} /\ metadata = Metadata!NoMetadata
        /\ UNCHANGED <<Metadata!environment, baseBranch, sent>>
    BY <1>1 DEF Metadata!collectCommitMetadata, MetadataTypeInv
  <2>2. ASSUME UNCHANGED metadata
        PROVE  CollectedInv'
    BY <2>1, <2>2, NoKeys DEF CollectedInv, Metadata!NoMetadata
  <2>3. ASSUME NEW parents \in {Metadata!Empty, <<"auto">>}, NEW src,
               src = [k \in Metadata!CommitKeys |-> IF k = "parent_shas" THEN parents ELSE <<"auto">>],
               metadata' = Metadata!mergeNonEmpty(metadata, src)
        PROVE  CollectedInv'
    <3>0. IsMerged(metadata', metadata, src)
      BY <2>3, MergedRight, Zenon
    <3>1. \A k \in DOMAIN metadata' :
            k \in Metadata!CommitKeys /\ src[k] # Metadata!Empty /\ metadata'[k] = src[k]
      BY <2>1, <2>3, <3>0, NoKeys DEF IsMerged
    <3>2. DOMAIN metadata' \cap Metadata!DiffKeys = {}
      BY <3>1 DEF Metadata!CommitKeys, Metadata!DiffKeys
    <3>3. \A k \in DOMAIN metadata' : metadata'[k] # Metadata!Empty
      BY <3>1
    <3> QED
      BY <2>1, <3>2, <3>3 DEF CollectedInv, Metadata!Empty, Metadata!DiffKeys
  <2> QED
    BY <1>1, <2>1, <2>2, <2>3, StillCollecting DEF Metadata!collectCommitMetadata
<1>2. CASE Metadata!collectDiffMetadata
  <2>1. /\ gitPc = "diff" /\ gitPc' = "context"
        /\ UNCHANGED <<Metadata!environment, baseBranch, sent>>
    BY <1>2 DEF Metadata!collectDiffMetadata
  <2>2. ASSUME UNCHANGED metadata
        PROVE  CollectedInv'
    BY <2>1, <2>2 DEF CollectedInv, Metadata!environment, Metadata!Empty, Metadata!DiffKeys
  <2>3. ASSUME baseBranch \in refs, NEW diffs \in [Metadata!DiffKeys -> {Metadata!Empty, baseBranch}],
               metadata' = Metadata!mergeNonEmpty(metadata, diffs)
        PROVE  CollectedInv'
    <3>1. IsMerged(metadata', metadata, diffs)
      BY <2>3, MergedRight, Zenon
    <3>2. \A k \in DOMAIN diffs : diffs[k] # Metadata!Empty => diffs[k] = baseBranch
      BY <2>3
    <3>3. baseBranch' = baseBranch /\ refs' = refs
      BY <2>1 DEF Metadata!environment
    <3>4. \A k \in DOMAIN metadata' : metadata'[k] # Metadata!Empty
      BY <3>1 DEF CollectedInv, IsMerged
    <3>5. \A k \in DOMAIN metadata' \cap Metadata!DiffKeys : metadata'[k] = baseBranch /\ baseBranch \in refs
      BY <2>3, <3>1, <3>2 DEF CollectedInv, IsMerged
    <3> QED
      BY <2>1, <3>3, <3>4, <3>5 DEF CollectedInv, Metadata!Empty, Metadata!DiffKeys
  <2> QED
    BY <1>2, <2>1, <2>2, <2>3, StillCollecting DEF Metadata!collectDiffMetadata
<1>3. CASE Metadata!collectContextFields
  <2>1. /\ gitPc = "context" /\ gitPc' = "merge"
        /\ UNCHANGED <<Metadata!environment, baseBranch, sent>>
    BY <1>3 DEF Metadata!collectContextFields
  <2> PICK branch \in {Metadata!Empty, <<"auto">>} :
        metadata' = Metadata!mergeNonEmpty(metadata, [branch |-> branch, base_branch |-> baseBranch])
    BY <1>3 DEF Metadata!collectContextFields
  <2> DEFINE src == [branch |-> branch, base_branch |-> baseBranch]
  <2>2. DOMAIN src = {"branch", "base_branch"} /\ src["base_branch"] = baseBranch
    OBVIOUS
  <2>3. metadata' = Metadata!mergeNonEmpty(metadata, src)
    OBVIOUS
  <2> HIDE DEF src
  <2>4. IsMerged(metadata', metadata, src)
    BY <2>3, MergedRight, Zenon
  <2>5. baseBranch' = baseBranch /\ refs' = refs
    BY <2>1 DEF Metadata!environment
  <2>6. \A k \in DOMAIN metadata' : metadata'[k] # Metadata!Empty
    BY <2>4 DEF CollectedInv, IsMerged
  <2>7. \A k \in DOMAIN metadata' \cap Metadata!DiffKeys : metadata'[k] = baseBranch /\ baseBranch \in refs
    BY <2>2, <2>4 DEF CollectedInv, IsMerged, Metadata!DiffKeys
  <2>8. baseBranch # Metadata!Empty => "base_branch" \in DOMAIN metadata'
    BY <2>2, <2>4 DEF IsMerged
  <2>9. CollectedInv'
    BY <2>5, <2>6, <2>7, <2>8 DEF CollectedInv, Metadata!Empty, Metadata!DiffKeys
  <2> QED
    BY <2>1, <2>9, StillCollecting
<1> QED
  BY <1>1, <1>2, <1>3

\* What is sent when the request is the user's, and when it is collected.
LEMMA SentAsGiven ==
  ASSUME MetadataTypeInv, CollectedInv, gitPc' = "done", sent' = user,
         UNCHANGED <<Metadata!environment, baseBranch, metadata>>
  PROVE  MetadataTypeInv' /\ CollectedInv' /\ MetadataInv'
<1>1. /\ refs' = refs /\ isNil' = isNil /\ user' = user /\ baseBranch' = baseBranch /\ metadata' = metadata
      /\ sent' = user' /\ gitPc' = "done"
  BY DEF Metadata!environment
<1>2. MetadataTypeInv'
  BY <1>1 DEF MetadataTypeInv, Metadata!NoMetadata
<1>3. CollectedInv'
  BY <1>1 DEF CollectedInv, Metadata!Empty, Metadata!DiffKeys
<1>4. MetadataInv'
  BY <1>1 DEF MetadataInv, Metadata!MergeIsFaithful, Metadata!ExplicitBaseIsDiffed,
              Metadata!DiffsSent, Metadata!Collected
<1> QED
  BY <1>2, <1>3, <1>4

LEMMA SentMerged ==
  ASSUME MetadataTypeInv, CollectedInv, Metadata!Merge
  PROVE  MetadataTypeInv' /\ CollectedInv' /\ MetadataInv'
<1>1. /\ refs' = refs /\ isNil' = isNil /\ user' = user /\ remote' = remote
      /\ baseBranch' = baseBranch /\ metadata' = metadata
      /\ sent' = Metadata!MergeMetadata(user, metadata) /\ gitPc = "merge" /\ gitPc' = "done"
  BY DEF Metadata!Merge, Metadata!Done, Metadata!environment
<1>2. /\ isNil => DOMAIN user = {}
      /\ \A k \in DOMAIN metadata : metadata[k] # Metadata!Empty
  BY NoKeys DEF MetadataTypeInv, CollectedInv
<1>3. /\ DOMAIN sent' = DOMAIN user \cup DOMAIN metadata
      /\ \A k \in DOMAIN user : sent'[k] = user[k]
      /\ \A k \in DOMAIN metadata \ DOMAIN user : sent'[k] = metadata[k]
  <2> DEFINE m == Metadata!MergeMetadata(user, metadata)
  <2>1. /\ DOMAIN m = DOMAIN user \cup DOMAIN metadata
        /\ \A k \in DOMAIN user : m[k] = user[k]
        /\ \A k \in DOMAIN metadata \ DOMAIN user : m[k] = metadata[k]
    BY <1>2, MergeMetadataRight
  <2>2. sent' = m
    BY <1>1
  <2> HIDE DEF m
  <2> QED
    BY <2>1, <2>2
<1>4. MetadataTypeInv' /\ CollectedInv'
  BY <1>1 DEF MetadataTypeInv, Metadata!NoMetadata, CollectedInv, Metadata!Empty, Metadata!DiffKeys
<1>5. Metadata!MergeIsFaithful'
  BY <1>1, <1>3 DEF CollectedInv, Metadata!MergeIsFaithful, Metadata!Collected, Metadata!Empty
<1>6. Metadata!ExplicitBaseIsDiffed'
  <2>1. Metadata!Explicit' = Metadata!Explicit /\ \A b : Metadata!Under(b)' = Metadata!Under(b)
    BY <1>1 DEF Metadata!Explicit, Metadata!Under, Metadata!Empty
  <2>2. ASSUME NEW k \in Metadata!DiffsSent'
        PROVE  /\ sent'[k] \in refs /\ "base_branch" \in DOMAIN sent'
               /\ Metadata!Explicit \in refs => sent'[k] = Metadata!Explicit
               /\ /\ Metadata!Explicit # Metadata!Empty /\ Metadata!Explicit \notin refs
                  /\ Metadata!Under(Metadata!Explicit) \in refs
                  => sent'[k] = Metadata!Under(Metadata!Explicit)
    <3>1. k \in DOMAIN metadata \ DOMAIN user /\ k \in Metadata!DiffKeys
      BY <1>1, <1>3 DEF Metadata!DiffsSent, Metadata!Collected, Metadata!DiffKeys
    <3>2. sent'[k] = baseBranch /\ baseBranch \in refs
      BY <1>3, <3>1 DEF CollectedInv
    <3>3. baseBranch # Metadata!Empty
      BY <3>2, NoKeys DEF MetadataTypeInv
    <3>4. "base_branch" \in DOMAIN sent'
      BY <1>1, <1>3, <3>3 DEF CollectedInv
    <3>5. baseBranch = Metadata!ResolveBaseBranch(Metadata!Explicit)
      BY <1>1 DEF MetadataTypeInv
    <3> QED
      BY <3>2, <3>3, <3>4, <3>5, BaseIsAsGiven
  <2> QED
    BY <1>1, <2>1, <2>2 DEF Metadata!ExplicitBaseIsDiffed, Metadata!Empty
<1> QED
  BY <1>4, <1>5, <1>6 DEF MetadataInv

LEMMA MetadataStep ==
  ASSUME MetadataTypeInv, CollectedInv, MetadataInv, [Metadata!Next]_(Metadata!vars)
  PROVE  MetadataTypeInv' /\ CollectedInv' /\ MetadataInv'
<1>1. CASE Metadata!autoCollectGitMetadata
  <2>1. CASE Metadata!Done(user) /\ UNCHANGED <<baseBranch, metadata>>
    BY <1>1, <2>1, SentAsGiven DEF Metadata!autoCollectGitMetadata, Metadata!Done
  <2>2. CASE /\ baseBranch' = Metadata!ResolveBaseBranch(Metadata!Explicit)
             /\ gitPc' = "commit" /\ UNCHANGED <<metadata, sent>>
    <3>1. /\ gitPc = "repository" /\ refs' = refs /\ isNil' = isNil /\ user' = user
          /\ UNCHANGED Metadata!environment
      BY <1>1 DEF Metadata!autoCollectGitMetadata, Metadata!environment
    <3>2. /\ metadata = Metadata!NoMetadata /\ metadata' = Metadata!NoMetadata
          /\ sent = Metadata!NoMetadata /\ sent' = Metadata!NoMetadata
      BY <2>2, <3>1 DEF MetadataTypeInv
    <3>3. (Metadata!ResolveBaseBranch(Metadata!Explicit))' = Metadata!ResolveBaseBranch(Metadata!Explicit)
      BY <3>1 DEF Metadata!environment, Metadata!ResolveBaseBranch, Metadata!Explicit, Metadata!Probe,
             Metadata!DetectDefaultBranch, Metadata!ProbeUnderRemote, Metadata!Under, Metadata!Empty
    <3>4. MetadataTypeInv'
      BY <2>2, <3>1, <3>2, <3>3 DEF MetadataTypeInv, Metadata!NoMetadata
    <3>5. CollectedInv'
      BY <2>2, <3>2, NoKeys DEF CollectedInv
    <3>6. MetadataInv'
      BY <2>2, <3>2, NoKeys DEF MetadataInv, Metadata!MergeIsFaithful, Metadata!ExplicitBaseIsDiffed,
                                Metadata!DiffsSent, Metadata!Collected
    <3> QED
      BY <3>4, <3>5, <3>6
  <2> QED
    BY <1>1, <2>1, <2>2 DEF Metadata!autoCollectGitMetadata
<1>2. CASE \/ Metadata!collectCommitMetadata \/ Metadata!collectDiffMetadata \/ Metadata!collectContextFields
  BY <1>2, Collecting
<1>3. CASE Metadata!Merge
  BY <1>3, SentMerged
<1>4. CASE UNCHANGED Metadata!vars
  <2>1. /\ refs' = refs /\ isNil' = isNil /\ user' = user /\ remote' = remote /\ baseBranch' = baseBranch
        /\ metadata' = metadata /\ sent' = sent /\ gitPc' = gitPc /\ UNCHANGED Metadata!environment
    BY <1>4 DEF Metadata!vars, Metadata!environment
  <2>2. (Metadata!ResolveBaseBranch(Metadata!Explicit))' = Metadata!ResolveBaseBranch(Metadata!Explicit)
    BY <2>1 DEF Metadata!environment, Metadata!ResolveBaseBranch, Metadata!Explicit, Metadata!Probe,
           Metadata!DetectDefaultBranch, Metadata!ProbeUnderRemote, Metadata!Under, Metadata!Empty
  <2>3. MetadataTypeInv'
    BY <2>1, <2>2 DEF MetadataTypeInv, Metadata!NoMetadata
  <2>4. CollectedInv'
    BY <2>1 DEF CollectedInv, Metadata!Empty, Metadata!DiffKeys
  <2>5. MetadataInv'
    BY <2>1 DEF MetadataInv, Metadata!MergeIsFaithful, Metadata!ExplicitBaseIsDiffed, Metadata!DiffsSent,
                Metadata!Collected, Metadata!DiffKeys, Metadata!Empty, Metadata!Explicit, Metadata!Under
  <2> QED
    BY <2>3, <2>4, <2>5
<1> QED
  BY <1>1, <1>2, <1>3, <1>4 DEF Metadata!Next

\* The metadata of a request is what the user gave, filled in with what was collected, and its
\* diffs are against the base branch that was asked for, whatever refs there are and whichever
\* calls of git fail.
THEOREM MetadataIsRight == (Metadata!Spec => []MetadataInv) /\ (PlanSpec => []MetadataInv)
<1>1. Metadata!Init => MetadataTypeInv /\ CollectedInv /\ MetadataInv
  BY MetadataInit
<1>2. MetadataTypeInv /\ CollectedInv /\ MetadataInv /\ [Metadata!Next]_(Metadata!vars)
        => (MetadataTypeInv /\ CollectedInv /\ MetadataInv)'
  BY MetadataStep
<1>3. Metadata!Spec => []MetadataInv
  BY <1>1, <1>2, PTL DEF Metadata!Spec
<1> QED
  BY <1>3, PlanCollectsMetadataOnce, PTL

============================================================================
