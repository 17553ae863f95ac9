---------------------------- MODULE DeploysProofs ----------------------------
(***************************************************************************)
(* For every set of replicas, commits, lessons, tracks and migrations:     *)
(* what a build serves is its lessons in the order they are taught, its    *)
(* surfaces agree on what a learner has completed and take nothing of it   *)
(* back, and a migration is applied once.                                  *)
(***************************************************************************)
EXTENDS Deploys, SequenceTheorems, FiniteSetTheorems, TLAPS

-----------------------------------------------------------------------------
\* Induction, stated of sets rather than of predicates, and the functions that
\* are defined by recursion up to a number.

\* Every set of natural numbers that is not empty has a least element.
LEMMA LeastNatural ==
  ASSUME NEW T \in SUBSET Nat, T # {}
  PROVE  \E n \in T : \A m \in T : n <= m
<1> DEFINE R == {p \in Nat \X Nat : p[1] < p[2]}
<1>1. IsWellFoundedOn(R, Nat)
  BY NatLessThanWellFounded DEF OpToRel
<1>2. PICK x \in T : \A y \in T : <<y, x>> \notin R
  BY <1>1, WFMin
<1>3. ASSUME NEW y \in T PROVE x <= y
  <2>1. ~ (y < x)
    BY <1>2
  <2> QED BY <2>1
<1> QED BY <1>3

LEMMA Induction ==
  ASSUME NEW n \in Nat, NEW T, 0 \in T, \A i \in 0..(n - 1) : i \in T => i + 1 \in T
  PROVE  \A i \in 0..n : i \in T
<1> DEFINE U == {i \in 0..n : i \notin T}
<1> SUFFICES ASSUME U # {} PROVE FALSE
  OBVIOUS
<1>1. U \in SUBSET Nat
  OBVIOUS
<1> HIDE DEF U
<1>2. PICK m \in U : \A k \in U : m <= k
  BY <1>1, LeastNatural
<1> USE DEF U
<1>3. m - 1 \in 0..(n - 1) /\ m - 1 \in T
  BY <1>2
<1> QED BY <1>2, <1>3

\* A function on 0..n that each step takes on from the value before it.
Steps(f, D, base, n, step) ==
  /\ f \in [0..n -> D] /\ f[0] = base
  /\ \A i \in 1..n : f[i] = step[i][f[i - 1]]

LEMMA Recursion ==
  ASSUME NEW D, NEW base \in D, NEW n \in Nat, NEW step \in [1..n -> [D -> D]]
  PROVE  \E f : Steps(f, D, base, n, step)
<1> DEFINE T == {k \in Nat : \E f : Steps(f, D, base, k, step)}
<1>1. 0 \in T
  <2>1. Steps([i \in 0..0 |-> base], D, base, 0, step)
    BY DEF Steps
  <2> QED BY <2>1
<1>2. ASSUME NEW k \in 0..(n - 1), k \in T PROVE k + 1 \in T
  <2>1. PICK f : Steps(f, D, base, k, step)
    BY <1>2
  <2> DEFINE g == [i \in 0..(k + 1) |-> IF i = k + 1 THEN step[i][f[k]] ELSE f[i]]
  <2>2. Steps(g, D, base, k + 1, step)
    BY <2>1 DEF Steps
  <2>3. k + 1 \in Nat
    OBVIOUS
  <2> HIDE DEF g
  <2> QED BY <2>2, <2>3
<1>3. \A k \in 0..n : k \in T
  <2> HIDE DEF T
  <2> QED BY <1>1, <1>2, Induction
<1> QED BY <1>3

LEMMA RecursionType ==
  ASSUME NEW D, NEW n \in Nat, NEW f, DOMAIN f = 0..n, f = [i \in DOMAIN f |-> f[i]],
         f[0] \in D, \A i \in 1..n : f[i - 1] \in D => f[i] \in D
  PROVE  f \in [0..n -> D]
<1> DEFINE T == {i \in 0..n : f[i] \in D}
<1>1. 0 \in T
  OBVIOUS
<1>2. ASSUME NEW i \in 0..(n - 1), i \in T PROVE i + 1 \in T
  <2>1. i + 1 \in 1..n /\ (i + 1) - 1 = i
    OBVIOUS
  <2> QED BY <1>2, <2>1
<1>3. \A i \in 0..n : i \in T
  <2> HIDE DEF T
  <2> QED BY <1>1, <1>2, Induction
<1> QED BY <1>3

-----------------------------------------------------------------------------
\* Sequences that hold every element of a set once, and how many of their
\* places hold an element of another.

Injects(s) == \A i, j \in DOMAIN s : s[i] = s[j] => i = j

Count(s, c) == Cardinality({i \in DOMAIN s : s[i] \in c})

LEMMA ArrangementFacts ==
  ASSUME NEW S, IsFiniteSet(S), NEW s \in SetToSeqs(S)
  PROVE  /\ s \in Seq(S) /\ Injects(s) /\ ToSet(s) = S
         /\ DOMAIN s = 1..Len(s) /\ Len(s) \in Nat
<1>0. Cardinality(S) \in Nat
  BY FS_CardinalityType
<1> DEFINE D == 1..Cardinality(S)
<1>1. s \in [D -> S] /\ \A i, j \in D : i # j => s[i] # s[j]
  BY DEF SetToSeqs
<1>2. s \in Seq(S) /\ Len(s) = Cardinality(S)
  BY <1>0, <1>1
<1>3. s \in Injection(D, S)
  BY <1>1 DEF Injection, IsInjective
<1>4. IsFiniteSet(D) /\ Cardinality(D) = Cardinality(S)
  BY <1>0, FS_Interval
<1>5. s \in Surjection(D, S)
  BY <1>3, <1>4, FS_Injection
<1>6. ToSet(s) = S
  BY <1>1, <1>5 DEF ToSet, Surjection
<1> QED BY <1>0, <1>1, <1>2, <1>6 DEF Injects

LEMMA Arrangement ==
  ASSUME NEW S, NEW s \in Seq(S), Injects(s), ToSet(s) = S
  PROVE  IsFiniteSet(S) /\ Cardinality(S) = Len(s) /\ s \in SetToSeqs(S)
<1> DEFINE D == 1..Len(s)
<1>1. Len(s) \in Nat /\ s \in [D -> S]
  OBVIOUS
<1>2. s \in Bijection(D, S)
  BY <1>1 DEF Bijection, Injection, Surjection, IsInjective, Injects, ToSet
<1>3. IsFiniteSet(D) /\ Cardinality(D) = Len(s)
  BY <1>1, FS_Interval
<1>4. ExistsBijection(D, S)
  BY <1>2 DEF ExistsBijection
<1>5. IsFiniteSet(S) /\ Cardinality(S) = Len(s)
  BY <1>3, <1>4, FS_Bijection
<1>6. s \in SetToSeqs(S)
  BY <1>1, <1>5 DEF SetToSeqs, Injects
<1> QED BY <1>5, <1>6

LEMMA CountFacts ==
  ASSUME NEW S, NEW s \in Seq(S), NEW c
  PROVE  /\ IsFiniteSet({i \in DOMAIN s : s[i] \in c})
         /\ Count(s, c) \in Nat
         /\ S \subseteq c => Count(s, c) = Len(s)
<1> DEFINE I == {i \in DOMAIN s : s[i] \in c}
<1>1. DOMAIN s = 1..Len(s) /\ Len(s) \in Nat /\ \A i \in DOMAIN s : s[i] \in S
  OBVIOUS
<1>2. IsFiniteSet(DOMAIN s) /\ Cardinality(DOMAIN s) = Len(s)
  BY <1>1, FS_Interval
<1>3. I \in SUBSET DOMAIN s
  OBVIOUS
<1>4. IsFiniteSet(I)
  BY <1>2, <1>3, FS_Subset
<1>5. Cardinality(I) \in Nat
  BY <1>4, FS_CardinalityType
<1>6. S \subseteq c => I = DOMAIN s
  BY <1>1
<1> QED BY <1>2, <1>4, <1>5, <1>6 DEF Count

LEMMA CountConcat ==
  ASSUME NEW S, NEW s \in Seq(S), NEW t \in Seq(S), NEW c
  PROVE  Count(s \o t, c) = Count(s, c) + Count(t, c)
<1> DEFINE I == {i \in DOMAIN s : s[i] \in c}
           J == {j \in DOMAIN t : t[j] \in c}
           K == {k \in DOMAIN (s \o t) : (s \o t)[k] \in c}
           J2 == {j + Len(s) : j \in J}
           f == [j \in J |-> j + Len(s)]
<1>1. /\ DOMAIN s = 1..Len(s) /\ DOMAIN t = 1..Len(t)
      /\ DOMAIN (s \o t) = 1..(Len(s) + Len(t))
      /\ Len(s) \in Nat /\ Len(t) \in Nat
  OBVIOUS
<1>2. \A k \in 1..(Len(s) + Len(t)) : (s \o t)[k] = IF k <= Len(s) THEN s[k] ELSE t[k - Len(s)]
  BY ConcatProperties
<1>3. K = I \cup J2
  <2>1. ASSUME NEW k \in K PROVE k \in I \cup J2
    <3>1. CASE k <= Len(s)
      BY <1>1, <1>2, <2>1, <3>1
    <3>2. CASE k > Len(s)
      <4>1. k - Len(s) \in J
        BY <1>1, <1>2, <2>1, <3>2
      <4>2. k = (k - Len(s)) + Len(s)
        BY <1>1, <2>1
      <4> QED BY <4>1, <4>2
    <3> QED BY <1>1, <2>1, <3>1, <3>2
  <2>2. I \subseteq K
    BY <1>1, <1>2
  <2>3. ASSUME NEW j \in J PROVE j + Len(s) \in K
    BY <1>1, <1>2, <2>3
  <2> QED BY <2>1, <2>2, <2>3
<1>4. I \cap J2 = {}
  BY <1>1
<1>5. IsFiniteSet(I) /\ IsFiniteSet(J)
  BY CountFacts
<1>6. IsFiniteSet(J2) /\ Cardinality(J2) = Cardinality(J)
  <2>1. f \in Bijection(J, J2)
    BY <1>1 DEF Bijection, Injection, Surjection, IsInjective
  <2>2. ExistsBijection(J, J2)
    BY <2>1 DEF ExistsBijection
  <2> HIDE DEF J, J2
  <2> QED BY <1>5, <2>2, FS_Bijection
<1>7. Cardinality(K) = Cardinality(I) + Cardinality(J2) - Cardinality(I \cap J2)
  <2> HIDE DEF I, J2, K
  <2> QED BY <1>3, <1>5, <1>6, FS_Union
<1>8. Cardinality(I) \in Nat /\ Cardinality(J) \in Nat /\ Cardinality({}) = 0
  BY <1>5, FS_CardinalityType, FS_EmptySet
<1>9. Count(s, c) = Cardinality(I) /\ Count(t, c) = Cardinality(J)
      /\ Count(s \o t, c) = Cardinality(K)
  BY Zenon DEF Count
<1> HIDE DEF I, J, K, J2
<1>10. Cardinality(I \cap J2) = 0
  BY <1>4, <1>8
<1>11. Cardinality(K) = Cardinality(I) + Cardinality(J)
  BY <1>6, <1>7, <1>8, <1>10
<1> QED BY <1>9, <1>11

LEMMA CountDistinct ==
  ASSUME NEW S, NEW s \in Seq(S), Injects(s), NEW c
  PROVE  Count(s, c) = Cardinality(ToSet(s) \cap c)
<1> DEFINE I == {i \in DOMAIN s : s[i] \in c}
           f == [i \in I |-> s[i]]
<1>1. f \in Bijection(I, ToSet(s) \cap c)
  BY DEF Bijection, Injection, Surjection, IsInjective, Injects, ToSet
<1>2. ExistsBijection(I, ToSet(s) \cap c)
  BY <1>1 DEF ExistsBijection
<1>3. IsFiniteSet(I)
  BY CountFacts
<1> HIDE DEF I
<1>4. Cardinality(ToSet(s) \cap c) = Cardinality(I)
  BY <1>2, <1>3, FS_Bijection
<1> QED BY <1>4 DEF Count, I

-----------------------------------------------------------------------------
\* The reading order.

N == Len(TrackOrder)

LEMMA TrackFacts ==
  /\ N \in Nat
  /\ DOMAIN TrackOrder = 1..N
  /\ \A i \in 1..N : TrackOrder[i] \in Known
  /\ \A t \in Known : \E i \in 1..N : TrackOrder[i] = t
  /\ \A i, j \in 1..N : TrackOrder[i] = TrackOrder[j] => i = j
<1>1. TrackOrder \in Seq(Known)
  BY LessonsAssumption DEF Known
<1>2. N \in Nat /\ DOMAIN TrackOrder = 1..N
  BY <1>1 DEF N
<1> QED BY <1>2, LessonsAssumption DEF Known, ToSet, IsInjective

LEMMA OrderedRecursion ==
  ASSUME NEW S, NEW x, \A t \in Known : x[t] \in Seq(S)
  PROVE  \E f \in [0..N -> Seq(S)] :
           /\ f[0] = << >>
           /\ \A i \in 1..N : f[i] = f[i - 1] \o x[TrackOrder[i]]
           /\ Ordered(x) = f[N]
<1> DEFINE step == [i \in 1..N |-> [v \in Seq(S) |-> v \o x[TrackOrder[i]]]]
           Is(f) == f = [i \in 0..N |-> IF i = 0 THEN << >> ELSE f[i - 1] \o x[TrackOrder[i]]]
           g == CHOOSE f : Is(f)
<1>0. N \in Nat
  BY TrackFacts
<1>1. PICK f : Steps(f, Seq(S), << >>, N, step)
  <2>1. step \in [1..N -> [Seq(S) -> Seq(S)]]
    BY TrackFacts
  <2>2. << >> \in Seq(S)
    OBVIOUS
  <2> HIDE DEF step
  <2> QED BY <1>0, <2>1, <2>2, Recursion
<1>2. Is(f)
  <2>1. ASSUME NEW i \in 1..N PROVE f[i] = f[i - 1] \o x[TrackOrder[i]]
    <3>1. i - 1 \in 0..N
      BY <1>0
    <3>2. f[i - 1] \in Seq(S)
      BY <1>1, <3>1 DEF Steps
    <3> QED BY <1>1, <3>2 DEF Steps
  <2> HIDE DEF step
  <2>2. \A i \in 0..N : i = 0 \/ i \in 1..N
    BY <1>0
  <2>3. f = [i \in 0..N |-> f[i]] /\ f[0] = << >>
    BY <1>1 DEF Steps
  <2> QED BY <2>1, <2>2, <2>3
<1>3. Is(g)
  BY <1>2
<1> HIDE DEF g, step
<1>4. DOMAIN g = 0..N /\ g[0] = << >> /\ \A i \in 1..N : g[i] = g[i - 1] \o x[TrackOrder[i]]
  BY <1>0, <1>3
<1>5. g \in [0..N -> Seq(S)]
  <2>1. ASSUME NEW i \in 1..N, g[i - 1] \in Seq(S) PROVE g[i] \in Seq(S)
    <3>1. x[TrackOrder[i]] \in Seq(S)
      BY TrackFacts
    <3>2. g[i - 1] \o x[TrackOrder[i]] \in Seq(S)
      BY <2>1, <3>1, ConcatProperties
    <3> QED BY <1>4, <3>2
  <2>2. g = [i \in DOMAIN g |-> g[i]]
    BY <1>3
  <2>3. g[0] \in Seq(S)
    BY <1>4
  <2> HIDE DEF Is
  <2> QED BY <1>0, <1>4, <2>1, <2>2, <2>3, RecursionType
<1>6. Ordered(x) = g[N]
  BY DEF Ordered, g, N
<1> QED BY <1>4, <1>5, <1>6

LEMMA SummedRecursion ==
  ASSUME NEW count, \A t \in Known : count[t] \in Nat
  PROVE  \E f \in [0..N -> Nat] :
           /\ f[0] = 0
           /\ \A i \in 1..N : f[i] = f[i - 1] + count[TrackOrder[i]]
           /\ Summed(count) = f[N]
<1> DEFINE step == [i \in 1..N |-> [v \in Nat |-> v + count[TrackOrder[i]]]]
           Is(f) == f = [i \in 0..N |-> IF i = 0 THEN 0 ELSE f[i - 1] + count[TrackOrder[i]]]
           g == CHOOSE f : Is(f)
<1>0. N \in Nat
  BY TrackFacts
<1>1. PICK f : Steps(f, Nat, 0, N, step)
  <2>1. step \in [1..N -> [Nat -> Nat]]
    BY TrackFacts
  <2> HIDE DEF step
  <2> QED BY <1>0, <2>1, Recursion
<1>2. Is(f)
  <2>1. ASSUME NEW i \in 1..N PROVE f[i] = f[i - 1] + count[TrackOrder[i]]
    <3>1. i - 1 \in 0..N
      BY <1>0
    <3>2. f[i - 1] \in Nat
      BY <1>1, <3>1 DEF Steps
    <3> QED BY <1>1, <3>2 DEF Steps
  <2> HIDE DEF step
  <2>2. \A i \in 0..N : i = 0 \/ i \in 1..N
    BY <1>0
  <2>3. f = [i \in 0..N |-> f[i]] /\ f[0] = 0
    BY <1>1 DEF Steps
  <2> QED BY <2>1, <2>2, <2>3
<1>3. Is(g)
  BY <1>2
<1> HIDE DEF g, step
<1>4. DOMAIN g = 0..N /\ g[0] = 0 /\ \A i \in 1..N : g[i] = g[i - 1] + count[TrackOrder[i]]
  BY <1>0, <1>3
<1>5. g \in [0..N -> Nat]
  <2>1. ASSUME NEW i \in 1..N, g[i - 1] \in Nat PROVE g[i] \in Nat
    <3>1. count[TrackOrder[i]] \in Nat
      BY TrackFacts
    <3> QED BY <1>4, <2>1, <3>1
  <2>2. g = [i \in DOMAIN g |-> g[i]]
    BY <1>3
  <2>3. g[0] \in Nat
    BY <1>4
  <2> HIDE DEF Is
  <2> QED BY <1>0, <1>4, <2>1, <2>2, <2>3, RecursionType
<1>6. Summed(count) = g[N]
  BY DEF Summed, g, N
<1> QED BY <1>4, <1>5, <1>6

\* What is summed over the tracks is what the reading order holds.
LEMMA OrderedCount ==
  ASSUME NEW S, NEW x, \A t \in Known : x[t] \in Seq(S), NEW c,
         NEW count, \A t \in Known : count[t] = Count(x[t], c)
  PROVE  Summed(count) = Count(Ordered(x), c)
<1>0. N \in Nat
  BY TrackFacts
<1>1. \A t \in Known : count[t] \in Nat
  BY CountFacts
<1>2. PICK f \in [0..N -> Seq(S)] :
           /\ f[0] = << >>
           /\ \A i \in 1..N : f[i] = f[i - 1] \o x[TrackOrder[i]]
           /\ Ordered(x) = f[N]
  BY OrderedRecursion
<1>3. PICK g \in [0..N -> Nat] :
           /\ g[0] = 0
           /\ \A i \in 1..N : g[i] = g[i - 1] + count[TrackOrder[i]]
           /\ Summed(count) = g[N]
  BY <1>1, SummedRecursion
<1> DEFINE T == {i \in 0..N : g[i] = Count(f[i], c)}
<1>4. 0 \in T
  <2>1. Count(<< >>, c) = 0
    BY FS_EmptySet DEF Count
  <2> QED BY <1>0, <1>2, <1>3, <2>1
<1>5. ASSUME NEW i \in 0..(N - 1), i \in T PROVE i + 1 \in T
  <2>1. i + 1 \in 1..N /\ (i + 1) - 1 = i /\ i \in 0..N
    BY <1>0
  <2>2. g[i + 1] = Count(f[i], c) + Count(x[TrackOrder[i + 1]], c)
    <3>1. TrackOrder[i + 1] \in Known
      BY <2>1, TrackFacts
    <3>2. count[TrackOrder[i + 1]] = Count(x[TrackOrder[i + 1]], c)
      BY <3>1
    <3>3. g[i + 1] = g[i] + count[TrackOrder[i + 1]]
      BY <1>3, <2>1
    <3> QED BY <1>5, <3>2, <3>3
  <2>3. f[i] \in Seq(S) /\ x[TrackOrder[i + 1]] \in Seq(S) /\ f[i + 1] = f[i] \o x[TrackOrder[i + 1]]
    BY <1>2, <2>1, TrackFacts
  <2>4. Count(f[i + 1], c) = Count(f[i], c) + Count(x[TrackOrder[i + 1]], c)
    BY <2>3, CountConcat
  <2>5. i + 1 \in 0..N
    BY <2>1
  <2> QED BY <2>2, <2>4, <2>5
<1>6. \A i \in 0..N : i \in T
  <2> HIDE DEF T
  <2> QED BY <1>0, <1>4, <1>5, Induction
<1> QED BY <1>0, <1>2, <1>3, <1>6

-----------------------------------------------------------------------------
\* The one pass of get_progress finds what the dashboard's own loops find.

Report(o, c, n) ==
  LET todo == {i \in 1..n : o[i] \notin c}
  IN  [next |-> IF todo = {} THEN None ELSE o[Min(todo)],
       completed |-> Cardinality({i \in 1..n : o[i] \in c}), total |-> Len(o)]

LEMMA MinFacts ==
  ASSUME NEW T \in SUBSET Nat, T # {}
  PROVE  Min(T) \in T /\ \A m \in T : Min(T) <= m
<1>1. PICK n \in T : \A m \in T : n <= m
  BY LeastNatural
<1> QED BY <1>1 DEF Min

LEMMA ReportStep ==
  ASSUME NEW S, None \notin S, NEW o \in Seq(S), NEW c, NEW n \in 1..Len(o)
  PROVE  Report(o, c, n) = Tally(Report(o, c, n - 1), o[n], o[n] \in c)
<1> DEFINE todo(k) == {i \in 1..k : o[i] \notin c}
           done(k) == {i \in 1..k : o[i] \in c}
<1>1. 1..n = (1..(n - 1)) \cup {n} /\ n \notin 1..(n - 1)
  OBVIOUS
<1>2. IsFiniteSet(done(n - 1))
  <2>1. IsFiniteSet(1..(n - 1))
    BY FS_Interval
  <2>2. done(n - 1) \in SUBSET (1..(n - 1))
    OBVIOUS
  <2> QED BY <2>1, <2>2, FS_Subset
<1>3. CASE o[n] \in c
  <2>1. todo(n) = todo(n - 1)
    BY <1>1, <1>3
  <2>2. done(n) = done(n - 1) \cup {n} /\ n \notin done(n - 1)
    BY <1>1, <1>3
  <2>3. Cardinality(done(n)) = Cardinality(done(n - 1)) + 1
    <3> HIDE DEF done
    <3> QED BY <1>2, <2>2, FS_AddElement
  <2> HIDE DEF todo, done
  <2> QED BY <1>3, <2>1, <2>3 DEF Report, Tally, todo, done
<1>4. CASE o[n] \notin c
  <2>1. todo(n) = todo(n - 1) \cup {n}
    BY <1>1, <1>4
  <2>2. done(n) = done(n - 1)
    BY <1>1, <1>4
  <2>3. todo(n - 1) \in SUBSET (1..(n - 1)) /\ todo(n - 1) \in SUBSET Nat /\ todo(n) \in SUBSET Nat
    OBVIOUS
  <2>4. CASE todo(n - 1) = {}
    <3>1. todo(n) = {n}
      BY <2>1, <2>4
    <3>2. Min(todo(n)) = n
      BY <3>1, <2>3, MinFacts
    <3> QED BY <1>4, <2>2, <2>4, <3>1, <3>2 DEF Report, Tally
  <2>5. CASE todo(n - 1) # {}
    <3> DEFINE m == Min(todo(n - 1))
    <3>1. m \in todo(n - 1) /\ \A k \in todo(n - 1) : m <= k
      BY <2>3, <2>5, MinFacts
    <3>2. m \in todo(n) /\ \A k \in todo(n) : m <= k
      <4>1. m \in 1..(n - 1)
        BY <3>1
      <4> HIDE DEF m
      <4>2. \A k \in todo(n) : m <= k
        BY <2>1, <3>1, <4>1
      <4> QED BY <2>1, <3>1, <4>2
    <3>3. Min(todo(n)) \in todo(n) /\ \A k \in todo(n) : Min(todo(n)) <= k
      BY <2>3, <3>2, MinFacts
    <3>4. Min(todo(n)) = m
      BY <2>3, <3>2, <3>3
    <3>5. o[m] # None
      BY <3>1
    <3> QED BY <1>4, <2>2, <2>5, <3>2, <3>4, <3>5 DEF Report, Tally
  <2> QED BY <2>4, <2>5
<1> QED BY <1>3, <1>4

LEMMA GetProgressIsReport ==
  ASSUME NEW S, None \notin S, NEW x, \A t \in Known : x[t] \in Seq(S),
         NEW c
  PROVE  GetProgress(x, c) = Report(Ordered(x), c, Len(Ordered(x)))
<1> DEFINE o == Ordered(x)
           Is(f) == f = [n \in 0..Len(o) |->
                           IF n = 0 THEN [next |-> None, completed |-> 0, total |-> Len(o)]
                           ELSE Tally(f[n - 1], o[n], o[n] \in c)]
           r == [n \in 0..Len(o) |-> Report(o, c, n)]
           g == CHOOSE f : Is(f)
<1>0. N \in Nat
  BY TrackFacts
<1>1. o \in Seq(S)
  <2>1. PICK f \in [0..N -> Seq(S)] : Ordered(x) = f[N]
    BY OrderedRecursion
  <2>2. N \in 0..N
    BY <1>0
  <2> QED BY <2>1, <2>2
<1>2. GetProgress(x, c) = g[Len(o)]
  BY DEF GetProgress
<1> HIDE DEF o
<1>3. Len(o) \in Nat
  BY <1>1
<1>4. Is(r)
  <2>1. Report(o, c, 0) = [next |-> None, completed |-> 0, total |-> Len(o)]
    <3>1. 1..0 = {}
      OBVIOUS
    <3> QED BY <3>1, FS_EmptySet DEF Report
  <2>2. ASSUME NEW n \in 1..Len(o)
        PROVE  Report(o, c, n) = Tally(r[n - 1], o[n], o[n] \in c)
    <3>1. r[n - 1] = Report(o, c, n - 1)
      BY <1>3
    <3> QED BY <1>1, <3>1, ReportStep
  <2>3. \A n \in 0..Len(o) : n = 0 \/ n \in 1..Len(o)
    BY <1>3
  <2> QED BY <2>1, <2>2, <2>3
<1>5. Is(g)
  BY <1>4
<1> DEFINE T == {n \in 0..Len(o) : g[n] = r[n]}
<1> HIDE DEF g
<1>6. 0 \in T
  <2>1. 0 \in 0..Len(o)
    BY <1>3
  <2> HIDE DEF r
  <2> QED BY <1>4, <1>5, <2>1
<1>7. ASSUME NEW n \in 0..(Len(o) - 1), n \in T PROVE n + 1 \in T
  <2>1. n + 1 \in 0..Len(o) /\ n + 1 # 0 /\ (n + 1) - 1 = n
    BY <1>3
  <2>2. g[n + 1] = Tally(g[n], o[n + 1], o[n + 1] \in c)
    BY <1>5, <2>1
  <2>3. r[n + 1] = Tally(r[n], o[n + 1], o[n + 1] \in c)
    <3> HIDE DEF r
    <3> QED BY <1>4, <2>1
  <2> HIDE DEF r
  <2> QED BY <1>7, <2>1, <2>2, <2>3
<1>8. \A n \in 0..Len(o) : n \in T
  <2> HIDE DEF T
  <2> QED BY <1>3, <1>6, <1>7, Induction
<1>9. g[Len(o)] = Report(o, c, Len(o))
  BY <1>3, <1>8
<1> QED BY <1>2, <1>9 DEF o

-----------------------------------------------------------------------------
\* What Parse returns lists the files in the order they are taught.

Rank(f) == CHOOSE i \in DOMAIN TrackOrder : TrackOrder[i] = f.track

InOrder(s) == \A i, j \in DOMAIN s : i < j => Teaches(s[i], s[j])

\* The files a commit may hold, of tracks that are known.
Parsable(fs) ==
  /\ IsFiniteSet(fs)
  /\ \A f \in fs : f.order \in Int /\ f.slug \in Int /\ f.track \in Known
  /\ \A f, g \in fs : f.slug = g.slug => f = g

LEMMA RankFacts ==
  ASSUME NEW f, f.track \in Known
  PROVE  /\ Rank(f) \in 1..N
         /\ \A i \in 1..N : TrackOrder[i] = f.track <=> i = Rank(f)
BY TrackFacts DEF Rank

LEMMA TeachesFacts ==
  ASSUME NEW a, NEW b
  PROVE  Teaches(a, b) <=> \/ Rank(a) < Rank(b)
                           \/ Rank(a) = Rank(b) /\ a.order < b.order
                           \/ Rank(a) = Rank(b) /\ a.order = b.order /\ a.slug < b.slug
BY DEF Teaches, Rank

LEMMA SortedTrack ==
  ASSUME NEW fs, Parsable(fs), NEW t \in Known,
         NEW s \in Sortings({f \in fs : f.track = t})
  PROVE  /\ s \in Seq(fs) /\ Injects(s) /\ InOrder(s)
         /\ ToSet(s) = {f \in fs : f.track = t}
<1> DEFINE here == {f \in fs : f.track = t}
<1>1. IsFiniteSet(here)
  <2>1. here \in SUBSET fs
    OBVIOUS
  <2> QED BY <2>1, FS_Subset DEF Parsable
<1>2. s \in SetToSeqs(here) /\ \A i, j \in DOMAIN s : i < j => ~Less(s[j], s[i])
  BY DEF Sortings
<1>3. /\ s \in Seq(here) /\ Injects(s) /\ ToSet(s) = here
      /\ DOMAIN s = 1..Len(s) /\ Len(s) \in Nat
  <2> HIDE DEF here
  <2> QED BY <1>1, <1>2, ArrangementFacts
<1>4. s \in Seq(fs)
  BY <1>3, SeqMonotonic
<1>5. ASSUME NEW i \in DOMAIN s, NEW j \in DOMAIN s, i < j PROVE Teaches(s[i], s[j])
  <2>1. s[i] \in here /\ s[j] \in here
    BY <1>3
  <2>2. s[i].slug # s[j].slug
    BY <1>3, <1>5, <2>1 DEF Parsable, Injects
  <2>3. Less(s[i], s[j])
    BY <1>2, <1>5, <2>1, <2>2 DEF Less, Parsable
  <2>4. Rank(s[i]) = Rank(s[j])
    BY <2>1 DEF Rank
  <2> QED BY <2>3, <2>4, TeachesFacts DEF Less
<1> QED BY <1>3, <1>4, <1>5 DEF InOrder

LEMMA ConcatOrder ==
  ASSUME NEW fs, NEW a \in Seq(fs), NEW b \in Seq(fs),
         Injects(a), InOrder(a), Injects(b), InOrder(b),
         \A i \in DOMAIN a, j \in DOMAIN b : a[i] # b[j] /\ Teaches(a[i], b[j])
  PROVE  /\ Injects(a \o b) /\ InOrder(a \o b)
         /\ ToSet(a \o b) = ToSet(a) \cup ToSet(b)
<1> DEFINE c == a \o b
<1>1. /\ DOMAIN a = 1..Len(a) /\ DOMAIN b = 1..Len(b)
      /\ Len(a) \in Nat /\ Len(b) \in Nat
      /\ DOMAIN c = 1..(Len(a) + Len(b))
  OBVIOUS
<1>2. \A k \in DOMAIN c : c[k] = IF k <= Len(a) THEN a[k] ELSE b[k - Len(a)]
  BY <1>1, ConcatProperties
<1> HIDE DEF c
<1>3. ASSUME NEW k \in DOMAIN c
      PROVE  \/ k \in DOMAIN a /\ c[k] = a[k]
             \/ k > Len(a) /\ (k - Len(a)) \in DOMAIN b /\ c[k] = b[k - Len(a)]
  BY <1>1, <1>2
<1>4. ASSUME NEW i \in DOMAIN c, NEW j \in DOMAIN c, i < j
      PROVE  c[i] # c[j] /\ Teaches(c[i], c[j])
  <2>1. CASE j \in DOMAIN a /\ c[j] = a[j]
    <3>1. i \in DOMAIN a /\ c[i] = a[i]
      BY <1>1, <1>2, <1>4, <2>1
    <3> QED BY <1>1, <1>4, <2>1, <3>1 DEF Injects, InOrder
  <2>2. CASE j > Len(a) /\ (j - Len(a)) \in DOMAIN b /\ c[j] = b[j - Len(a)]
    <3>1. CASE i \in DOMAIN a /\ c[i] = a[i]
      BY <2>2, <3>1
    <3>2. CASE i > Len(a) /\ (i - Len(a)) \in DOMAIN b /\ c[i] = b[i - Len(a)]
      <4>1. i - Len(a) < j - Len(a) /\ i - Len(a) # j - Len(a)
        BY <1>1, <1>4, <2>2, <3>2
      <4> QED BY <2>2, <3>2, <4>1 DEF Injects, InOrder
    <3> QED BY <1>3, <3>1, <3>2
  <2> QED BY <1>3, <2>1, <2>2
<1>5. Injects(c)
  BY <1>1, <1>4 DEF Injects
<1>6. InOrder(c)
  BY <1>4 DEF InOrder
<1>7. ToSet(c) = ToSet(a) \cup ToSet(b)
  <2>1. ToSet(c) \subseteq ToSet(a) \cup ToSet(b)
    BY <1>3 DEF ToSet
  <2>2. ASSUME NEW i \in DOMAIN a PROVE \E k \in DOMAIN c : c[k] = a[i]
    <3>1. i \in DOMAIN c /\ i <= Len(a)
      BY <1>1
    <3> QED BY <1>2, <3>1
  <2>3. ASSUME NEW j \in DOMAIN b PROVE \E k \in DOMAIN c : c[k] = b[j]
    <3>1. /\ j + Len(a) \in DOMAIN c /\ ~(j + Len(a) <= Len(a))
          /\ (j + Len(a)) - Len(a) = j
      BY <1>1
    <3> QED BY <1>2, <3>1
  <2> QED BY <2>1, <2>2, <2>3 DEF ToSet
<1> QED BY <1>5, <1>6, <1>7 DEF c

LEMMA SlugsConcat ==
  ASSUME NEW fs, NEW a \in Seq(fs), NEW b \in Seq(fs)
  PROVE  Slugs(a \o b) = Slugs(a) \o Slugs(b)
<1> DEFINE all == {f.slug : f \in fs}
<1>1. Slugs(a) \in Seq(all) /\ Slugs(b) \in Seq(all) /\ Slugs(a \o b) \in Seq(all)
  BY DEF Slugs
<1>2. Len(Slugs(a)) = Len(a) /\ Len(Slugs(b)) = Len(b) /\ Len(Slugs(a \o b)) = Len(a) + Len(b)
  BY DEF Slugs
<1>3. ASSUME NEW k \in 1..(Len(a) + Len(b))
      PROVE  Slugs(a \o b)[k] = (Slugs(a) \o Slugs(b))[k]
  <2>1. (a \o b)[k] = IF k <= Len(a) THEN a[k] ELSE b[k - Len(a)]
    BY ConcatProperties
  <2>2. Slugs(a \o b)[k] = (a \o b)[k].slug
    BY DEF Slugs
  <2>3. (Slugs(a) \o Slugs(b))[k] = IF k <= Len(a) THEN Slugs(a)[k] ELSE Slugs(b)[k - Len(a)]
    BY <1>1, <1>2, ConcatProperties
  <2>4. CASE k <= Len(a)
    <3>1. Slugs(a)[k] = a[k].slug
      BY <2>4 DEF Slugs
    <3> QED BY <2>1, <2>2, <2>3, <2>4, <3>1
  <2>5. CASE ~(k <= Len(a))
    <3>1. k - Len(a) \in DOMAIN b
      BY <2>5
    <3>2. Slugs(b)[k - Len(a)] = b[k - Len(a)].slug
      BY <3>1 DEF Slugs
    <3> QED BY <2>1, <2>2, <2>3, <2>5, <3>2
  <2> QED BY <2>4, <2>5
<1>4. Slugs(a) \o Slugs(b) \in Seq(all) /\ Len(Slugs(a) \o Slugs(b)) = Len(a) + Len(b)
  BY <1>1, <1>2, ConcatProperties
<1> HIDE DEF all
<1> QED BY <1>1, <1>2, <1>3, <1>4, SeqEqual

LEMMA ParsedOrder ==
  ASSUME NEW fs, Parsable(fs), NEW x \in Indexes(fs)
  PROVE  /\ \A t \in Known : x[t] \in Seq({f.slug : f \in fs})
         /\ \E s \in SetToSeqs(fs) : InOrder(s) /\ Ordered(x) = Slugs(s)
<1> DEFINE all == {f.slug : f \in fs}
           here(t) == {f \in fs : f.track = t}
           y == [t \in Known |-> CHOOSE s \in Sortings(here(t)) : x[t] = Slugs(s)]
           first(i) == {f \in fs : \E k \in 1..i : TrackOrder[k] = f.track}
<1>0. N \in Nat
  BY TrackFacts
<1>1. \A t \in Known : y[t] \in Sortings(here(t)) /\ x[t] = Slugs(y[t])
  <2>1. \A t \in Known : x[t] \in {Slugs(s) : s \in Sortings(here(t))}
    BY DEF Indexes, InTrack
  <2> HIDE DEF here
  <2> QED BY <2>1
<1> HIDE DEF y
<1>2. \A t \in Known :
        /\ y[t] \in Seq(fs) /\ Injects(y[t]) /\ InOrder(y[t])
        /\ ToSet(y[t]) = here(t)
  <2>1. ASSUME NEW t \in Known
        PROVE  /\ y[t] \in Seq(fs) /\ Injects(y[t]) /\ InOrder(y[t])
               /\ ToSet(y[t]) = here(t)
    <3>1. y[t] \in Sortings({f \in fs : f.track = t})
      BY <1>1
    <3> QED BY <3>1, SortedTrack
  <2> QED BY <2>1
<1>3. \A t \in Known : x[t] \in Seq(all)
  <2>1. ASSUME NEW s \in Seq(fs) PROVE Slugs(s) \in Seq(all)
    BY DEF Slugs
  <2> HIDE DEF all
  <2> QED BY <1>1, <1>2, <2>1
<1>4. PICK f \in [0..N -> Seq(all)] :
           /\ f[0] = << >>
           /\ \A i \in 1..N : f[i] = f[i - 1] \o x[TrackOrder[i]]
           /\ Ordered(x) = f[N]
  <2> HIDE DEF all
  <2> QED BY <1>3, OrderedRecursion
<1>5. PICK h \in [0..N -> Seq(fs)] :
           /\ h[0] = << >>
           /\ \A i \in 1..N : h[i] = h[i - 1] \o y[TrackOrder[i]]
  <2>1. \A t \in Known : y[t] \in Seq(fs)
    BY <1>2
  <2>2. \E h \in [0..N -> Seq(fs)] :
           /\ h[0] = << >>
           /\ \A i \in 1..N : h[i] = h[i - 1] \o y[TrackOrder[i]]
           /\ Ordered(y) = h[N]
    BY <2>1, OrderedRecursion
  <2> QED BY <2>2
<1> DEFINE T == {i \in 0..N : /\ f[i] = Slugs(h[i])
                              /\ Injects(h[i]) /\ InOrder(h[i])
                              /\ ToSet(h[i]) = first(i)}
<1>6. 0 \in T
  <2>1. Slugs(<< >>) = << >> /\ Injects(<< >>) /\ InOrder(<< >>) /\ ToSet(<< >>) = {}
    BY DEF Slugs, Injects, InOrder, ToSet
  <2>2. first(0) = {}
    OBVIOUS
  <2> QED BY <1>0, <1>4, <1>5, <2>1, <2>2
<1>7. ASSUME NEW i \in 0..(N - 1), i \in T PROVE i + 1 \in T
  <2> DEFINE t == TrackOrder[i + 1]
             a == h[i]
             b == y[t]
  <2>1. i + 1 \in 1..N /\ (i + 1) - 1 = i /\ i \in 0..N /\ i + 1 \in 0..N
    BY <1>0
  <2>2. t \in Known
    BY <2>1, TrackFacts
  <2>3. /\ a \in Seq(fs) /\ Injects(a) /\ InOrder(a) /\ ToSet(a) = first(i)
        /\ b \in Seq(fs) /\ Injects(b) /\ InOrder(b) /\ ToSet(b) = here(t)
    BY <1>2, <1>5, <1>7, <2>1, <2>2
  <2>4. h[i + 1] = a \o b /\ f[i + 1] = Slugs(a) \o x[t] /\ x[t] = Slugs(b)
    BY <1>1, <1>4, <1>5, <1>7, <2>1, <2>2
  <2>5. f[i + 1] = Slugs(h[i + 1])
    <3> HIDE DEF a, b, t
    <3> QED BY <2>3, <2>4, SlugsConcat
  <2>6. ASSUME NEW m \in DOMAIN a, NEW n \in DOMAIN b PROVE a[m] # b[n] /\ Teaches(a[m], b[n])
    <3>1. a[m] \in first(i) /\ b[n] \in here(t)
      BY <2>3 DEF ToSet
    <3>2. PICK k \in 1..i : TrackOrder[k] = a[m].track
      BY <3>1
    <3>3. k \in 1..N /\ k < i + 1
      BY <1>0, <2>1
    <3>4. Rank(a[m]) = k /\ Rank(b[n]) = i + 1
      BY <2>1, <3>1, <3>2, <3>3, RankFacts DEF Parsable
    <3> QED BY <3>3, <3>4, TeachesFacts
  <2>7. /\ Injects(h[i + 1]) /\ InOrder(h[i + 1])
        /\ ToSet(h[i + 1]) = first(i) \cup here(t)
    <3> HIDE DEF a, b, t, here, first
    <3> QED BY <2>3, <2>4, <2>6, ConcatOrder
  <2>8. first(i) \cup here(t) = first(i + 1)
    <3>1. 1..(i + 1) = (1..i) \cup {i + 1}
      BY <2>1
    <3> QED BY <3>1
  <2> HIDE DEF first
  <2> QED BY <2>1, <2>5, <2>7, <2>8
<1>8. \A i \in 0..N : i \in T
  <2> HIDE DEF T
  <2> QED BY <1>0, <1>6, <1>7, Induction
<1>9. N \in 0..N
  BY <1>0
<1>10. first(N) = fs
  BY TrackFacts DEF Parsable
<1>11. h[N] \in Seq(fs) /\ Injects(h[N]) /\ InOrder(h[N]) /\ ToSet(h[N]) = fs /\ Ordered(x) = Slugs(h[N])
  BY <1>4, <1>8, <1>9, <1>10
<1>12. h[N] \in SetToSeqs(fs)
  BY <1>11, Arrangement
<1> QED BY <1>3, <1>11, <1>12

\* What a build's index comes to, in the terms the properties use.
LEMMA ServedOrder ==
  ASSUME NEW fs, Parsable(fs), NEW x \in Indexes(fs)
  PROVE  /\ Ordered(x) \in Seq({f.slug : f \in fs})
         /\ Injects(Ordered(x))
         /\ ToSet(Ordered(x)) = {f.slug : f \in fs}
<1> DEFINE all == {f.slug : f \in fs}
<1>1. PICK s \in SetToSeqs(fs) : Ordered(x) = Slugs(s)
  BY ParsedOrder
<1>2. s \in Seq(fs) /\ Injects(s) /\ ToSet(s) = fs
  BY ArrangementFacts DEF Parsable
<1>3. Slugs(s) \in Seq(all)
  BY <1>2 DEF Slugs
<1>4. Injects(Slugs(s))
  BY <1>2 DEF Slugs, Injects, Parsable
<1>5. ToSet(Slugs(s)) = {s[i].slug : i \in DOMAIN s}
  BY DEF Slugs, ToSet
<1>6. {s[i].slug : i \in DOMAIN s} = all
  BY <1>2 DEF ToSet
<1> QED BY <1>1, <1>3, <1>4, <1>5, <1>6

-----------------------------------------------------------------------------
\* The invariant that is inductive.

TypeInv ==
  /\ stage \in [Replicas -> {"off", "migrate", "apply", "connect", "parse", "serving"}]
  /\ mode \in [Replicas -> {"migrate", "run", "run and migrate"}]
  /\ DOMAIN commit = Replicas /\ DOMAIN index = Replicas
  /\ pending \in [Replicas -> SUBSET Versions]
  /\ schema \in SUBSET Versions /\ ran \in [Versions -> Nat]
  /\ rows \in [Asked -> {"absent", "in_progress", "completed"}]

\* A replica that has started has a build, and serves what Parse made of it.
HasItsBuild ==
  \A r \in Replicas :
    /\ ~At(r, "off") => commit[r] \in Commits
    /\ At(r, "serving") => /\ ~Refused(Files[commit[r]])
                           /\ index[r] \in Indexes(Files[commit[r]])

\* The lock is held while versions are applied, and no longer.
LockHeld == \A r \in Replicas : lock = r <=> At(r, "apply")

\* What its holder compared is still so: nobody else has applied any of it.
StillMissing ==
  \A r \in Replicas : At(r, "apply") =>
    pending[r] \cap schema = {} /\ Migrations[commit[r]] \subseteq schema \cup pending[r]

AppliedOnce == \A v \in Versions : ran[v] = IF v \in schema THEN 1 ELSE 0

MigratedFirst ==
  \A r \in Replicas :
    (mode[r] = "run and migrate" /\ stage[r] \in {"connect", "parse", "serving"})
      => Migrations[commit[r]] \subseteq schema

\* What the learner was told, and is about to be, is completed is so in the rows;
\* an answer made from them calls nothing unfinished that the learner knew of.
ToldTheTruth ==
  /\ told \subseteq Completed
  /\ \A a \in answers : a.yes \subseteq Completed /\ (a.read => a.no \cap a.knew = {})

IInv ==
  /\ TypeInv /\ HasItsBuild /\ LockHeld /\ StillMissing
  /\ AppliedOnce /\ MigratedFirst /\ ToldTheTruth

-----------------------------------------------------------------------------
\* What a page makes of an index, for any set of completed lessons.

LEMMA PagesAgree ==
  ASSUME NEW fs, Parsable(fs), None \notin {f.slug : f \in fs},
         NEW x \in Indexes(fs), NEW c
  PROVE  /\ GetProgress(x, c) = HomePage(x, c)
         /\ HomePage(x, c).next = Continue(x, c)
         /\ HomePage(x, c).completed = Cardinality({f.slug : f \in fs} \cap c)
         /\ HomePage(x, c).total = Cardinality({f.slug : f \in fs})
<1> DEFINE all == {f.slug : f \in fs}
           o == Ordered(x)
<1>1. /\ o \in Seq(all) /\ Injects(o) /\ ToSet(o) = all
      /\ \A t \in Known : x[t] \in Seq(all)
  BY ServedOrder, ParsedOrder
<1>2. DOMAIN o = 1..Len(o)
  BY <1>1
<1>3. IsFiniteSet(all) /\ Cardinality(all) = Len(o)
  <2> HIDE DEF all, o
  <2> QED BY <1>1, Arrangement
<1>4. TotalCompleted(x, c) = Count(o, c)
  <2> DEFINE count == [t \in Known |-> CompletedCount(x, t, c)]
  <2>1. \A t \in Known : count[t] = Count(x[t], c)
    BY DEF CompletedCount, IsCompleted, Count
  <2>2. TotalCompleted(x, c) = Summed(count)
    BY DEF TotalCompleted
  <2> HIDE DEF count, all
  <2> QED BY <1>1, <2>1, <2>2, OrderedCount
<1>5. Total(x) = Len(o)
  <2> DEFINE count == [t \in Known |-> Len(x[t])]
  <2>1. \A t \in Known : count[t] = Count(x[t], all)
    <3> HIDE DEF all
    <3> QED BY <1>1, CountFacts
  <2>2. Total(x) = Summed(count)
    BY DEF Total
  <2>3. Summed(count) = Count(o, all)
    <3> HIDE DEF count, all
    <3> QED BY <1>1, <2>1, OrderedCount
  <2>4. Count(o, all) = Len(o)
    <3> HIDE DEF all, o
    <3> QED BY <1>1, CountFacts
  <2> QED BY <2>2, <2>3, <2>4
<1>6. Count(o, c) = Cardinality(all \cap c)
  <2> HIDE DEF all, o
  <2> QED BY <1>1, CountDistinct
<1>7. GetProgress(x, c) = Report(o, c, Len(o))
  <2>1. None \notin all
    OBVIOUS
  <2> HIDE DEF all
  <2> QED BY <1>1, <2>1, GetProgressIsReport
<1>8. Report(o, c, Len(o)) = [next |-> Continue(x, c), completed |-> Count(o, c), total |-> Len(o)]
  <2>1. Continue(x, c) = LET todo == {i \in DOMAIN o : o[i] \notin c}
                         IN  IF todo = {} THEN None ELSE o[Min(todo)]
    BY DEF Continue, IsCompleted
  <2> HIDE DEF o
  <2> QED BY <1>2, <2>1 DEF Report, Count
<1> HIDE DEF o, all
<1>9. HomePage(x, c) = [next |-> Continue(x, c), completed |-> Count(o, c), total |-> Len(o)]
  BY <1>4, <1>5 DEF HomePage
<1>10. GetProgress(x, c) = HomePage(x, c)
  BY <1>7, <1>8, <1>9
<1>11. HomePage(x, c).completed = Cardinality(all \cap c) /\ HomePage(x, c).total = Cardinality(all)
  BY <1>3, <1>6, <1>9
<1>12. HomePage(x, c).next = Continue(x, c)
  BY <1>9
<1> QED BY <1>10, <1>11, <1>12 DEF all

\* The lesson to continue with is the first that is not completed.
LEMMA ContinueFacts ==
  ASSUME NEW fs, Parsable(fs), None \notin {f.slug : f \in fs},
         NEW x \in Indexes(fs), NEW c, None \notin c
  PROVE  /\ Continue(x, c) \notin c
         /\ Before(x, Continue(x, c)) \subseteq c
         /\ Continue(x, c) = None <=> {f.slug : f \in fs} \subseteq c
<1> DEFINE all == {f.slug : f \in fs}
           o == Ordered(x)
           todo == {i \in DOMAIN o : o[i] \notin c}
<1>1. o \in Seq(all) /\ ToSet(o) = all
  BY ServedOrder
<1>2. Continue(x, c) = IF todo = {} THEN None ELSE o[Min(todo)]
  BY DEF Continue, IsCompleted
<1>3. Before(x, Continue(x, c)) = {o[i] : i \in {i \in DOMAIN o : \A j \in 1..i : o[j] # Continue(x, c)}}
  BY DEF Before
<1> HIDE DEF o, all
<1>4. DOMAIN o = 1..Len(o) /\ Len(o) \in Nat /\ \A i \in DOMAIN o : o[i] \in all
  BY <1>1
<1>5. CASE todo = {}
  <2>1. \A i \in DOMAIN o : o[i] \in c
    BY <1>5
  <2>2. all \subseteq c
    BY <1>1, <2>1 DEF ToSet
  <2> QED BY <1>2, <1>3, <1>5, <2>1, <2>2 DEF all
<1>6. CASE todo # {}
  <2> DEFINE m == Min(todo)
  <2>1. todo \in SUBSET Nat
    BY <1>4
  <2>2. m \in todo /\ \A k \in todo : m <= k
    <3> HIDE DEF todo
    <3> QED BY <1>6, <2>1, MinFacts
  <2>3. Continue(x, c) = o[m]
    BY <1>2, <1>6
  <2> HIDE DEF m
  <2>4. ASSUME NEW i \in DOMAIN o, \A j \in 1..i : o[j] # o[m] PROVE o[i] \in c
    <3>1. i < m
      BY <1>4, <2>2, <2>4
    <3> QED BY <1>4, <2>2, <3>1
  <2>5. o[m] \notin c /\ o[m] \in all
    BY <1>4, <2>2
  <2>6. o[m] # None
    BY <2>5 DEF all
  <2>7. \A s \in Before(x, Continue(x, c)) : s \in c
    BY <1>3, <2>3, <2>4
  <2> QED BY <2>3, <2>5, <2>6, <2>7 DEF all
<1> QED BY <1>5, <1>6

\* What the assumption says of a commit that Parse does not refuse.
LEMMA CommitFacts ==
  ASSUME NEW k \in Commits, ~Refused(Files[k])
  PROVE  Parsable(Files[k]) /\ None \notin {f.slug : f \in Files[k]}
BY DeploysAssumption DEF Refused, Parsable

-----------------------------------------------------------------------------
\* The invariant holds of every step.

LEMMA InitHolds == Init => IInv
<1> SUFFICES ASSUME Init PROVE IInv
  OBVIOUS
<1> USE DEF Init
<1>1. TypeInv
  BY DEF TypeInv, Versions
<1>2. HasItsBuild /\ LockHeld /\ StillMissing /\ MigratedFirst
  BY DeploysAssumption DEF HasItsBuild, LockHeld, StillMissing, MigratedFirst, At
<1>3. AppliedOnce /\ ToldTheTruth
  BY DEF AppliedOnce, ToldTheTruth
<1> QED BY <1>1, <1>2, <1>3 DEF IInv

\* A step of the learner's that changes no replica, and tells the truth.
LEMMA TruthIsKept ==
  ASSUME IInv, UNCHANGED replicas, TypeInv', ToldTheTruth'
  PROVE  IInv'
<1> USE DEF replicas
<1>1. HasItsBuild' /\ LockHeld' /\ StillMissing'
  BY DEF IInv, HasItsBuild, LockHeld, StillMissing, At
<1>2. AppliedOnce' /\ MigratedFirst'
  BY DEF IInv, AppliedOnce, MigratedFirst
<1> QED BY <1>1, <1>2 DEF IInv

\* An answer is sent whose completed lessons are so, and whose others are not if it
\* was made from the rows; the statement before it took no completion back.
LEMMA TellingTheTruth ==
  ASSUME IInv, NEW yes, NEW no, NEW read, Send(yes, no, read),
         rows' \in [Asked -> {"absent", "in_progress", "completed"}],
         Completed \subseteq Completed', yes \subseteq Completed',
         read => no \cap Completed = {}
  PROVE  IInv'
<1> DEFINE new == [yes |-> yes, no |-> no, read |-> read, knew |-> no \cap told]
<1>1. answers' = answers \cup {new} /\ UNCHANGED <<replicas, told>>
  BY DEF Send
<1>2. TypeInv'
  BY <1>1 DEF IInv, TypeInv, replicas
<1>3. told \subseteq Completed
  BY DEF IInv, ToldTheTruth
<1>4. new.yes \subseteq Completed' /\ (new.read => new.no \cap new.knew = {})
  BY <1>3
<1>5. ToldTheTruth'
  <2> HIDE DEF new
  <2> QED BY <1>1, <1>3, <1>4 DEF IInv, ToldTheTruth
<1> QED BY <1>1, <1>2, <1>5, TruthIsKept

\* The same of one that only reads.
LEMMA ReadingTheTruth ==
  ASSUME IInv, NEW yes, NEW no, NEW read, Send(yes, no, read), UNCHANGED rows,
         yes \subseteq Completed, read => no \cap Completed = {}
  PROVE  IInv'
<1>1. Completed' = Completed
  BY DEF Completed, Listed
<1>2. rows' \in [Asked -> {"absent", "in_progress", "completed"}]
  BY DEF IInv, TypeInv
<1> QED BY <1>1, <1>2, TellingTheTruth

LEMMA RowsAreRead ==
  ASSUME IInv, NEW slugs, FromRows(slugs) \/ Unmarked(slugs), UNCHANGED rows
  PROVE  IInv'
<1>1. CASE FromRows(slugs)
  <2>1. Send(slugs \cap Completed, slugs \ Completed, TRUE)
    BY <1>1 DEF FromRows
  <2>2. slugs \cap Completed \subseteq Completed /\ (slugs \ Completed) \cap Completed = {}
    OBVIOUS
  <2> QED BY <2>1, <2>2, ReadingTheTruth
<1>2. CASE Unmarked(slugs)
  <2>1. Send({}, slugs, FALSE)
    BY <1>2 DEF Unmarked
  <2>2. PICK read : read = FALSE
    OBVIOUS
  <2>3. Send({}, slugs, read)
    BY <2>1, <2>2
  <2>4. {} \subseteq Completed /\ (read => slugs \cap Completed = {})
    BY <2>2
  <2> QED BY <2>3, <2>4, ReadingTheTruth
<1> QED BY <1>1, <1>2

LEMMA AnswersHold ==
  ASSUME IInv, NEW a \in answers, Arrive(a) \/ Lose(a)
  PROVE  IInv'
<1>1. UNCHANGED <<replicas, rows>> /\ answers' \subseteq answers
  BY DEF Arrive, Lose
<1>2. Completed' = Completed
  BY <1>1 DEF Completed, Listed
<1>3. told' \subseteq told \cup a.yes
  BY DEF Arrive, Lose
<1>4. TypeInv' /\ ToldTheTruth'
  BY <1>1, <1>2, <1>3 DEF IInv, TypeInv, ToldTheTruth, replicas
<1> QED BY <1>1, <1>4, TruthIsKept

\* Completion is sticky, whatever a statement writes.
LEMMA CompletedGrows ==
  ASSUME TypeInv, NEW s \in Asked, NEW new \in {"in_progress", "completed"},
         rows' = [rows EXCEPT ![s] = Upserted(@, new)]
  PROVE  /\ rows' \in [Asked -> {"absent", "in_progress", "completed"}]
         /\ Completed \subseteq Completed'
         /\ new = "completed" => s \in Completed'
<1> USE DEF TypeInv, Upserted
<1>1. rows' \in [Asked -> {"absent", "in_progress", "completed"}]
  OBVIOUS
<1>2. Completed = {t \in Asked : rows[t] = "completed"}
  BY DEF Completed, Listed, Finished
<1>3. Completed' = {t \in Asked : rows'[t] = "completed"}
  BY DEF Completed, Listed, Finished
<1> QED BY <1>1, <1>2, <1>3

LEMMA ServingFacts ==
  ASSUME IInv, NEW r \in Replicas, At(r, "serving")
  PROVE  LET fs == Files[commit[r]] IN
           /\ Parsable(fs) /\ None \notin {f.slug : f \in fs}
           /\ index[r] \in Indexes(fs) /\ None \notin Completed
<1>1. commit[r] \in Commits /\ ~Refused(Files[commit[r]]) /\ index[r] \in Indexes(Files[commit[r]])
  BY DEF IInv, HasItsBuild, At
<1>2. None \notin Completed
  BY DeploysAssumption DEF Completed, Listed
<1> QED BY <1>1, <1>2, CommitFacts

LEMMA ServingPages ==
  ASSUME IInv, NEW r \in Replicas, At(r, "serving")
  PROVE  /\ HomePage(index[r], Completed).next = Continue(index[r], Completed)
         /\ GetProgress(index[r], Completed) = HomePage(index[r], Completed)
         /\ Continue(index[r], Completed) \notin Completed
         /\ Before(index[r], Continue(index[r], Completed)) \subseteq Completed
<1> DEFINE fs == Files[commit[r]]
           x == index[r]
           c == Completed
<1>1. Parsable(fs) /\ None \notin {f.slug : f \in fs} /\ x \in Indexes(fs) /\ None \notin c
  BY ServingFacts
<1> HIDE DEF fs, x, c
<1>2. GetProgress(x, c) = HomePage(x, c) /\ HomePage(x, c).next = Continue(x, c)
  BY <1>1, PagesAgree
<1>3. Continue(x, c) \notin c /\ Before(x, Continue(x, c)) \subseteq c
  BY <1>1, ContinueFacts
<1> QED BY <1>2, <1>3 DEF x, c

LEMMA LearnerHolds ==
  ASSUME IInv, NEW r \in Replicas, Routes(r) \/ Tools(r)
  PROVE  IInv'
<1>1. CASE Home(r)
  <2> DEFINE page == HomePage(index[r], Completed)
  <2>1. page.next = Continue(index[r], Completed)
    BY <1>1, ServingPages DEF Home, Serves
  <2>2. Before(index[r], page.next) \subseteq Completed /\ {page.next} \cap Completed = {}
    BY <1>1, <2>1, ServingPages DEF Home, Serves
  <2>3. Send(Before(index[r], page.next), {page.next}, TRUE) /\ UNCHANGED rows
    BY <1>1 DEF Home
  <2> HIDE DEF page
  <2> QED BY <2>2, <2>3, ReadingTheTruth
<1>2. CASE ReadProgress(r)
  <2> DEFINE report == GetProgress(index[r], Completed)
  <2>1. report.next = Continue(index[r], Completed)
    BY <1>2, ServingPages DEF ReadProgress, Serves
  <2>2. Before(index[r], report.next) \subseteq Completed /\ {report.next} \cap Completed = {}
    BY <1>2, <2>1, ServingPages DEF ReadProgress, Serves
  <2>3. Send(Before(index[r], report.next), {report.next}, TRUE) /\ UNCHANGED rows
    BY <1>2 DEF ReadProgress
  <2> HIDE DEF report
  <2> QED BY <2>2, <2>3, ReadingTheTruth
<1>3. CASE List(r)
  BY <1>3, RowsAreRead DEF List
<1>4. CASE ListTrack(r)
  BY <1>4, RowsAreRead DEF ListTrack
<1>5. ASSUME NEW s \in Asked, GetLesson(r, s) PROVE IInv'
  BY <1>5, RowsAreRead DEF GetLesson
<1>6. ASSUME NEW s \in Asked, Show(r, s) PROVE IInv'
  <2>1. rows' = [rows EXCEPT ![s] = Upserted(@, "in_progress")] \/ rows' = rows
    BY <1>6 DEF Show
  <2>2. /\ rows' \in [Asked -> {"absent", "in_progress", "completed"}]
        /\ Completed \subseteq Completed'
    <3>1. CASE rows' = rows
      BY <3>1 DEF IInv, TypeInv, Completed, Listed
    <3> QED BY <2>1, <3>1, CompletedGrows DEF IInv
  <2>3. UNCHANGED <<replicas, answers, told>>
    BY <1>6 DEF Show
  <2>4. TypeInv'
    BY <2>2, <2>3 DEF IInv, TypeInv, replicas
  <2>5. ToldTheTruth'
    BY <2>2, <2>3 DEF IInv, ToldTheTruth
  <2> QED BY <2>3, <2>4, <2>5, TruthIsKept
<1>7. ASSUME NEW s \in Asked, Shown(r, s) PROVE IInv'
  <2>1. CASE Send(Got(s), {s} \ Got(s), TRUE)
    <3>1. Got(s) \subseteq Completed /\ ({s} \ Got(s)) \cap Completed = {} /\ UNCHANGED rows
      BY <1>7 DEF Got, Shown
    <3> QED BY <2>1, <3>1, ReadingTheTruth
  <2>2. CASE Unmarked({s})
    BY <1>7, <2>2, RowsAreRead DEF Shown
  <2> QED BY <1>7, <2>1, <2>2 DEF Shown
<1>8. ASSUME NEW s \in Asked, Complete(r, s) PROVE IInv'
  <2>1. /\ rows' \in [Asked -> {"absent", "in_progress", "completed"}]
        /\ Completed \subseteq Completed' /\ s \in Completed'
    BY <1>8, CompletedGrows DEF Complete, IInv
  <2>2. CASE Send({s}, {}, TRUE)
    BY <2>1, <2>2, TellingTheTruth
  <2>3. CASE UNCHANGED <<replicas, answers, told>>
    <3>1. TypeInv'
      BY <2>1, <2>3 DEF IInv, TypeInv, replicas
    <3>2. ToldTheTruth'
      BY <2>1, <2>3 DEF IInv, ToldTheTruth
    <3> QED BY <2>3, <3>1, <3>2, TruthIsKept
  <2> QED BY <1>8, <2>2, <2>3 DEF Complete
<1> QED BY <1>1, <1>2, <1>3, <1>4, <1>5, <1>6, <1>7, <1>8 DEF Routes, Tools

LEMMA StartHolds ==
  ASSUME IInv, NEW r \in Replicas, Start(r)
  PROVE  IInv'
<1> USE DEF IInv, Start, At, Goto, learner, TypeInv
<1>0. stage[r] = "off" /\ stage'[r] \in {"connect", "migrate"} /\ commit'[r] \in Commits
      /\ \A q \in Replicas \ {r} : stage'[q] = stage[q] /\ mode'[q] = mode[q] /\ commit'[q] = commit[q]
      /\ (mode'[r] = "run and migrate" => stage'[r] = "migrate")
  OBVIOUS
<1>1. TypeInv'
  OBVIOUS
<1>2. UNCHANGED <<pending, index, lock, schema, ran, rows, opening, answers, told>>
  OBVIOUS
<1>3. HasItsBuild' /\ LockHeld' /\ StillMissing' /\ MigratedFirst'
  <2>1. \A q \in Replicas \ {r} : At(q, "apply") <=> At(q, "apply")'
    BY <1>0
  <2>2. HasItsBuild'
    BY <1>0, <1>2 DEF HasItsBuild
  <2>3. LockHeld'
    <3>1. \A q \in Replicas : lock = q <=> At(q, "apply")
      BY DEF LockHeld
    <3>2. ~At(r, "apply") /\ ~(At(r, "apply")')
      BY <1>0
    <3> HIDE DEF At, Start
    <3> QED BY <1>2, <2>1, <3>1, <3>2 DEF LockHeld
  <2>4. StillMissing'
    BY <1>0, <1>2, <2>1 DEF StillMissing
  <2>5. MigratedFirst'
    BY <1>0, <1>2 DEF MigratedFirst
  <2> QED BY <2>2, <2>3, <2>4, <2>5
<1>4. AppliedOnce' /\ ToldTheTruth'
  BY <1>2 DEF AppliedOnce, ToldTheTruth, Completed, Listed
<1> QED BY <1>1, <1>3, <1>4

LEMMA LockHolds ==
  ASSUME IInv, NEW r \in Replicas, Lock(r)
  PROVE  IInv'
<1> USE DEF IInv, Lock, At, Goto, learner, TypeInv
<1>0. /\ commit[r] \in Commits /\ lock = None
      /\ \A q \in Replicas : stage[q] # "apply"
  BY DeploysAssumption DEF HasItsBuild, LockHeld, Free
<1>1. TypeInv'
  <2>1. Missing(r) \in SUBSET Versions
    BY <1>0 DEF Missing, Versions
  <2>2. pending' \in [Replicas -> SUBSET Versions]
    BY <2>1
  <2> QED BY <2>2
<1>2. LockHeld'
  BY <1>0 DEF LockHeld
<1>3. HasItsBuild' /\ StillMissing' /\ MigratedFirst'
  BY <1>0 DEF HasItsBuild, StillMissing, MigratedFirst, Missing
<1>4. AppliedOnce' /\ ToldTheTruth'
  BY DEF AppliedOnce, ToldTheTruth, Completed, Listed
<1> QED BY <1>1, <1>2, <1>3, <1>4

LEMMA ApplyHolds ==
  ASSUME IInv, NEW r \in Replicas, Apply(r)
  PROVE  IInv'
<1> USE DEF IInv, At, learner, TypeInv
<1>0. PICK v \in pending[r] :
        /\ schema' = schema \cup {v}
        /\ ran' = [ran EXCEPT ![v] = @ + 1]
        /\ pending' = [pending EXCEPT ![r] = @ \ {v}]
  BY DEF Apply
<1>1. /\ stage[r] = "apply" /\ v \in Versions /\ v \notin schema
      /\ UNCHANGED <<stage, mode, commit, index, lock, rows, answers, told>>
  BY DEF Apply, StillMissing
<1>2. TypeInv'
  <2>1. pending' \in [Replicas -> SUBSET Versions]
    BY <1>0
  <2>2. ran' \in [Versions -> Nat]
    <3>1. ran \in [Versions -> Nat]
      OBVIOUS
    <3> HIDE DEF IInv, TypeInv
    <3> QED BY <1>0, <1>1, <3>1
  <2>3. schema' \in SUBSET Versions
    BY <1>0, <1>1
  <2> QED BY <1>1, <2>1, <2>2, <2>3
<1>3. HasItsBuild' /\ LockHeld' /\ ToldTheTruth'
  BY <1>1 DEF HasItsBuild, LockHeld, ToldTheTruth, Completed, Listed
<1>4. \A q \in Replicas : stage[q] = "apply" => q = r
  BY <1>1 DEF LockHeld
<1>5. StillMissing'
  BY <1>0, <1>1, <1>4 DEF StillMissing
<1>6. MigratedFirst'
  BY <1>0, <1>1 DEF MigratedFirst
<1>7. AppliedOnce'
  <2>1. \A w \in Versions : ran'[w] = IF w = v THEN ran[w] + 1 ELSE ran[w]
    BY <1>0, <1>1
  <2>2. ran[v] = 0
    BY <1>1 DEF AppliedOnce
  <2>3. ASSUME NEW w \in Versions PROVE ran'[w] = IF w \in schema' THEN 1 ELSE 0
    <3>1. ran[w] = IF w \in schema THEN 1 ELSE 0
      BY DEF AppliedOnce
    <3>2. w \in schema' <=> w \in schema \/ w = v
      BY <1>0
    <3> HIDE DEF IInv, TypeInv
    <3>3. CASE w = v
      <4>1. ran'[v] = 1
        BY <1>1, <2>1, <2>2
      <4> QED BY <3>2, <3>3, <4>1
    <3>4. CASE w # v
      BY <2>1, <3>1, <3>2, <3>4
    <3> QED BY <3>3, <3>4
  <2> QED BY <2>3 DEF AppliedOnce
<1> QED BY <1>2, <1>3, <1>5, <1>6, <1>7

LEMMA MigratedHolds ==
  ASSUME IInv, NEW r \in Replicas, Migrated(r)
  PROVE  IInv'
<1> USE DEF IInv, Migrated, Off, At, Goto, learner, TypeInv
<1>0. lock = r /\ lock' = None /\ None \notin Replicas
  BY DeploysAssumption DEF LockHeld, Unlocked
<1>1. TypeInv'
  OBVIOUS
<1>2. LockHeld'
  BY <1>0 DEF LockHeld
<1>3. HasItsBuild' /\ StillMissing'
  <2>1. \A q \in Replicas \ {r} : UNCHANGED <<stage[q], commit[q], pending[q]>>
    OBVIOUS
  <2>2. UNCHANGED <<schema, index>> /\ ~At(r, "apply")' /\ ~At(r, "serving")'
    OBVIOUS
  <2>3. ~At(r, "off")' => commit'[r] \in Commits
    BY DEF HasItsBuild
  <2>4. HasItsBuild'
    BY <2>1, <2>2, <2>3 DEF HasItsBuild
  <2>5. StillMissing'
    BY <2>1, <2>2 DEF StillMissing
  <2> QED BY <2>4, <2>5
<1>4. MigratedFirst'
  <2>1. Migrations[commit[r]] \subseteq schema
    BY DEF StillMissing
  <2>2. UNCHANGED schema
    OBVIOUS
  <2>3. \A q \in Replicas \ {r} : UNCHANGED <<stage[q], mode[q], commit[q]>>
    OBVIOUS
  <2>4. CASE mode[r] = "migrate"
    BY <2>2, <2>3, <2>4 DEF MigratedFirst
  <2>5. CASE mode[r] # "migrate"
    BY <2>1, <2>2, <2>5 DEF MigratedFirst
  <2> QED BY <2>4, <2>5
<1>5. AppliedOnce' /\ ToldTheTruth'
  BY DEF AppliedOnce, ToldTheTruth, Completed, Listed
<1> QED BY <1>1, <1>2, <1>3, <1>4, <1>5

LEMMA ConnectHolds ==
  ASSUME IInv, NEW r \in Replicas, Connect(r)
  PROVE  IInv'
<1> USE DEF IInv, Connect, At, Goto, learner, TypeInv
<1>1. TypeInv'
  OBVIOUS
<1>2. HasItsBuild' /\ LockHeld' /\ StillMissing' /\ MigratedFirst'
  BY DEF HasItsBuild, LockHeld, StillMissing, MigratedFirst
<1>3. AppliedOnce' /\ ToldTheTruth'
  BY DEF AppliedOnce, ToldTheTruth, Completed, Listed
<1> QED BY <1>1, <1>2, <1>3

LEMMA ParseHolds ==
  ASSUME IInv, NEW r \in Replicas, Parse(r)
  PROVE  IInv'
<1> USE DEF IInv, Parse, At, Goto, learner, TypeInv
<1>1. TypeInv'
  OBVIOUS
<1>2. LockHeld' /\ StillMissing' /\ MigratedFirst'
  BY DEF LockHeld, StillMissing, MigratedFirst
<1>3. HasItsBuild'
  BY DEF HasItsBuild
<1>4. AppliedOnce' /\ ToldTheTruth'
  BY DEF AppliedOnce, ToldTheTruth, Completed, Listed
<1> QED BY <1>1, <1>2, <1>3, <1>4

LEMMA ExitHolds ==
  ASSUME IInv, NEW r \in Replicas, Exit(r)
  PROVE  IInv'
<1> USE DEF IInv, Exit, Off, At, Goto, learner, TypeInv
<1>0. (lock' = IF lock = r THEN None ELSE lock) /\ None \notin Replicas
  BY DeploysAssumption DEF Unlocked
<1>1. TypeInv'
  OBVIOUS
<1>2. LockHeld'
  BY <1>0 DEF LockHeld
<1>3. HasItsBuild' /\ StillMissing' /\ MigratedFirst'
  BY DEF HasItsBuild, StillMissing, MigratedFirst
<1>4. AppliedOnce' /\ ToldTheTruth'
  BY DEF AppliedOnce, ToldTheTruth, Completed, Listed
<1> QED BY <1>1, <1>2, <1>3, <1>4

LEMMA NextHolds == IInv /\ [Next]_vars => IInv'
<1> SUFFICES ASSUME IInv, [Next]_vars PROVE IInv'
  OBVIOUS
<1>1. ASSUME NEW r \in Replicas, Boot(r) PROVE IInv'
  BY <1>1, StartHolds, LockHolds, ApplyHolds, MigratedHolds, ConnectHolds, ParseHolds,
     ExitHolds DEF Boot
<1>2. ASSUME NEW r \in Replicas, Routes(r) \/ Tools(r) PROVE IInv'
  BY <1>2, LearnerHolds
<1>3. ASSUME NEW a \in answers, Arrive(a) \/ Lose(a) PROVE IInv'
  BY <1>3, AnswersHold
<1>4. CASE UNCHANGED vars
  <2>1. UNCHANGED replicas /\ UNCHANGED <<rows, answers, told>>
    BY <1>4 DEF vars, learner
  <2>2. TypeInv' /\ ToldTheTruth'
    BY <2>1 DEF IInv, TypeInv, ToldTheTruth, Completed, Listed, replicas
  <2> QED BY <2>1, <2>2, TruthIsKept
<1> QED BY <1>1, <1>2, <1>3, <1>4 DEF Next

-----------------------------------------------------------------------------
\* The theorems.

\* In every reachable state each replica runs its build's index, one at most holds
\* the lock and knows what is missing, what is applied was applied once, and the
\* learner was told the truth (main.go:84-160, migrate.go:28-44, parse.go:110-155).
THEOREM DeploysInvariant == Spec => []IInv
<1> QED BY InitHolds, NextHolds, PTL DEF Spec

\* No version is applied twice, however many replicas start at once and wherever
\* they stop, and one that migrates serves with all of its build's (migrate.go:28-44).
THEOREM NoVersionTwice == Spec => []MigratedOnceAndWhole
<1>1. ASSUME IInv PROVE MigratedOnceAndWhole
  <2>1. \A v \in Versions : ran[v] <= 1
    BY <1>1 DEF IInv, AppliedOnce
  <2>2. \A r \in Serving : mode[r] = "run and migrate" => Migrations[commit[r]] \subseteq schema
    BY <1>1 DEF IInv, MigratedFirst, Serving, At
  <2> QED BY <2>1, <2>2 DEF MigratedOnceAndWhole
<1> QED BY <1>1, DeploysInvariant, PTL

\* Whatever is deployed, in whatever order, no answer made from the rows takes back
\* a completion that the learner had been told of by then; an answer without the
\* rows may (progress/db/queries.sql:9-20, handler.go:232-324).
THEOREM CompletionStays == Spec => []NothingIsTakenBack
<1>1. IInv => NothingIsTakenBack
  BY DEF IInv, ToldTheTruth, NothingIsTakenBack
<1> QED BY <1>1, DeploysInvariant, PTL

\* The reading order is that of the files, whatever the sort leaves to chance
\* (parse.go:62-69, 142-171).
THEOREM ServesItsLessons == Spec => []EveryLessonIsServed
<1>1. ASSUME IInv PROVE EveryLessonIsServed
  <2> SUFFICES ASSUME NEW r \in Serving
               PROVE  LET fs == Files[commit[r]]
                          o == Ordered(index[r])
                      IN  /\ \E s \in SetToSeqs(fs) :
                               /\ \A i, j \in DOMAIN s : i < j => Teaches(s[i], s[j])
                               /\ o = Slugs(s)
                          /\ \A i \in DOMAIN o :
                               NextOf(index[r], o[i]) = IF i = Len(o) THEN None ELSE o[i + 1]
                          /\ Sitemap(index[r]) = {f.slug : f \in fs}
    BY DEF EveryLessonIsServed
  <2> DEFINE fs == Files[commit[r]]
             x == index[r]
             o == Ordered(x)
  <2>1. Parsable(fs) /\ x \in Indexes(fs)
    BY <1>1, ServingFacts DEF Serving
  <2>2. \E s \in SetToSeqs(fs) : InOrder(s) /\ o = Slugs(s)
    BY <2>1, ParsedOrder
  <2>3. o \in Seq({f.slug : f \in fs}) /\ Injects(o) /\ ToSet(o) = {f.slug : f \in fs}
    BY <2>1, ServedOrder
  <2>4. ASSUME NEW i \in DOMAIN o
        PROVE  NextOf(x, o[i]) = IF i = Len(o) THEN None ELSE o[i + 1]
    <3> DEFINE n == {k \in DOMAIN o : o[k] = o[i] /\ k + 1 \in DOMAIN o}
    <3>1. NextOf(x, o[i]) = IF n = {} THEN None ELSE o[(CHOOSE k \in n : TRUE) + 1]
      BY DEF NextOf
    <3> HIDE DEF o, fs
    <3>2. DOMAIN o = 1..Len(o) /\ Len(o) \in Nat
      BY <2>3
    <3>3. n = IF i = Len(o) THEN {} ELSE {i}
      BY <2>3, <3>2 DEF Injects
    <3> HIDE DEF n
    <3> QED BY <3>1, <3>3
  <2>5. Sitemap(x) = {f.slug : f \in fs}
    BY <2>3 DEF Sitemap
  <2> QED BY <2>2, <2>4, <2>5 DEF InOrder
<1> QED BY <1>1, DeploysInvariant, PTL

\* The dashboard and an agent's report count the same lessons, and count them
\* right (home.templ:127-143, tools.go:286-308).
THEOREM ReportsAgree == Spec => []SurfacesAgree
<1>1. ASSUME IInv PROVE SurfacesAgree
  <2> SUFFICES ASSUME NEW r \in Serving
               PROVE  LET home == HomePage(index[r], Completed)
                          here == {f.slug : f \in Files[commit[r]]}
                      IN  /\ GetProgress(index[r], Completed) = home
                          /\ home.completed = Cardinality(here \cap Completed)
                          /\ home.total = Cardinality(here)
                          /\ (home.next = None) <=> (here \subseteq Completed)
    BY DEF SurfacesAgree
  <2> DEFINE fs == Files[commit[r]]
             x == index[r]
             c == Completed
             here == {f.slug : f \in fs}
  <2>1. Parsable(fs) /\ None \notin here /\ x \in Indexes(fs) /\ None \notin c
    BY <1>1, ServingFacts DEF Serving
  <2> HIDE DEF fs, x, c
  <2>2. /\ GetProgress(x, c) = HomePage(x, c) /\ HomePage(x, c).next = Continue(x, c)
        /\ HomePage(x, c).completed = Cardinality(here \cap c)
        /\ HomePage(x, c).total = Cardinality(here)
    BY <2>1, PagesAgree
  <2>3. Continue(x, c) = None <=> here \subseteq c
    BY <2>1, ContinueFacts
  <2> HIDE DEF here
  <2> QED BY <2>2, <2>3 DEF fs, x, c, here
<1> QED BY <1>1, DeploysInvariant, PTL
=============================================================================
