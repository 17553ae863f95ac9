---------------------------- MODULE ExecutorProofs ----------------------------
(***************************************************************************)
(* For every set of keys, of modules and every budget: the map and the     *)
(* recency list of ModuleCache describe the same entries, the byte count   *)
(* is their size, eviction takes the least recently used and no more of    *)
(* them than the budget asks for, and the cache is a ForgetfulStore.  For  *)
(* every number of requests, slots and submissions: each token in the      *)
(* compileSlots channel belongs to one request that will give it back, and *)
(* what runs for a request is what it submitted.  And what Executor        *)
(* assumes of one call of the compiler is what Compiler does.              *)
(***************************************************************************)
EXTENDS Executor, CacheHistory, Compiler, SequenceTheorems, FiniteSetTheorems, TLAPS

\* The cache on its own: its types, and list and map in step.
CacheInv == CacheTypeOK /\ ListMatchesMap

\* Moving a held key to the front permutes the list (cache.go:56, 75).
LEMMA MoveToFrontPermutes ==
  ASSUME CacheInv, NEW k \in Held, MoveToFront(k)
  PROVE  /\ order' \in Seq(Keys)
         /\ KeysAt(order', 1..Len(order')) = Held
         /\ \A i, j \in 1..Len(order') : order'[i] = order'[j] => i = j
<1> DEFINE N == Len(order)
<1>1. /\ N \in Nat
      /\ order \in [1..N -> Keys]
      /\ Held \subseteq Keys
  BY DEF CacheInv, CacheTypeOK
<1>2. /\ KeysAt(order, 1..N) = Held
      /\ \A i, j \in 1..N : order[i] = order[j] => i = j
  BY DEF CacheInv, ListMatchesMap
<1>3. PICK p \in 1..N :
        /\ order[p] = k
        /\ order' = [i \in 1..N |->
                       IF i = 1 THEN k ELSE IF i <= p THEN order[i - 1] ELSE order[i]]
  BY DEF MoveToFront
<1>4. order' \in [1..N -> Keys]
  BY <1>1, <1>3
<1>5. order' \in Seq(Keys) /\ Len(order') = N
  BY <1>1, <1>4
<1>6. KeysAt(order', 1..N) = Held
  <2>1. ASSUME NEW i \in 1..N PROVE order'[i] \in Held
    BY <1>1, <1>2, <1>3 DEF KeysAt
  <2>2. ASSUME NEW j \in Held PROVE \E i \in 1..N : order'[i] = j
    <3>1. PICK q \in 1..N : order[q] = j
      BY <1>2 DEF KeysAt
    <3>2. CASE q = p
      BY <1>1, <1>3, <3>1, <3>2
    <3>3. CASE q < p
      <4>1. q + 1 \in 1..N /\ order'[q + 1] = order[q]
        BY <1>1, <1>3, <3>3
      <4> QED BY <3>1, <4>1
    <3>4. CASE q > p
      <4>1. order'[q] = order[q]
        BY <1>1, <1>3, <3>4
      <4> QED BY <3>1, <4>1
    <3> QED BY <1>1, <3>2, <3>3, <3>4
  <2> QED BY <2>1, <2>2 DEF KeysAt
<1>7. \A i, j \in 1..N : order'[i] = order'[j] => i = j
  BY <1>1, <1>2, <1>3
<1> QED BY <1>5, <1>6, <1>7

LEMMA GetKeepsInv ==
  ASSUME CacheInv, NEW k \in Keys, Get(k)
  PROVE  CacheInv'
<1>1. CASE k \in Held
  BY <1>1, MoveToFrontPermutes DEF Get, CacheInv, CacheTypeOK, ListMatchesMap, Held
<1>2. CASE k \notin Held
  BY <1>2 DEF Get, CacheInv, CacheTypeOK, ListMatchesMap, Held
<1> QED BY <1>1, <1>2

LEMMA ReplaceKeepsInv ==
  ASSUME CacheInv, NEW k \in Keys, NEW m \in Modules, Replace(k, m)
  PROVE  CacheInv'
<1>1. Held' = Held /\ entries' \in [Held -> Modules]
  BY DEF Replace, CacheInv, CacheTypeOK, Held
<1>2. MoveToFront(k) /\ k \in Held
  BY DEF Replace
<1> QED BY <1>1, <1>2, MoveToFrontPermutes DEF CacheInv, CacheTypeOK, ListMatchesMap, Held

\* Inserting keeps a prefix of the list with the new key at its front, and
\* exactly the map entries of that prefix (cache.go:79-91).
\* The list with a new key at its front (cache.go:79).
Listed(k) == <<k>> \o order

LEMMA ListedFacts ==
  ASSUME CacheInv, NEW k \in Keys, k \notin Held
  PROVE  /\ Len(order) \in Nat
         /\ Listed(k) \in Seq(Keys)
         /\ Len(Listed(k)) = Len(order) + 1
         /\ Listed(k)[1] = k
         /\ \A i \in 1..Len(Listed(k)) : Listed(k)[i] = IF i = 1 THEN k ELSE order[i - 1]
         /\ KeysAt(Listed(k), 1..Len(Listed(k))) = Held \cup {k}
         /\ \A i, j \in 1..Len(Listed(k)) : Listed(k)[i] = Listed(k)[j] => i = j
<1> DEFINE o == Listed(k)
<1>1. /\ order \in Seq(Keys)
      /\ KeysAt(order, 1..Len(order)) = Held
      /\ \A i, j \in 1..Len(order) : order[i] = order[j] => i = j
  BY DEF CacheInv, CacheTypeOK, ListMatchesMap
<1>2. /\ o \in Seq(Keys)
      /\ Len(order) \in Nat
      /\ Len(o) = Len(order) + 1
      /\ \A i \in 1..Len(o) : o[i] = IF i = 1 THEN k ELSE order[i - 1]
  BY <1>1 DEF Listed
<1> HIDE DEF o
<1>3. ASSUME NEW i \in 1..Len(o)
      PROVE  o[i] \in Held \cup {k} /\ (o[i] = k <=> i = 1)
  <2>1. CASE i = 1
    BY <1>2, <2>1
  <2>2. CASE i # 1
    <3>1. i - 1 \in 1..Len(order) /\ o[i] = order[i - 1]
      BY <1>2, <2>2
    <3>2. order[i - 1] \in Held
      BY <1>1, <3>1 DEF KeysAt
    <3> QED BY <2>2, <3>1, <3>2
  <2> QED BY <2>1, <2>2
<1>4. ASSUME NEW j \in Held \cup {k} PROVE \E i \in 1..Len(o) : o[i] = j
  <2>1. CASE j = k
    BY <1>2, <2>1
  <2>2. CASE j \in Held
    <3>1. PICK i \in 1..Len(order) : order[i] = j
      BY <1>1, <2>2 DEF KeysAt
    <3>2. i + 1 \in 1..Len(o) /\ o[i + 1] = j
      BY <1>2, <3>1
    <3> QED BY <3>2
  <2> QED BY <2>1, <2>2
<1>5. KeysAt(o, 1..Len(o)) = Held \cup {k}
  BY <1>3, <1>4 DEF KeysAt
<1>6. \A i, j \in 1..Len(o) : o[i] = o[j] => i = j
  <2> SUFFICES ASSUME NEW i \in 1..Len(o), NEW j \in 1..Len(o), o[i] = o[j], i # 1, j # 1
               PROVE  i = j
    BY <1>3
  <2>1. i - 1 \in 1..Len(order) /\ j - 1 \in 1..Len(order) /\ order[i - 1] = order[j - 1]
    BY <1>2
  <2>2. i - 1 = j - 1
    BY <1>1, <2>1
  <2> QED BY <1>2, <2>2
<1>7. o[1] = k
  BY <1>2
<1> QED BY <1>2, <1>5, <1>6, <1>7 DEF o

LEMMA InsertKeepsInv ==
  ASSUME CacheInv, NEW k \in Keys, NEW m \in Modules, Insert(k, m)
  PROVE  CacheInv'
<1> DEFINE all == [j \in Held \cup {k} |-> IF j = k THEN m ELSE entries[j]]
           o == Listed(k)
<1>1. /\ k \notin Held
      /\ Held \subseteq Keys
      /\ entries \in [Held -> Modules]
  BY DEF Insert, CacheInv, CacheTypeOK
<1>2. PICK n \in 0..Len(o) :
        /\ order' = SubSeq(o, 1, n)
        /\ entries' = [j \in KeysAt(o, 1..n) |-> all[j]]
  BY DEF Insert, Listed
<1>3. /\ o \in Seq(Keys)
      /\ Len(o) \in Nat
      /\ KeysAt(o, 1..Len(o)) = Held \cup {k}
      /\ \A i, j \in 1..Len(o) : o[i] = o[j] => i = j
  BY <1>1, ListedFacts
<1> HIDE DEF o
<1>4. /\ order' \in Seq(Keys)
      /\ Len(order') = n
      /\ \A i \in 1..n : order'[i] = o[i]
  <2>1. n \in Int /\ \A i \in 1..n : i \in 1..Len(o) /\ o[i] \in Keys
    BY <1>3
  <2> QED BY <1>2, <2>1, SubSeqProperties
<1>5. Held' = KeysAt(o, 1..n)
  BY <1>2 DEF Held
<1>6. KeysAt(order', 1..Len(order')) = Held'
  BY <1>4, <1>5 DEF KeysAt
<1>7. \A j \in Held' : j \in Held \cup {k} /\ entries'[j] = all[j]
  BY <1>2, <1>3, <1>5 DEF KeysAt
<1>8. Held' \subseteq Keys /\ entries' \in [Held' -> Modules]
  <2>1. \A j \in Held' : j \in Keys /\ entries'[j] \in Modules
    BY <1>1, <1>7
  <2> QED BY <1>2, <1>5, <2>1
<1>9. \A i, j \in 1..Len(order') : order'[i] = order'[j] => i = j
  BY <1>3, <1>4
<1> QED BY <1>4, <1>6, <1>8, <1>9 DEF CacheInv, CacheTypeOK, ListMatchesMap

LEMMA PutKeepsInv ==
  ASSUME CacheInv, NEW k \in Keys, NEW m \in Modules, Put(k, m)
  PROVE  CacheInv'
<1>1. CASE UNCHANGED cacheVars
  BY <1>1 DEF cacheVars, CacheInv, CacheTypeOK, ListMatchesMap, Held
<1>2. CASE Replace(k, m)
  BY <1>2, ReplaceKeepsInv
<1>3. CASE Insert(k, m)
  BY <1>3, InsertKeepsInv
<1> QED BY <1>1, <1>2, <1>3 DEF Put

LEMMA InitInv == CacheInit => CacheInv
  BY DEF CacheInit, CacheInv, CacheTypeOK, ListMatchesMap, Held, KeysAt

\* The inductive invariant holds in every reachable state.
THEOREM CacheInvariant == CacheSpec => []CacheInv
<1>1. ASSUME CacheInv, [CacheNext]_cacheVars
      PROVE  CacheInv'
  <2>1. CASE UNCHANGED cacheVars
    BY <1>1, <2>1 DEF cacheVars, CacheInv, CacheTypeOK, ListMatchesMap, Held
  <2>2. ASSUME NEW k \in Keys, Get(k) PROVE CacheInv'
    BY <1>1, <2>2, GetKeepsInv
  <2>3. ASSUME NEW k \in Keys, NEW m \in Modules, Put(k, m) PROVE CacheInv'
    BY <1>1, <2>3, PutKeepsInv
  <2> QED BY <1>1, <2>1, <2>2, <2>3 DEF CacheNext
<1> QED BY InitInv, <1>1, PTL DEF CacheSpec

\* Whatever is stored, looked up and evicted, the map and the list stay in
\* step (cache.go:48-92).
THEOREM ListAlwaysMatchesMap == CacheSpec => []ListMatchesMap
  BY CacheInvariant, PTL DEF CacheInv

\* What the keys of a finite set hold is finite, and a count of bytes.
LEMMA WeightFinite ==
  ASSUME NEW S \in SUBSET Keys, NEW f, \A k \in S : f[k] \in Modules
  PROVE  IsFiniteSet(BytesOf(f, S)) /\ Weight(f, S) \in Nat
<1>1. IsFiniteSet(S)
  BY FS_Subset, CacheAssumption
<1>2. IsFiniteSet({{k} \X (1..Size[f[k]]) : k \in S})
  <2> DEFINE T == {{k} \X (1..Size[f[k]]) : k \in S}
             g == [k \in S |-> {k} \X (1..Size[f[k]])]
  <2>1. g \in Surjection(S, T)
    BY DEF Surjection
  <2> QED BY <1>1, <2>1, FS_Surjection
<1>3. ASSUME NEW k \in S PROVE IsFiniteSet({k} \X (1..Size[f[k]]))
  <2>1. 1 \in Int /\ Size[f[k]] \in Int
    BY CacheAssumption
  <2>2. IsFiniteSet({k}) /\ IsFiniteSet(1..Size[f[k]])
    BY <2>1, FS_Singleton, FS_Interval
  <2> QED BY <2>2, FS_Product
<1>4. IsFiniteSet(BytesOf(f, S))
  BY <1>2, <1>3, FS_UNION DEF BytesOf
<1> QED BY <1>4, FS_CardinalityType DEF Weight

\* Keys apart weigh apart: eviction takes off exactly what leaves.
LEMMA WeightSplits ==
  ASSUME NEW S \in SUBSET Keys, NEW T \in SUBSET Keys, S \cap T = {},
         NEW f, \A k \in S \cup T : f[k] \in Modules
  PROVE  Weight(f, S \cup T) = Weight(f, S) + Weight(f, T)
<1>1. /\ IsFiniteSet(BytesOf(f, S)) /\ Weight(f, S) \in Nat
      /\ IsFiniteSet(BytesOf(f, T)) /\ Weight(f, T) \in Nat
  BY WeightFinite
<1>2. BytesOf(f, S \cup T) = BytesOf(f, S) \cup BytesOf(f, T)
  BY DEF BytesOf
<1>3. BytesOf(f, S) \cap BytesOf(f, T) = {}
  <2> SUFFICES ASSUME NEW b \in BytesOf(f, S), b \in BytesOf(f, T) PROVE FALSE
    OBVIOUS
  <2>1. b[1] \in S /\ b[1] \in T
    BY DEF BytesOf
  <2> QED BY <2>1
<1>4. Cardinality(BytesOf(f, S) \cap BytesOf(f, T)) = 0
  BY <1>3, FS_EmptySet
<1>5. Cardinality(BytesOf(f, S) \cup BytesOf(f, T)) =
        Cardinality(BytesOf(f, S)) + Cardinality(BytesOf(f, T))
          - Cardinality(BytesOf(f, S) \cap BytesOf(f, T))
  BY <1>1, FS_Union
<1>6. Weight(f, S \cup T) = Weight(f, S) + Weight(f, T) - 0
  BY <1>2, <1>4, <1>5 DEF Weight
<1> QED BY <1>1, <1>6

\* A key weighs what its module does.
LEMMA WeightOfOne ==
  ASSUME NEW k \in Keys, NEW f, f[k] \in Modules
  PROVE  Weight(f, {k}) = Size[f[k]]
<1>1. Size[f[k]] \in Nat
  BY CacheAssumption
<1>2. BytesOf(f, {k}) = {k} \X (1..Size[f[k]])
  BY DEF BytesOf
<1>3. IsFiniteSet(1..Size[f[k]]) /\ Cardinality(1..Size[f[k]]) = Size[f[k]]
  <2>1. 1 \in Int /\ Size[f[k]] \in Int
    BY <1>1
  <2>2. IsFiniteSet(1..Size[f[k]])
    BY <2>1, FS_Interval
  <2>3. Cardinality(1..Size[f[k]]) = IF 1 > Size[f[k]] THEN 0 ELSE Size[f[k]] - 1 + 1
    BY <2>1, FS_Interval
  <2> QED BY <1>1, <2>2, <2>3
<1>4. IsFiniteSet({k}) /\ Cardinality({k}) = 1
  BY FS_Singleton
<1>5. Cardinality({k} \X (1..Size[f[k]])) = Cardinality({k}) * Cardinality(1..Size[f[k]])
  BY <1>3, <1>4, FS_Product
<1>6. Weight(f, {k}) = 1 * Size[f[k]]
  BY <1>2, <1>3, <1>4, <1>5 DEF Weight
<1> QED BY <1>1, <1>6

\* Only the modules held under the keys of S count.
LEMMA WeightAgrees ==
  ASSUME NEW S, NEW f, NEW g, \A k \in S : f[k] = g[k]
  PROVE  Weight(f, S) = Weight(g, S)
<1>1. {{k} \X (1..Size[f[k]]) : k \in S} = {{k} \X (1..Size[g[k]]) : k \in S}
  OBVIOUS
<1> QED BY <1>1 DEF Weight, BytesOf

\* Swapping a module takes the old one off the count and puts the new one on
\* (cache.go:71-76).
LEMMA ReplaceKeepsBytes ==
  ASSUME CacheInv, BytesAreAccounted, NEW k \in Keys, NEW m \in Modules, Replace(k, m)
  PROVE  BytesAreAccounted'
<1> DEFINE rest == Held \ {k}
<1>1. /\ k \in Held /\ Held \subseteq Keys /\ entries \in [Held -> Modules]
      /\ entries' = [entries EXCEPT ![k] = m]
      /\ bytes' = bytes - Size[entries[k]] + Size[m]
  BY DEF Replace, CacheInv, CacheTypeOK
<1>2. /\ Held' = Held /\ entries'[k] = m
      /\ \A j \in Held : entries'[j] \in Modules
      /\ \A j \in rest : entries'[j] = entries[j]
  BY <1>1 DEF Held
<1>3. Held = rest \cup {k} /\ rest \cap {k} = {} /\ rest \in SUBSET Keys /\ {k} \in SUBSET Keys
  BY <1>1
<1>4. /\ Weight(entries, rest \cup {k}) = Weight(entries, rest) + Weight(entries, {k})
      /\ Weight(entries', rest \cup {k}) = Weight(entries', rest) + Weight(entries', {k})
  <2>1. \A j \in rest \cup {k} : entries[j] \in Modules /\ entries'[j] \in Modules
    BY <1>1, <1>2
  <2> HIDE DEF rest
  <2> QED BY <1>3, <2>1, WeightSplits
<1>5. Weight(entries, {k}) = Size[entries[k]] /\ Weight(entries', {k}) = Size[m]
  <2>1. entries[k] \in Modules /\ entries'[k] \in Modules
    BY <1>1, <1>2
  <2> QED BY <1>2, <2>1, WeightOfOne
<1>6. Weight(entries', rest) = Weight(entries, rest)
  BY <1>2, WeightAgrees
<1>7. Weight(entries, rest) \in Nat /\ Size[entries[k]] \in Nat /\ Size[m] \in Nat
  <2>1. Weight(entries, rest) \in Nat
    BY <1>1, <1>3, WeightFinite
  <2> QED BY <1>1, <2>1, CacheAssumption
<1>8. bytes = Weight(entries, rest) + Size[entries[k]]
  BY <1>3, <1>4, <1>5 DEF BytesAreAccounted
<1>9. Weight(entries', Held') = Weight(entries, rest) + Size[m]
  BY <1>2, <1>3, <1>4, <1>5, <1>6
<1>10. bytes' = Weight(entries', Held')
  <2> HIDE DEF rest
  <2> QED BY <1>1, <1>7, <1>8, <1>9
<1> QED BY <1>10 DEF BytesAreAccounted

\* What the map would hold with a new key in it.
WithNew(k, m) == [j \in Held \cup {k} |-> IF j = k THEN m ELSE entries[j]]

\* Wherever the eviction loop stops, the count it has reached is what the keys in
\* front of that place weigh (cache.go:79-92).
LEMMA CountAtAnyPlace ==
  ASSUME CacheInv, BytesAreAccounted, NEW k \in Keys, NEW m \in Modules, k \notin Held,
         NEW n \in 0..Len(Listed(k))
  PROVE  /\ Weight(WithNew(k, m), KeysAt(Listed(k), 1..n)) \in Nat
         /\ bytes + Size[m] - Weight(WithNew(k, m), KeysAt(Listed(k), (n + 1)..Len(Listed(k))))
              = Weight(WithNew(k, m), KeysAt(Listed(k), 1..n))
<1> DEFINE all == WithNew(k, m)
           o == Listed(k)
           kept == KeysAt(o, 1..n)
           dropped == KeysAt(o, (n + 1)..Len(o))
<1>1. Held \subseteq Keys /\ entries \in [Held -> Modules]
  BY DEF CacheInv, CacheTypeOK
<1>2. /\ Len(o) \in Nat
      /\ KeysAt(o, 1..Len(o)) = Held \cup {k}
      /\ \A i, j \in 1..Len(o) : o[i] = o[j] => i = j
  BY ListedFacts
<1>3. /\ all[k] = m
      /\ \A j \in Held : all[j] = entries[j]
      /\ \A j \in Held \cup {k} : all[j] \in Modules
  BY <1>1 DEF WithNew
<1> HIDE DEF all, o
<1>4. kept \cup dropped = Held \cup {k}
  <2>1. 1..Len(o) = (1..n) \cup ((n + 1)..Len(o))
    BY <1>2 DEF o
  <2> QED BY <1>2, <2>1 DEF KeysAt
<1>5. kept \cap dropped = {}
  BY <1>2 DEF KeysAt, o
<1> HIDE DEF kept, dropped
<1>6. Weight(all, Held \cup {k}) = bytes + Size[m]
  <2>1. Weight(all, Held \cup {k}) = Weight(all, Held) + Weight(all, {k})
    BY <1>1, <1>3, WeightSplits
  <2>2. Weight(all, {k}) = Size[m]
    BY <1>3, WeightOfOne
  <2>3. Weight(all, Held) = bytes
    BY <1>3, WeightAgrees DEF BytesAreAccounted
  <2> QED BY <2>1, <2>2, <2>3
<1>7. /\ kept \in SUBSET Keys /\ dropped \in SUBSET Keys
      /\ \A j \in kept \cup dropped : all[j] \in Modules
  BY <1>1, <1>3, <1>4
<1>8. Weight(all, Held \cup {k}) = Weight(all, kept) + Weight(all, dropped)
  BY <1>4, <1>5, <1>7, WeightSplits
<1>9. Weight(all, kept) \in Nat /\ Weight(all, dropped) \in Nat
  BY <1>7, WeightFinite
<1>10. bytes \in Nat /\ Size[m] \in Nat
  BY <1>1, WeightFinite, CacheAssumption DEF BytesAreAccounted
<1>11. bytes + Size[m] = Weight(all, kept) + Weight(all, dropped)
  BY <1>6, <1>8
<1>12. bytes + Size[m] - Weight(all, dropped) = Weight(all, kept)
  BY <1>9, <1>10, <1>11
<1> QED BY <1>9, <1>12 DEF all, o, kept, dropped

\* Inserting puts the new module on and takes off the modules of the keys
\* behind the prefix that is kept.
LEMMA InsertKeepsBytes ==
  ASSUME CacheInv, BytesAreAccounted, NEW k \in Keys, NEW m \in Modules, Insert(k, m)
  PROVE  BytesAreAccounted'
<1> DEFINE all == WithNew(k, m)
           o == Listed(k)
<1>1. k \notin Held
  BY DEF Insert
<1>2. PICK n \in 0..Len(o) :
        /\ entries' = [j \in KeysAt(o, 1..n) |-> all[j]]
        /\ bytes' = bytes + Size[m] - Weight(all, KeysAt(o, (n + 1)..Len(o)))
  BY DEF Insert, Listed, WithNew
<1>3. bytes' = Weight(all, KeysAt(o, 1..n))
  BY <1>1, <1>2, CountAtAnyPlace
<1>4. Held' = KeysAt(o, 1..n) /\ \A j \in Held' : entries'[j] = all[j]
  BY <1>2 DEF Held
<1>5. Weight(entries', Held') = Weight(all, Held')
  BY <1>4, WeightAgrees
<1> QED BY <1>3, <1>4, <1>5 DEF BytesAreAccounted

\* The running count is the size of what is held, through every lookup,
\* replacement and eviction (cache.go:48-92).
THEOREM BytesAlwaysAccounted == CacheSpec => []BytesAreAccounted
<1>1. CacheInit => BytesAreAccounted
  <2>1. BytesOf(<< >>, {}) = {}
    BY DEF BytesOf
  <2>2. Weight(<< >>, {}) = 0
    BY <2>1, FS_EmptySet DEF Weight
  <2> QED BY <2>2 DEF CacheInit, BytesAreAccounted, Held
<1>2. ASSUME CacheInv, BytesAreAccounted, [CacheNext]_cacheVars
      PROVE  BytesAreAccounted'
  <2>1. CASE UNCHANGED <<entries, bytes>>
    BY <1>2, <2>1 DEF BytesAreAccounted, Held
  <2>2. CASE UNCHANGED cacheVars
    BY <2>1, <2>2 DEF cacheVars
  <2>3. ASSUME NEW k \in Keys, Get(k) PROVE BytesAreAccounted'
    BY <2>1, <2>3 DEF Get
  <2>4. ASSUME NEW k \in Keys, NEW m \in Modules, Put(k, m) PROVE BytesAreAccounted'
    BY <1>2, <2>2, <2>4, ReplaceKeepsBytes, InsertKeepsBytes DEF Put
  <2> QED BY <1>2, <2>2, <2>3, <2>4 DEF CacheNext
<1> QED BY <1>1, <1>2, CacheInvariant, PTL DEF CacheSpec

\* The list is in the order of the history: what is nearer the front was used
\* since what is behind it.
UsesInOrder ==
  \A i, j \in 1..Len(order) : i < j => order[i] \in usedSince[order[j]]

\* A key that is used goes to the front, and only it.
LEMMA UseKeepsOrder ==
  ASSUME CacheInv, UsesInOrder, NEW k \in Held, MoveToFront(k), Touch(k)
  PROVE  UsesInOrder'
<1> DEFINE N == Len(order)
<1>1. /\ N \in Nat
      /\ order \in [1..N -> Keys]
      /\ \A i, j \in 1..N : order[i] = order[j] => i = j
  BY DEF CacheInv, CacheTypeOK, ListMatchesMap
<1>2. PICK p \in 1..N :
        /\ order[p] = k
        /\ order' = [i \in 1..N |->
                       IF i = 1 THEN k ELSE IF i <= p THEN order[i - 1] ELSE order[i]]
  BY DEF MoveToFront
<1>3. Len(order') = N
  <2>1. order' \in [1..N -> Keys]
    BY <1>1, <1>2
  <2> QED BY <1>1, <2>1
<1>4. \A x \in Keys : usedSince'[x] = IF x = k THEN {} ELSE usedSince[x] \cup {k}
  BY DEF Touch
<1>5. ASSUME NEW i \in 1..N, NEW j \in 1..N, i < j
      PROVE  order'[i] \in usedSince'[order'[j]]
  <2> DEFINE was(x) == IF x <= p THEN x - 1 ELSE x
  <2>1. /\ was(j) \in 1..N /\ was(j) # p
        /\ order'[j] = order[was(j)]
    BY <1>1, <1>2, <1>5
  <2>2. order'[j] \in Keys /\ order'[j] # k
    BY <1>1, <1>2, <2>1
  <2>3. usedSince'[order'[j]] = usedSince[order'[j]] \cup {k}
    BY <1>4, <2>2
  <2>4. CASE i = 1
    BY <1>1, <1>2, <2>3, <2>4
  <2>5. CASE i # 1
    <3>1. was(i) \in 1..N /\ order'[i] = order[was(i)] /\ was(i) < was(j)
      BY <1>1, <1>2, <1>5, <2>1, <2>5
    <3>2. order[was(i)] \in usedSince[order[was(j)]]
      BY <2>1, <3>1 DEF UsesInOrder
    <3> QED BY <2>1, <2>3, <3>1, <3>2
  <2> QED BY <2>4, <2>5
<1> QED BY <1>3, <1>5 DEF UsesInOrder

\* Where an insertion cuts the list, what is kept stands in front of what goes.
LEMMA InsertedInOrder ==
  ASSUME CacheInv, UsesInOrder, NEW k \in Keys, k \notin Held,
         NEW i \in 2..Len(Listed(k)), NEW j \in 2..Len(Listed(k)), i < j
  PROVE  Listed(k)[i] \in usedSince[Listed(k)[j]]
<1>1. /\ Len(order) \in Nat
      /\ Len(Listed(k)) = Len(order) + 1
      /\ Listed(k)[i] = order[i - 1] /\ Listed(k)[j] = order[j - 1]
  BY ListedFacts
<1>2. i - 1 \in 1..Len(order) /\ j - 1 \in 1..Len(order) /\ i - 1 < j - 1
  BY <1>1
<1> QED BY <1>1, <1>2 DEF UsesInOrder

LEMMA InsertKeepsOrder ==
  ASSUME CacheInv, UsesInOrder, NEW k \in Keys, NEW m \in Modules, Insert(k, m), Touch(k)
  PROVE  UsesInOrder'
<1> DEFINE o == Listed(k)
<1>1. k \notin Held
  BY DEF Insert
<1>2. /\ o \in Seq(Keys)
      /\ Len(o) \in Nat
      /\ o[1] = k
      /\ \A i, j \in 1..Len(o) : o[i] = o[j] => i = j
  BY <1>1, ListedFacts
<1>3. PICK n \in 0..Len(o) : order' = SubSeq(o, 1, n)
  BY DEF Insert, Listed
<1>4. Len(order') = n /\ \A i \in 1..n : i \in 1..Len(o) /\ order'[i] = o[i] /\ o[i] \in Keys
  <2> HIDE DEF o
  <2>1. n \in Int /\ \A i \in 1..n : i \in 1..Len(o) /\ o[i] \in Keys
    BY <1>2 DEF o
  <2> QED BY <1>3, <2>1, SubSeqProperties
<1>5. \A x \in Keys : usedSince'[x] = IF x = k THEN {} ELSE usedSince[x] \cup {k}
  BY DEF Touch
<1>6. ASSUME NEW i \in 1..n, NEW j \in 1..n, i < j
      PROVE  o[i] \in usedSince'[o[j]]
  <2>1. o[j] \in Keys /\ o[j] # k
    BY <1>2, <1>4, <1>6
  <2>2. usedSince'[o[j]] = usedSince[o[j]] \cup {k}
    BY <1>5, <2>1
  <2>3. CASE i = 1
    BY <1>2, <2>2, <2>3
  <2>4. CASE i # 1
    <3>1. i \in 2..Len(o) /\ j \in 2..Len(o)
      BY <1>2, <1>6, <2>4
    <3> QED BY <1>1, <1>6, <2>2, <3>1, InsertedInOrder
  <2> QED BY <2>3, <2>4
<1> QED BY <1>4, <1>6 DEF UsesInOrder

\* A step with its history is a step of the cache, and keeps the order.
LEMMA HistoryStep ==
  ASSUME CacheInv, UsesInOrder, [HistoryNext]_<<cacheVars, usedSince>>
  PROVE  UsesInOrder' /\ [CacheNext]_cacheVars
<1>1. CASE UNCHANGED <<order, usedSince>> /\ [CacheNext]_cacheVars
  BY <1>1 DEF UsesInOrder
<1>2. CASE UNCHANGED <<cacheVars, usedSince>>
  BY <1>1, <1>2 DEF cacheVars
<1>3. ASSUME NEW k \in Keys, Get(k), IF k \in Held THEN Touch(k) ELSE UNCHANGED usedSince
      PROVE  UsesInOrder' /\ [CacheNext]_cacheVars
  <2>1. CacheNext
    BY <1>3 DEF CacheNext
  <2>2. CASE k \in Held
    BY <1>3, <2>1, <2>2, UseKeepsOrder DEF Get
  <2>3. CASE k \notin Held
    BY <1>1, <1>3, <2>1, <2>3 DEF Get
  <2> QED BY <2>2, <2>3
<1>4. ASSUME NEW k \in Keys, NEW m \in Modules, Put(k, m),
             IF Size[m] <= Limit THEN Touch(k) ELSE UNCHANGED usedSince
      PROVE  UsesInOrder' /\ [CacheNext]_cacheVars
  <2>1. CacheNext
    BY <1>4 DEF CacheNext
  <2>2. Size[m] \in Nat /\ Limit \in Nat
    BY CacheAssumption
  <2>3. CASE Size[m] > Limit
    BY <1>1, <1>4, <2>1, <2>2, <2>3 DEF Put, cacheVars
  <2>4. CASE Size[m] <= Limit
    <3>1. Replace(k, m) \/ Insert(k, m)
      BY <1>4, <2>2, <2>4 DEF Put
    <3>2. Touch(k)
      BY <1>4, <2>4
    <3>3. CASE Replace(k, m)
      BY <2>1, <3>2, <3>3, UseKeepsOrder DEF Replace
    <3>4. CASE Insert(k, m)
      BY <2>1, <3>2, <3>4, InsertKeepsOrder
    <3> QED BY <3>1, <3>3, <3>4
  <2> QED BY <2>2, <2>3, <2>4
<1> QED BY <1>2, <1>3, <1>4 DEF HistoryNext

\* Only an insertion of a module that fits changes which keys are held.
LEMMA OnlyInsertionsEvict ==
  ASSUME CacheInv, [HistoryNext]_<<cacheVars, usedSince>>, Held' # Held
  PROVE  \E k \in Keys, m \in Modules : Insert(k, m) /\ Size[m] <= Limit
<1>1. ASSUME NEW k \in Keys, NEW m \in Modules, Replace(k, m) PROVE Held' = Held
  BY <1>1 DEF Replace, Held, CacheInv, CacheTypeOK
<1> QED BY <1>1 DEF HistoryNext, Get, Put, cacheVars, Held

\* The history only watches: the cache beside it behaves as it does alone.
LEMMA HistoryIsCache == HistorySpec => CacheSpec
<1>1. HistoryInit => CacheInit
  BY DEF HistoryInit
<1>2. [HistoryNext]_<<cacheVars, usedSince>> => [CacheNext]_cacheVars
  BY DEF HistoryNext, CacheNext
<1> QED BY <1>1, <1>2, PTL DEF HistorySpec, CacheSpec

\* Whatever survives an eviction was used since whatever did not, for any keys,
\* modules, sizes and budget (cache.go:56, 77, 83).
THEOREM OldestGoFirst == HistorySpec => EvictsLeastRecentlyUsed
<1> DEFINE Survivors == \A k \in Held \ Held', j \in Held \cap Held' : j \in usedSince[k]
<1>1. HistoryInit => UsesInOrder
  BY DEF HistoryInit, CacheInit, UsesInOrder
<1>2. ASSUME CacheInv, UsesInOrder, [HistoryNext]_<<cacheVars, usedSince>>
      PROVE  UsesInOrder'
  BY <1>2, HistoryStep
<1>3. ASSUME CacheInv, UsesInOrder, [HistoryNext]_<<cacheVars, usedSince>>
      PROVE  Survivors
  <2> SUFFICES ASSUME Held' # Held PROVE Survivors
    OBVIOUS
  <2>1. PICK k \in Keys, m \in Modules : Insert(k, m)
    BY <1>3, OnlyInsertionsEvict
  <2> DEFINE o == Listed(k)
  <2>2. k \notin Held
    BY <2>1 DEF Insert
  <2>3. /\ Len(o) \in Nat
        /\ o[1] = k
        /\ KeysAt(o, 1..Len(o)) = Held \cup {k}
    BY <1>3, <2>2, ListedFacts
  <2>4. PICK n \in 0..Len(o) : Held' = KeysAt(o, 1..n)
    BY <2>1 DEF Insert, Listed, Held
  <2> SUFFICES ASSUME NEW x \in Held \ Held', NEW y \in Held \cap Held'
               PROVE  y \in usedSince[x]
    OBVIOUS
  <2>5. PICK b \in 1..n : o[b] = y
    BY <2>4 DEF KeysAt
  <2>6. PICK a \in 1..Len(o) : o[a] = x
    BY <2>3 DEF KeysAt
  <2>7. a > n
    BY <2>3, <2>4, <2>6 DEF KeysAt
  <2>8. b # 1
    BY <2>2, <2>3, <2>5
  <2>9. b \in 2..Len(o) /\ a \in 2..Len(o) /\ b < a
    BY <2>3, <2>7, <2>8
  <2> QED BY <1>3, <2>2, <2>5, <2>6, <2>9, InsertedInOrder
<1> QED
  BY <1>1, <1>2, <1>3, HistoryIsCache, CacheInvariant, PTL
     DEF HistorySpec, EvictsLeastRecentlyUsed

\* The key at place n + 1 of the list is the most recently used of those that go,
\* and the loop stopped short of taking it off while the count was over budget.
LEMMA FirstVictimDidNotFit ==
  ASSUME CacheInv, BytesAreAccounted, NEW k \in Keys, NEW m \in Modules, k \notin Held,
         Size[m] <= Limit,
         NEW n \in 0..Len(Listed(k)), n < Len(Listed(k)),
         bytes + Size[m] - Weight(WithNew(k, m), KeysAt(Listed(k), (n + 2)..Len(Listed(k)))) > Limit
  PROVE  /\ n > 0
         /\ Listed(k)[n + 1] \in Held
         /\ Weight(WithNew(k, m), KeysAt(Listed(k), 1..n)) + Size[entries[Listed(k)[n + 1]]] > Limit
<1> DEFINE all == WithNew(k, m)
           o == Listed(k)
           v == o[n + 1]
           kept == KeysAt(o, 1..n)
<1>1. Held \subseteq Keys /\ entries \in [Held -> Modules]
  BY DEF CacheInv, CacheTypeOK
<1>2. /\ Len(o) \in Nat
      /\ o[1] = k
      /\ KeysAt(o, 1..Len(o)) = Held \cup {k}
      /\ \A i, j \in 1..Len(o) : o[i] = o[j] => i = j
  BY ListedFacts
<1>3. /\ all[k] = m
      /\ \A j \in Held : all[j] = entries[j]
      /\ \A j \in Held \cup {k} : all[j] \in Modules
  BY <1>1 DEF WithNew
<1>4. n + 1 \in 0..Len(o) /\ n + 1 \in 1..Len(o) /\ (n + 1) + 1 = n + 2
  BY <1>2
<1>5. Weight(all, KeysAt(o, 1..(n + 1))) > Limit
  <2>1. bytes + Size[m] - Weight(all, KeysAt(o, ((n + 1) + 1)..Len(o)))
          = Weight(all, KeysAt(o, 1..(n + 1)))
    BY <1>4, CountAtAnyPlace
  <2> QED BY <1>4, <2>1
<1> HIDE DEF all, o
<1>6. v \in Held \cup {k} /\ kept \subseteq Held \cup {k}
  BY <1>2, <1>4 DEF KeysAt
<1>7. KeysAt(o, 1..(n + 1)) = kept \cup {v} /\ kept \cap {v} = {}
  <2>1. n \in Nat /\ 1..(n + 1) = (1..n) \cup {n + 1} /\ n + 1 \notin 1..n
    BY <1>2, <1>4
  <2>2. \A i \in 1..n : i \in 1..Len(o) /\ i # n + 1
    BY <1>2, <1>4, <2>1
  <2>3. v \notin kept
    BY <1>2, <1>4, <2>2 DEF KeysAt
  <2> QED BY <2>1, <2>3 DEF KeysAt
<1> HIDE DEF v, kept
<1>8. Weight(all, kept \cup {v}) = Weight(all, kept) + Weight(all, {v})
  <2>1. kept \in SUBSET Keys /\ {v} \in SUBSET Keys /\ \A j \in kept \cup {v} : all[j] \in Modules
    BY <1>1, <1>3, <1>6
  <2> QED BY <1>7, <2>1, WeightSplits
<1>9. Weight(all, {v}) = Size[all[v]]
  BY <1>1, <1>3, <1>6, WeightOfOne
<1>10. Weight(all, kept) + Size[all[v]] > Limit
  BY <1>5, <1>7, <1>8, <1>9
<1>11. n # 0
  <2> SUFFICES ASSUME n = 0 PROVE FALSE
    OBVIOUS
  <2>1. v = k /\ kept = {}
    BY <1>2 DEF v, kept, KeysAt
  <2>2. Weight(all, {}) = 0
    BY FS_EmptySet DEF Weight, BytesOf
  <2>3. Size[m] > Limit
    <3>1. 0 + Size[m] > Limit
      BY <1>3, <1>10, <2>1, <2>2
    <3>2. Size[m] \in Nat
      BY CacheAssumption
    <3> QED BY <3>1, <3>2
  <2>4. Size[m] \in Nat /\ Limit \in Nat
    BY CacheAssumption
  <2> QED BY <2>3, <2>4
<1>12. v \in Held
  <2>1. v # k
    BY <1>2, <1>4, <1>11 DEF v
  <2> QED BY <1>6, <2>1
<1>13. n > 0
  BY <1>11
<1>14. Weight(all, kept) + Size[entries[v]] > Limit
  BY <1>3, <1>10, <1>12
<1> QED BY <1>12, <1>13, <1>14 DEF all, o, v, kept

\* An insertion evicts down to the budget and no further, for any keys, modules,
\* sizes and budget, from wherever replacements had pushed the count
\* (cache.go:71-92).
THEOREM EvictionStopsAtTheBudget == HistorySpec => EvictsOnlyToBudget
<1> DEFINE Sparing ==
             Held' # Held =>
               /\ bytes' <= Limit
               /\ \/ Held \subseteq Held'
                  \/ \E v \in Held \ Held' :
                       /\ \A k \in Held \ (Held' \cup {v}) : v \in usedSince[k]
                       /\ bytes' + Size[entries[v]] > Limit
<1>1. HistoryInit => UsesInOrder
  BY DEF HistoryInit, CacheInit, UsesInOrder
<1>2. ASSUME CacheInv, UsesInOrder, [HistoryNext]_<<cacheVars, usedSince>>
      PROVE  UsesInOrder'
  BY <1>2, HistoryStep
<1>3. ASSUME CacheInv, BytesAreAccounted, UsesInOrder, [HistoryNext]_<<cacheVars, usedSince>>
      PROVE  Sparing
  <2> SUFFICES ASSUME Held' # Held
               PROVE  /\ bytes' <= Limit
                      /\ \/ Held \subseteq Held'
                         \/ \E v \in Held \ Held' :
                              /\ \A k \in Held \ (Held' \cup {v}) : v \in usedSince[k]
                              /\ bytes' + Size[entries[v]] > Limit
    OBVIOUS
  <2>1. PICK k \in Keys, m \in Modules : Insert(k, m) /\ Size[m] <= Limit
    BY <1>3, OnlyInsertionsEvict
  <2> DEFINE o == Listed(k)
             all == WithNew(k, m)
             LeftAfter(i) == bytes + Size[m] - Weight(all, KeysAt(o, (i + 1)..Len(o)))
  <2>2. k \notin Held
    BY <2>1 DEF Insert
  <2>3. /\ Len(o) \in Nat
        /\ o[1] = k
        /\ KeysAt(o, 1..Len(o)) = Held \cup {k}
        /\ \A i, j \in 1..Len(o) : o[i] = o[j] => i = j
    <3>1. /\ Len(order) \in Nat
          /\ Len(o) = Len(order) + 1
          /\ o[1] = k
          /\ KeysAt(o, 1..Len(o)) = Held \cup {k}
          /\ \A i, j \in 1..Len(o) : o[i] = o[j] => i = j
      <4> HIDE DEF all, LeftAfter
      <4> QED BY <1>3, <2>2, ListedFacts
    <3> HIDE DEF o
    <3> QED BY <3>1
  <2>4. PICK n \in 0..Len(o) :
          /\ n = 0 \/ LeftAfter(n) <= Limit
          /\ \A j \in (n + 1)..Len(o) : ~(j = 0 \/ LeftAfter(j) <= Limit)
          /\ Held' = KeysAt(o, 1..n)
          /\ bytes' = LeftAfter(n)
    BY <2>1 DEF Insert, Listed, WithNew, Held
  <2>5. bytes' = Weight(all, KeysAt(o, 1..n)) /\ bytes' \in Nat
    BY <1>3, <2>2, <2>4, CountAtAnyPlace
  <2>6. bytes' <= Limit
    <3>1. CASE n = 0
      <4>1. KeysAt(o, 1..n) = {}
        BY <3>1 DEF KeysAt
      <4>2. Weight(all, {}) = 0
        BY FS_EmptySet DEF Weight, BytesOf
      <4> QED BY <2>5, <4>1, <4>2, CacheAssumption
    <3>2. CASE n # 0
      BY <2>4, <3>2
    <3> QED BY <3>1, <3>2
  <2>7. CASE n = Len(o)
    BY <2>3, <2>4, <2>6, <2>7
  <2>8. CASE n < Len(o)
    <3> DEFINE v == o[n + 1]
    <3>1. n + 1 \in (n + 1)..Len(o) /\ n + 1 \in 1..Len(o) /\ n \in Nat
      BY <2>3, <2>8
    <3>2. ~(LeftAfter(n + 1) <= Limit)
      BY <2>4, <3>1
    <3>3. LeftAfter(n + 1) > Limit /\ (n + 1) + 1 = n + 2
      <4>1. n + 1 \in 0..Len(o)
        BY <2>3, <3>1
      <4>2. LeftAfter(n + 1) = Weight(all, KeysAt(o, 1..(n + 1)))
            /\ Weight(all, KeysAt(o, 1..(n + 1))) \in Nat
        BY <1>3, <2>2, <4>1, CountAtAnyPlace
      <4> QED BY <3>1, <3>2, <4>2, CacheAssumption
    <3>4. bytes + Size[m] - Weight(all, KeysAt(o, (n + 2)..Len(o))) > Limit
      BY <3>3
    <3>5. /\ n > 0
          /\ v \in Held
          /\ Weight(all, KeysAt(o, 1..n)) + Size[entries[v]] > Limit
      BY <1>3, <2>1, <2>2, <2>8, <3>4, FirstVictimDidNotFit
    <3>6. v \notin Held'
      BY <2>3, <2>4, <3>1 DEF KeysAt
    <3>7. ASSUME NEW x \in Held \ (Held' \cup {v}) PROVE v \in usedSince[x]
      <4>1. PICK a \in 1..Len(o) : o[a] = x
        BY <2>3 DEF KeysAt
      <4>2. a > n /\ a # n + 1
        BY <2>3, <2>4, <3>1, <3>7, <4>1 DEF KeysAt
      <4>3. n + 1 \in 2..Len(o) /\ a \in 2..Len(o) /\ n + 1 < a
        BY <2>3, <3>1, <3>5, <4>2
      <4> QED BY <1>3, <2>2, <4>1, <4>3, InsertedInOrder
    <3> QED BY <2>5, <2>6, <3>5, <3>6, <3>7
  <2> QED BY <2>3, <2>7, <2>8
<1> QED
  BY <1>1, <1>2, <1>3, HistoryIsCache, CacheInvariant, BytesAlwaysAccounted, PTL
     DEF HistorySpec, EvictsOnlyToBudget

\* A Put is a Store of the abstract cache.
LEMMA PutIsStore ==
  ASSUME CacheInv, NEW k \in Keys, NEW m \in Modules, Put(k, m)
  PROVE  Contract!Store(k, m) \/ UNCHANGED entries
<1>1. CASE UNCHANGED cacheVars
  BY <1>1 DEF cacheVars
<1>2. CASE Replace(k, m)
  <2>1. entries' = [j \in Held |-> IF j = k THEN m ELSE entries[j]]
    BY <1>2 DEF Replace, CacheInv, CacheTypeOK
  <2>2. Held \in SUBSET (DOMAIN entries \cup {k})
    BY DEF Held
  <2> QED BY <2>1, <2>2 DEF Contract!Store
<1>3. CASE Insert(k, m)
  <2> DEFINE all == [j \in Held \cup {k} |-> IF j = k THEN m ELSE entries[j]]
             o == <<k>> \o order
  <2>1. PICK n \in 0..Len(o) : entries' = [j \in KeysAt(o, 1..n) |-> all[j]]
    BY <1>3 DEF Insert
  <2>2. KeysAt(o, 1..n) \subseteq Held \cup {k}
    <3> SUFFICES ASSUME NEW i \in 1..n
                 PROVE  o[i] \in Held \cup {k}
      BY DEF KeysAt
    <3>1. /\ order \in Seq(Keys)
          /\ i \in 1..(Len(order) + 1)
          /\ o[i] = IF i = 1 THEN k ELSE order[i - 1]
      BY DEF CacheInv, CacheTypeOK
    <3>2. i # 1 => order[i - 1] \in KeysAt(order, 1..Len(order))
      BY <3>1 DEF KeysAt
    <3> QED BY <3>1, <3>2 DEF CacheInv, ListMatchesMap
  <2>3. entries' = [j \in KeysAt(o, 1..n) |-> IF j = k THEN m ELSE entries[j]]
    BY <2>1, <2>2
  <2> QED BY <2>2, <2>3 DEF Contract!Store, Held
<1> QED BY <1>1, <1>2, <1>3 DEF Put

\* The cache implements the store it is used as: a lookup answers with the
\* module last stored under its key, or with nothing (executor.go:86-90).
THEOREM CacheIsForgetfulStore == CacheSpec => StoreContract
<1>1. CacheInit => Contract!Init
  BY DEF CacheInit, Contract!Init
<1>2. ASSUME CacheInv, [CacheNext]_cacheVars
      PROVE  [Contract!Next]_entries
  <2>1. CASE UNCHANGED cacheVars
    BY <2>1 DEF cacheVars
  <2>2. ASSUME NEW k \in Keys, Get(k) PROVE UNCHANGED entries
    BY <2>2 DEF Get
  <2>3. ASSUME NEW k \in Keys, NEW m \in Modules, Put(k, m)
        PROVE  [Contract!Next]_entries
    BY <1>2, <2>3, PutIsStore DEF Contract!Next
  <2> QED BY <1>2, <2>1, <2>2, <2>3 DEF CacheNext
<1> QED BY CacheInvariant, <1>1, <1>2, PTL DEF CacheSpec, StoreContract, Contract!Spec

-----------------------------------------------------------------------------

\* Every module in the cache is a build of the submission whose key it is
\* under, and of one that compiles.
CacheSound ==
    \A k \in Held :
        /\ entries[k].of \in Compilable
        /\ k = CacheKey(entries[k].of)

\* A request carries a submission from its call on, what it got from Compile
\* is an outcome of that submission, and a module it is about to store or run
\* is a build of it.
RequestSound(r) ==
    /\ pc[r] # "idle" => sub[r] \in Submissions
    /\ pc[r] = "compiled" => out[r] \in Outcomes(sub[r])
    /\ pc[r] \in {"store", "execute"} =>
         /\ out[r] \in Builds
         /\ out[r].of = sub[r]
         /\ sub[r] \in Compilable
    /\ reply[r].kind \in {"ran", "timed out"} =>
         /\ reply[r].of = sub[r]
         /\ sub[r] \in Compilable

SlotsCounted == slots = Cardinality(Holders)

\* The inductive invariant.
IInv ==
    /\ TypeOK
    /\ ListMatchesMap
    /\ SlotsCounted
    /\ CacheSound
    /\ \A r \in Requests : RequestSound(r)

-----------------------------------------------------------------------------
\* Facts about the constants and the cache.

LEMMA KeyFacts ==
  /\ \A s \in Submissions : CacheKey(s) \in Keys
  /\ \A s, t \in Submissions : CacheKey(s) = CacheKey(t) => s = t
<1>1. \A s \in Submissions : CacheKey(s) \in Keys
  BY ExecutorAssumption
<1>2. ASSUME NEW s \in Submissions, NEW t \in Submissions, CacheKey(s) = CacheKey(t)
      PROVE  s = t
  <2>1. s[1] = t[1] /\ s[2] = t[2]
    BY <1>2 DEF CacheKey
  <2> QED BY <2>1 DEF Submissions
<1> QED BY <1>1, <1>2

LEMMA HoldersFinite == IsFiniteSet(Holders)
  BY ExecutorAssumption, FS_Subset DEF Holders

\* A lookup changes the order of the entries and nothing else.
LEMMA GetKeepsModules ==
  ASSUME NEW k, Get(k)
  PROVE  UNCHANGED entries
  BY DEF Get

\* Storing a build of s under the key of s keeps every module under its own
\* key, whatever is replaced and evicted.
LEMMA PutKeepsSound ==
  ASSUME CacheInv, CacheSound, NEW s \in Compilable, NEW m \in Builds, m.of = s,
         Put(CacheKey(s), m)
  PROVE  CacheSound'
<1> DEFINE k == CacheKey(s)
<1>1. k \in Keys /\ m \in Modules
  BY ExecutorAssumption, KeyFacts
<1>2. Contract!Store(k, m) \/ UNCHANGED entries
  BY <1>1, PutIsStore
<1>3. CASE UNCHANGED entries
  BY <1>3 DEF CacheSound, Held
<1>4. CASE Contract!Store(k, m)
  <2>1. PICK kept \in SUBSET (DOMAIN entries \cup {k}) :
          entries' = [j \in kept |-> IF j = k THEN m ELSE entries[j]]
    BY <1>4 DEF Contract!Store
  <2>2. \A j \in kept : IF j = k THEN entries'[j] = m ELSE j \in Held /\ entries'[j] = entries[j]
    BY <2>1 DEF Held
  <2>3. Held' = kept
    BY <2>1 DEF Held
  <2> QED BY <2>2, <2>3 DEF CacheSound
<1> QED BY <1>2, <1>3, <1>4

-----------------------------------------------------------------------------
\* The inductive invariant, one part at a time.

LEMMA InitIInv == Init => IInv
<1> SUFFICES ASSUME Init PROVE IInv
  OBVIOUS
<1>1. CacheInv /\ Held = {}
  BY InitInv DEF Init, CacheInit, Held
<1>2. Holders = {}
  BY DEF Init, Holders
<1>3. TypeOK
  BY <1>1, ExecutorAssumption
     DEF Init, TypeOK, CacheInv, PCs, NoOutput, NoReply, Reply, Verdicts, Faults
<1>4. SlotsCounted
  BY <1>2, FS_EmptySet DEF SlotsCounted, Init
<1>5. CacheSound
  BY <1>1 DEF CacheSound
<1>6. \A r \in Requests : RequestSound(r)
  BY DEF Init, RequestSound, NoReply, Reply
<1> QED BY <1>1, <1>3, <1>4, <1>5, <1>6 DEF IInv, CacheInv

\* Only StoreModule and lookups touch the cache.
LEMMA CacheStep ==
  ASSUME IInv, [Next]_vars
  PROVE  CacheInv' /\ CacheSound'
<1>1. CacheInv /\ CacheSound
  BY DEF IInv, TypeOK, CacheInv
<1>2. CASE UNCHANGED cacheVars
  BY <1>1, <1>2 DEF cacheVars, CacheInv, CacheTypeOK, ListMatchesMap, CacheSound, Held
<1>3. ASSUME NEW s \in Submissions, Get(CacheKey(s))
      PROVE  CacheInv' /\ CacheSound'
  <2>1. CacheInv'
    BY <1>1, <1>3, KeyFacts, GetKeepsInv
  <2>2. CacheSound'
    BY <1>1, <1>3, GetKeepsModules DEF CacheSound, Held
  <2> QED BY <2>1, <2>2
<1>4. ASSUME NEW r \in Requests, StoreModule(r)
      PROVE  CacheInv' /\ CacheSound'
  <2>1. /\ sub[r] \in Compilable
        /\ sub[r] \in Submissions
        /\ out[r] \in Builds
        /\ out[r].of = sub[r]
        /\ Put(CacheKey(sub[r]), out[r])
    BY <1>4, ExecutorAssumption DEF StoreModule, At, IInv, RequestSound
  <2>2. CacheInv'
    BY <1>1, <2>1, KeyFacts, ExecutorAssumption, PutKeepsInv
  <2> QED BY <1>1, <2>1, <2>2, PutKeepsSound
<1>5. ASSUME NEW r \in Requests, Hit(r) \/ Miss(r)
      PROVE  CacheInv' /\ CacheSound'
  BY <1>3, <1>5 DEF Hit, Miss, At, IInv, RequestSound
<1>6. CASE UNCHANGED vars
  BY <1>2, <1>6 DEF vars
<1>7. CASE Next
  BY <1>2, <1>3, <1>4, <1>5, <1>7
     DEF Next, Local, Admission, Container, Call, Release, Execute, StartContainer,
         FailToStart, Admit, Cancelled, Busy, ContainerEnds, Abandon, OrphanEnds,
         Leave, Cached
<1> QED BY <1>6, <1>7

\* The types of a request's own variables.
Replies == [kind : Verdicts \cup Faults \cup {"none"}, of : Submissions \cup {NoSubmission}]
LocalsOK ==
    /\ pc \in [Requests -> PCs]
    /\ sub \in [Requests -> Submissions \cup {NoSubmission}]
    /\ out \in [Requests -> Outputs \cup {NoOutput}]
    /\ gone \in [Requests -> BOOLEAN]
    /\ reply \in [Requests -> Replies]

\* A request that returns a verdict on what it submitted, or a fault, is sound.
LEMMA ReturnSound ==
  ASSUME LocalsOK, \A q \in Requests : RequestSound(q),
         NEW r \in Requests, NEW w, NEW s, Return(r, w, s), sub' = sub,
         w \in {"ran", "timed out"} => s = sub[r] /\ sub[r] \in Compilable
  PROVE  \A q \in Requests : RequestSound(q)'
<1>1. ASSUME NEW q \in Requests, q # r PROVE RequestSound(q)'
  <2>1. pc'[q] = pc[q] /\ sub'[q] = sub[q] /\ out'[q] = out[q] /\ reply'[q] = reply[q]
    BY <1>1 DEF LocalsOK, Return, Goto
  <2> QED BY <2>1 DEF RequestSound
<1>2. RequestSound(r)'
  <2>1. pc'[r] = "idle" /\ reply'[r] = Reply(w, s) /\ sub'[r] = sub[r]
    BY DEF LocalsOK, Return, Goto
  <2>2. reply'[r].kind = w /\ reply'[r].of = s
    <3>1. Reply(w, s).kind = w /\ Reply(w, s).of = s
      BY DEF Reply
    <3> QED BY <2>1, <3>1
  <2> QED BY <2>1, <2>2 DEF RequestSound
<1> QED BY <1>1, <1>2

LEMMA ReturnLocals ==
  ASSUME LocalsOK, NEW r \in Requests, NEW kind \in Verdicts \cup Faults,
         NEW s \in Submissions \cup {NoSubmission}, Return(r, kind, s), sub' = sub
  PROVE  LocalsOK'
<1>1. Reply(kind, s) \in Replies
  BY DEF Reply, Replies
<1>2. "idle" \in PCs /\ NoOutput \in Outputs \cup {NoOutput}
  BY DEF PCs
<1> QED BY <1>1, <1>2 DEF LocalsOK, Return, Goto

LEMMA RequestStep ==
  ASSUME IInv, [Next]_vars
  PROVE  \A r \in Requests : RequestSound(r)'
<1> USE DEF RequestSound, At, Goto, Reply, NoReply
<1>1. /\ LocalsOK
      /\ pc \in [Requests -> PCs]
      /\ sub \in [Requests -> Submissions \cup {NoSubmission}]
      /\ out \in [Requests -> Outputs \cup {NoOutput}]
      /\ reply \in [Requests -> [kind : Verdicts \cup Faults \cup {"none"},
                                 of : Submissions \cup {NoSubmission}]]
      /\ \A q \in Requests : RequestSound(q)
      /\ CacheInv /\ CacheSound
  BY DEF IInv, TypeOK, CacheInv, LocalsOK, Replies
<1>2. CASE UNCHANGED <<pc, sub, out, reply>>
  BY <1>1, <1>2
<1>3. ASSUME NEW r \in Requests, NEW s \in Submissions, Call(r, s)
      PROVE  \A q \in Requests : RequestSound(q)'
  BY <1>1, <1>3 DEF Call
<1>4. ASSUME NEW r \in Requests, Hit(r)
      PROVE  \A q \in Requests : RequestSound(q)'
  <2>1. /\ sub[r] \in Submissions
        /\ CacheKey(sub[r]) \in Held
        /\ out' = [out EXCEPT ![r] = entries[CacheKey(sub[r])]]
    BY <1>1, <1>4 DEF Hit
  <2> DEFINE m == entries[CacheKey(sub[r])]
  <2>2. m \in Builds /\ m.of \in Compilable /\ CacheKey(sub[r]) = CacheKey(m.of)
    BY <1>1, <2>1, ExecutorAssumption DEF CacheInv, CacheTypeOK, CacheSound
  <2>3. m.of = sub[r]
    BY <2>1, <2>2, KeyFacts, ExecutorAssumption
  <2> QED BY <1>1, <1>4, <2>1, <2>2, <2>3 DEF Hit
<1>5. ASSUME NEW r \in Requests, Miss(r)
      PROVE  \A q \in Requests : RequestSound(q)'
  BY <1>1, <1>5 DEF Miss
<1>6. ASSUME NEW r \in Requests, Admission(r)
      PROVE  \A q \in Requests : RequestSound(q)'
  <2>1. CASE Admit(r)
    BY <1>1, <2>1 DEF Admit
  <2>2. CASE Cancelled(r)
    BY <1>1, <2>2, ReturnSound DEF Cancelled
  <2>3. CASE Busy(r)
    BY <1>1, <2>3, ReturnSound DEF Busy
  <2> QED BY <1>6, <2>1, <2>2, <2>3 DEF Admission
<1>7. ASSUME NEW r \in Requests, StartContainer(r)
      PROVE  \A q \in Requests : RequestSound(q)'
  BY <1>1, <1>7 DEF StartContainer
<1>8. ASSUME NEW r \in Requests, FailToStart(r) \/ Container(r)
      PROVE  \A q \in Requests : RequestSound(q)'
  <2>1. /\ sub[r] \in Submissions
        /\ sub' = sub /\ reply' = reply
        /\ pc' = [pc EXCEPT ![r] = "compiled"]
    BY <1>1, <1>8 DEF FailToStart, Container, ContainerEnds, Abandon
  <2>2. PICK o : out' = [out EXCEPT ![r] = o] /\ o \in Outcomes(sub[r])
    <3>1. Output(sub[r], "fault") \in Outcomes(sub[r])
      BY <2>1 DEF Outcomes, Outputs, Output, Builds
    <3> QED BY <1>8, <3>1 DEF FailToStart, Container, ContainerEnds, Abandon
  <2> QED BY <1>1, <2>1, <2>2
<1>9. ASSUME NEW r \in Requests, Release(r)
      PROVE  \A q \in Requests : RequestSound(q)'
  <2>1. /\ out[r] \in Outcomes(sub[r])
        /\ sub' = sub
        /\ sub[r] \in Submissions
    BY <1>1, <1>9 DEF Release
  <2>2. CASE out[r] \in Builds
    <3>1. out[r].of = sub[r] /\ sub[r] \in Compilable
      BY <2>1, <2>2 DEF Outcomes
    <3> QED BY <1>1, <1>9, <2>1, <2>2, <3>1 DEF Release
  <2>3. CASE out[r] \notin Builds
    <3>1. out[r].what \notin {"ran", "timed out"}
      BY <2>1 DEF Outcomes, Outputs
    <3>2. Return(r, out[r].what, sub[r])
      BY <1>9, <2>3 DEF Release
    <3> QED BY <1>1, <2>1, <3>1, <3>2, ReturnSound
  <2> QED BY <2>2, <2>3
<1>10. ASSUME NEW r \in Requests, StoreModule(r)
       PROVE  \A q \in Requests : RequestSound(q)'
  BY <1>1, <1>10 DEF StoreModule
<1>11. ASSUME NEW r \in Requests, Execute(r)
       PROVE  \A q \in Requests : RequestSound(q)'
  <2>1. PICK kind \in {"ran", "timed out", "fault"} : Return(r, kind, out[r].of)
    BY <1>11 DEF Execute
  <2>2. out[r].of = sub[r] /\ sub[r] \in Compilable /\ sub' = sub
    BY <1>1, <1>11 DEF Execute
  <2> QED BY <1>1, <2>1, <2>2, ReturnSound
<1>12. CASE UNCHANGED vars
  BY <1>2, <1>12 DEF vars
<1>13. ASSUME NEW r \in Requests, Leave(r)
       PROVE  \A q \in Requests : RequestSound(q)'
  BY <1>2, <1>13 DEF Leave
<1>14. CASE OrphanEnds \/ \E s \in Submissions : Cached(s)
  BY <1>2, <1>14 DEF OrphanEnds, Cached, runVars
<1> QED
  BY <1>3, <1>4, <1>5, <1>6, <1>7, <1>8, <1>9, <1>10, <1>11, <1>12, <1>13, <1>14
     DEF Next, Local

\* A token is taken by the request that becomes a holder and given back by the
\* one that stops being one (executor.go:157-159, 212-215).
LEMMA SlotsStep ==
  ASSUME IInv, [Next]_vars
  PROVE  SlotsCounted' /\ slots' \in 0..MaxConcurrentCompiles
<1> USE DEF At, Goto, Return
<1>1. /\ pc \in [Requests -> PCs]
      /\ slots \in 0..MaxConcurrentCompiles
      /\ slots = Cardinality(Holders)
      /\ IsFiniteSet(Holders)
      /\ MaxConcurrentCompiles \in Nat
  BY HoldersFinite, ExecutorAssumption DEF IInv, TypeOK, SlotsCounted
<1>2. ASSUME NEW r \in Requests, Admit(r)
      PROVE  SlotsCounted' /\ slots' \in 0..MaxConcurrentCompiles
  <2>1. r \notin Holders /\ Holders' = Holders \cup {r}
    BY <1>1, <1>2 DEF Admit, Holders
  <2>2. Cardinality(Holders') = Cardinality(Holders) + 1
    BY <1>1, <2>1, FS_AddElement
  <2> QED BY <1>1, <1>2, <2>2 DEF Admit, SlotsCounted
<1>3. ASSUME NEW r \in Requests, Release(r)
      PROVE  SlotsCounted' /\ slots' \in 0..MaxConcurrentCompiles
  <2>1. r \in Holders /\ Holders' = Holders \ {r}
    BY <1>1, <1>3 DEF Release, Holders
  <2>2. Cardinality(Holders') = Cardinality(Holders) - 1 /\ Cardinality(Holders') \in Nat
    BY <1>1, <2>1, FS_RemoveElement, FS_CardinalityType
  <2> QED BY <1>1, <1>3, <2>2 DEF Release, SlotsCounted
<1>4. CASE slots' = slots /\ Holders' = Holders
  BY <1>1, <1>4 DEF SlotsCounted
<1>5. ASSUME NEW r \in Requests,
             \/ \E s \in Submissions : Call(r, s)
             \/ Hit(r) \/ Miss(r) \/ StoreModule(r) \/ Execute(r)
             \/ Cancelled(r) \/ Busy(r)
      PROVE  slots' = slots /\ Holders' = Holders
  BY <1>1, <1>5 DEF Call, Hit, Miss, StoreModule, Execute, Cancelled, Busy, Holders
<1>6. ASSUME NEW r \in Requests, StartContainer(r) \/ FailToStart(r) \/ Container(r)
      PROVE  slots' = slots /\ Holders' = Holders
  BY <1>1, <1>6 DEF StartContainer, FailToStart, Container, ContainerEnds, Abandon, Holders
<1>7. ASSUME UNCHANGED vars \/ OrphanEnds
             \/ (\E r \in Requests : Leave(r)) \/ (\E s \in Submissions : Cached(s))
      PROVE  slots' = slots /\ Holders' = Holders
  BY <1>7 DEF vars, OrphanEnds, Leave, Cached, runVars, Holders
<1> QED
  BY <1>2, <1>3, <1>4, <1>5, <1>6, <1>7 DEF Next, Local, Admission

LEMMA TypeStep ==
  ASSUME IInv, [Next]_vars
  PROVE  TypeOK'
<1> USE DEF At, Goto, Reply, NoReply, PCs
<1>1. /\ LocalsOK
      /\ orphans \in 0..MaxOrphans
      /\ MaxOrphans \in Nat
      /\ \A r \in Requests : RequestSound(r)
      /\ CacheInv
  BY ExecutorAssumption DEF IInv, TypeOK, CacheInv, LocalsOK, Replies
<1>2. CacheTypeOK'
  BY CacheStep DEF CacheInv
<1>3. slots' \in 0..MaxConcurrentCompiles
  BY SlotsStep
<1>4. orphans' \in 0..MaxOrphans
  <2>1. ASSUME NEW r \in Requests, Abandon(r) PROVE orphans' \in 0..MaxOrphans
    BY <1>1, <2>1 DEF Abandon
  <2>2. CASE OrphanEnds
    BY <1>1, <2>2 DEF OrphanEnds
  <2>3. CASE UNCHANGED orphans
    BY <1>1, <2>3
  <2> QED
    BY <2>1, <2>2, <2>3
       DEF vars, Next, Local, Admission, Container, Call, Hit, Miss, Release, StoreModule,
           Execute, StartContainer, FailToStart, Admit, Cancelled, Busy, ContainerEnds,
           Leave, Cached
<1>5. ASSUME NEW r \in Requests, NEW s \in Submissions, Call(r, s)
      PROVE  LocalsOK'
  BY <1>1, <1>5 DEF Call, LocalsOK, Replies
<1>6. ASSUME NEW r \in Requests, Hit(r)
      PROVE  LocalsOK'
  <2>1. entries[CacheKey(sub[r])] \in Outputs
    BY <1>1, <1>6, ExecutorAssumption DEF Hit, CacheInv, CacheTypeOK, Builds, Outputs
  <2> QED BY <1>1, <1>6, <2>1 DEF Hit, LocalsOK
<1>7. ASSUME NEW r \in Requests, Miss(r) \/ Admit(r) \/ StartContainer(r) \/ StoreModule(r)
      PROVE  LocalsOK'
  BY <1>1, <1>7 DEF Miss, Admit, StartContainer, StoreModule, LocalsOK
<1>8. ASSUME NEW r \in Requests, Cancelled(r) \/ Busy(r)
      PROVE  LocalsOK'
  <2>1. sub[r] \in Submissions \cup {NoSubmission} /\ {"canceled", "busy"} \subseteq Faults
    BY <1>1 DEF LocalsOK, Faults
  <2> QED BY <1>1, <1>8, <2>1, ReturnLocals DEF Cancelled, Busy
<1>9. ASSUME NEW r \in Requests, FailToStart(r) \/ Container(r)
      PROVE  LocalsOK'
  <2>1. sub[r] \in Submissions
    BY <1>1, <1>9 DEF RequestSound, FailToStart, Container, ContainerEnds, Abandon
  <2>2. Output(sub[r], "fault") \in Outputs /\ Outcomes(sub[r]) \subseteq Outputs
    BY <2>1 DEF Output, Outputs, Outcomes
  <2> QED BY <1>1, <1>9, <2>2 DEF FailToStart, Container, ContainerEnds, Abandon, LocalsOK
<1>10. ASSUME NEW r \in Requests, Release(r)
       PROVE  LocalsOK'
  <2>1. CASE out[r] \in Builds
    BY <1>1, <1>10, <2>1 DEF Release, LocalsOK
  <2>2. CASE out[r] \notin Builds
    <3>1. out[r].what \in {"rejected", "fault"}
      BY <1>1, <1>10, <2>2 DEF Release, RequestSound, Outcomes, Outputs, Builds
    <3>2. Return(r, out[r].what, sub[r]) /\ sub' = sub
      BY <1>10, <2>2 DEF Release
    <3> QED BY <1>1, <3>1, <3>2, ReturnLocals DEF Verdicts, Faults, LocalsOK
  <2> QED BY <2>1, <2>2
<1>11. ASSUME NEW r \in Requests, Execute(r)
       PROVE  LocalsOK'
  <2>1. out[r].of \in Submissions
    BY <1>1, <1>11 DEF Execute, RequestSound, Builds
  <2>2. PICK kind \in {"ran", "timed out", "fault"} : Return(r, kind, out[r].of)
    BY <1>11 DEF Execute
  <2>3. sub' = sub /\ kind \in Verdicts \cup Faults
    BY <1>11 DEF Execute, Verdicts, Faults
  <2> QED BY <1>1, <2>1, <2>2, <2>3, ReturnLocals
<1>12. ASSUME NEW r \in Requests, Leave(r)
       PROVE  LocalsOK'
  BY <1>1, <1>12 DEF Leave, LocalsOK
<1>13. ASSUME UNCHANGED vars \/ OrphanEnds \/ \E s \in Submissions : Cached(s)
       PROVE  LocalsOK'
  BY <1>1, <1>13 DEF vars, OrphanEnds, Cached, runVars, LocalsOK
<1>14. LocalsOK'
  BY <1>5, <1>6, <1>7, <1>8, <1>9, <1>10, <1>11, <1>12, <1>13 DEF Next, Local, Admission
<1> QED BY <1>2, <1>3, <1>4, <1>14 DEF TypeOK, LocalsOK, Replies

\* Every reachable state of the executor is typed, its cache sound, each token
\* held, and each request past its compile carries a build of its own code
\* (executor.go:131-229).
THEOREM ExecutorInvariant == Spec => []IInv
<1>1. ASSUME IInv, [Next]_vars PROVE IInv'
  BY <1>1, TypeStep, SlotsStep, CacheStep, RequestStep DEF IInv, CacheInv
<1> QED BY InitIInv, <1>1, PTL DEF Spec

\* Type correctness of the executor.
THEOREM ExecutorTypeCorrect == Spec => []TypeOK
  BY ExecutorInvariant, PTL DEF IInv

\* The ceiling on concurrent compiles holds for every number of slots and of
\* requests, and no slot is lost or returned twice (executor.go:148-165, 205-215).
THEOREM SlotsAlwaysHeld == Spec => []SlotsAreHeld
<1>1. IInv => SlotsAreHeld
  BY ExecutorAssumption DEF IInv, TypeOK, SlotsCounted, SlotsAreHeld
<1> QED BY ExecutorInvariant, <1>1, PTL

\* What runs for a request is what it submitted, for every cache budget and
\* every interleaving of requests (executor.go:194-229).
THEOREM AlwaysRunsWhatWasSubmitted == Spec => []RunsWhatWasSubmitted
<1>1. IInv => RunsWhatWasSubmitted
  BY DEF IInv, RequestSound, RunsWhatWasSubmitted, At
<1> QED BY ExecutorInvariant, <1>1, PTL

\* Code that swiftc refuses never runs (executor.go:216-222).
THEOREM RefusedCodeNeverEverRuns == Spec => []RefusedCodeNeverRuns
<1>1. IInv => RefusedCodeNeverRuns
  BY DEF IInv, RequestSound, RefusedCodeNeverRuns
<1> QED BY ExecutorInvariant, <1>1, PTL

-----------------------------------------------------------------------------
\* One call of Compile (module Compiler), as the executor makes it.

\* The kinds of answers, and how far a call has come: the types of its state.
Kinds == {"none", "unavailable", "fault", "rejected", "module"}
Answers == [kind : Kinds, shown : SUBSET {"marker", "diagnostics"}]
Progress ==
    /\ stage \in {"called", "cli", "build", "copy", "exited", "returned"}
    /\ cause \in {"none", "no CLI", "daemon", "swiftc", "build died", "no module",
                  "copied", "copy died", "deadline"}
    /\ exit \in {"none", "unstarted", "killed", "0", "1", "2", "125", "137"}
    /\ said \subseteq {"marker", "diagnostics", "noise"}
    /\ file \in {"none", "empty", "partial", "whole", "oversized"}
    /\ late \in BOOLEAN

\* What is known of a call at each of its stages: a module is in the making only
\* for code that compiles, and an outage has left its exit code or its marker.
Stages ==
    /\ stage \notin {"exited", "returned"} => cause = "none"
    /\ stage \in {"called", "cli", "build"} => file = "none"
    /\ stage = "copy" => file \in {"empty", "partial"}
    /\ stage # "returned" => answer = NoAnswer
    /\ file # "none" => job.compiles
    /\ cause = "daemon" => file = "none" /\ (exit = "125" \/ "marker" \in said)

CompileInv ==
    /\ CompileTypeOK
    /\ Stages
    /\ OutageIsNotARejection
    /\ ModuleMeansItCompiled

\* An answer is of its kind.
LEMMA AnswerTypes ==
  ASSUME NEW kind \in Kinds, NEW shown \in SUBSET {"marker", "diagnostics"}
  PROVE  /\ Answer(kind, shown).kind = kind
         /\ Answer(kind, shown) \in Answers
  BY DEF Answer, Answers

\* The types, in parts that a step disturbs one at a time.
LEMMA TypeParts ==
  /\ CompileTypeOK <=> job \in Jobs /\ answer \in Answers /\ Progress
  /\ CompileTypeOK' <=> job' \in Jobs /\ answer' \in Answers /\ Progress'
<1>1. CompileTypeOK <=> job \in Jobs /\ answer \in Answers /\ Progress
  BY DEF CompileTypeOK, Progress, Answers, Kinds
<1>2. CompileTypeOK' <=> job' \in Jobs /\ answer' \in Answers /\ Progress'
  BY DEF CompileTypeOK, Progress, Answers, Kinds
<1> QED BY <1>1, <1>2

\* A call that has just been made.
LEMMA CompileStarts == CompileInit => CompileInv
<1> SUFFICES ASSUME CompileInit PROVE CompileInv
  OBVIOUS
<1>0. answer.kind = "none" /\ answer \in Answers
  BY AnswerTypes DEF CompileInit, NoAnswer, Kinds
<1>1. CompileTypeOK
  BY <1>0 DEF CompileInit, CompileTypeOK, Answers, Kinds
<1>2. Stages /\ OutageIsNotARejection /\ ModuleMeansItCompiled
  BY <1>0 DEF CompileInit, Stages, OutageIsNotARejection, ModuleMeansItCompiled
<1> QED BY <1>1, <1>2 DEF CompileInv

\* A return changes nothing but the stage and the answer.
LEMMA ReturnTypes ==
  ASSUME CompileTypeOK, NEW kind \in Kinds, NEW shown \in SUBSET {"marker", "diagnostics"},
         CompileReturns(kind, shown), UNCHANGED <<job, cause, exit, said, file, late>>
  PROVE  CompileTypeOK' /\ answer'.kind = kind /\ stage' = "returned"
<1>1. answer' \in Answers /\ answer'.kind = kind /\ stage' = "returned"
  BY AnswerTypes DEF CompileReturns
<1> QED BY <1>1, TypeParts DEF Progress, CompileReturns

\* The returns before any container: no runtime to compile with, no scratch
\* directory (compiler.go:120-143).
LEMMA EarlyKeepsInv ==
  ASSUME CompileInv, Refuse \/ NoScratch
  PROVE  CompileInv'
<1>1. PICK kind \in {"unavailable", "fault"} : CompileReturns(kind, {})
  BY DEF Refuse, NoScratch
<1>2. stage = "called" /\ UNCHANGED <<job, cause, exit, said, file, late>>
  BY DEF Refuse, NoScratch
<1>3. CompileTypeOK' /\ answer'.kind = kind /\ stage' = "returned"
  BY <1>1, <1>2, ReturnTypes DEF CompileInv, Kinds
<1> QED BY <1>2, <1>3 DEF CompileInv, Stages, OutageIsNotARejection, ModuleMeansItCompiled

\* Nothing is answered while the container and its CLI are at work.
LEMMA ContainerKeepsInv ==
  ASSUME CompileInv,
         \/ StartCLI \/ NoCLI \/ DaemonFails \/ ContainerStarts \/ Script \/ Deadline
  PROVE  CompileInv'
<1>1. /\ stage # "returned" /\ stage' # "returned"
      /\ UNCHANGED <<job, answer>>
  BY DEF StartCLI, NoCLI, DaemonFails, ContainerStarts, Script, Deadline,
         Ends, SwiftcRefuses, BuildDies, NoModuleFound, CopyBegins, CopyGrows, CopyEnds, CopyDies
<1>2. OutageIsNotARejection' /\ ModuleMeansItCompiled'
  <2>1. answer.kind = "none"
    BY <1>1, AnswerTypes DEF CompileInv, Stages, NoAnswer, Kinds
  <2> QED BY <1>1, <2>1 DEF OutageIsNotARejection, ModuleMeansItCompiled
<1>3. Progress'
  <2>0. Progress
    BY TypeParts DEF CompileInv
  <2> USE <1>1, <2>0 DEF Progress, Ends
  <2>1. CASE StartCLI \/ NoCLI \/ ContainerStarts
    BY <2>1 DEF StartCLI, NoCLI, ContainerStarts
  <2>2. CASE DaemonFails
    BY <2>2 DEF DaemonFails
  <2>3. CASE SwiftcRefuses
    <3>1. said' = {"diagnostics", "noise"} \cup (IF job.quotes THEN {"marker"} ELSE {})
      BY <2>3 DEF SwiftcRefuses
    <3>3. said' \subseteq {"marker", "diagnostics", "noise"}
      BY ONLY <3>1
    <3>2. /\ stage' = "exited" /\ cause' = "swiftc" /\ exit' = "1"
          /\ UNCHANGED <<late, file>>
      BY <2>3 DEF SwiftcRefuses
    <3> QED BY <3>2, <3>3
  <2>4. CASE BuildDies \/ NoModuleFound \/ CopyDies
    BY <2>4 DEF BuildDies, NoModuleFound, CopyDies
  <2>5. CASE CopyBegins \/ CopyGrows \/ CopyEnds
    BY <2>5 DEF CopyBegins, CopyGrows, CopyEnds
  <2>6. CASE Deadline
    BY <2>6 DEF Deadline
  <2> QED BY <2>1, <2>2, <2>3, <2>4, <2>5, <2>6 DEF Script
<1>4. Stages'
  <2> USE <1>1 DEF CompileInv, Stages, Ends
  <2>1. CASE StartCLI \/ NoCLI \/ ContainerStarts
    BY <2>1 DEF StartCLI, NoCLI, ContainerStarts
  <2>2. CASE DaemonFails
    BY <2>2 DEF DaemonFails
  <2>3. CASE SwiftcRefuses
    BY <2>3 DEF SwiftcRefuses
  <2>4. CASE BuildDies \/ NoModuleFound \/ CopyDies
    BY <2>4 DEF BuildDies, NoModuleFound, CopyDies
  <2>5. CASE CopyBegins \/ CopyGrows \/ CopyEnds
    BY <2>5 DEF CopyBegins, CopyGrows, CopyEnds
  <2>6. CASE Deadline
    BY <2>6 DEF Deadline
  <2> QED BY <2>1, <2>2, <2>3, <2>4, <2>5, <2>6 DEF Script
<1>5. CompileTypeOK'
  BY <1>1, <1>3, TypeParts DEF CompileInv
<1> QED BY <1>2, <1>4, <1>5 DEF CompileInv

\* The answer that ends a call.
LEMMA VerdictFacts ==
  ASSUME CompileInv
  PROVE  /\ Verdict \in {"unavailable", "fault", "rejected", "module"}
         /\ CleanDiagnostics \in SUBSET {"marker", "diagnostics"}
         /\ cause = "daemon" => Verdict # "rejected"
         /\ Verdict = "module" => job.compiles /\ file \in {"partial", "whole"}
<1>1. /\ file \in {"none", "empty", "partial", "whole", "oversized"}
      /\ late \in BOOLEAN
      /\ said \subseteq {"marker", "diagnostics", "noise"}
  BY DEF CompileInv, CompileTypeOK
<1>2. Verdict \in {"unavailable", "fault", "rejected", "module"}
  BY <1>1 DEF Verdict, Readable
<1>3. CleanDiagnostics \in SUBSET {"marker", "diagnostics"}
  BY <1>1 DEF CleanDiagnostics
<1>4. CASE late
  BY <1>2, <1>3, <1>4 DEF Verdict
<1>5. CASE ~late
  <2>1. cause = "daemon" => Verdict # "rejected"
    BY <1>5 DEF CompileInv, Stages, Verdict, Readable, IsRuntimeFailure
  <2>2. Verdict = "module" => file \in {"partial", "whole"}
    BY <1>1, <1>5 DEF Verdict, Readable
  <2>3. file # "none" => job.compiles
    BY DEF CompileInv, Stages
  <2> QED BY <1>2, <1>3, <2>1, <2>2, <2>3
<1> QED BY <1>4, <1>5

\* The answer agrees with what is known at the exit.
LEMMA ConcludeKeepsInv ==
  ASSUME CompileInv, Conclude
  PROVE  CompileInv'
<1>1. PICK shown \in SUBSET {"marker", "diagnostics"} : CompileReturns(Verdict, shown)
  BY VerdictFacts DEF Conclude
<1>2. stage = "exited" /\ UNCHANGED <<job, cause, exit, said, file, late>>
  BY DEF Conclude
<1>3. CompileTypeOK' /\ answer'.kind = Verdict /\ stage' = "returned"
  BY <1>1, <1>2, ReturnTypes, VerdictFacts DEF CompileInv, Kinds
<1> QED BY <1>2, <1>3, VerdictFacts
        DEF CompileInv, Stages, OutageIsNotARejection, ModuleMeansItCompiled

\* Every step of a call.
LEMMA CompileStep == CompileInv /\ [CompileNext]_compileVars => CompileInv'
<1> SUFFICES ASSUME CompileInv, [CompileNext]_compileVars PROVE CompileInv'
  OBVIOUS
<1>1. CASE UNCHANGED compileVars
  <2>3. CompileTypeOK'
    BY <1>1, TypeParts DEF compileVars, CompileInv, Progress
  <2>1. Stages'
    BY <1>1 DEF compileVars, CompileInv, Stages, NoAnswer
  <2>2. OutageIsNotARejection' /\ ModuleMeansItCompiled'
    BY <1>1 DEF compileVars, CompileInv, OutageIsNotARejection, ModuleMeansItCompiled
  <2> QED BY <2>1, <2>2, <2>3 DEF CompileInv
<1>2. CASE Done
  BY <1>1, <1>2 DEF Done
<1> QED BY <1>1, <1>2, EarlyKeepsInv, ContainerKeepsInv, ConcludeKeepsInv DEF CompileNext

\* The inductive invariant of one compile, with its types.
THEOREM CompileInvariant == CompileSpec => []CompileInv
<1> QED BY CompileStarts, CompileStep, PTL DEF CompileSpec

\* An outage of the daemon never reads as code that does not compile
\* (compiler.go:230-242).
THEOREM OutagesAreNeverRejections == CompileSpec => []OutageIsNotARejection
<1>1. CompileInv => OutageIsNotARejection
  BY DEF CompileInv
<1> QED BY <1>1, CompileInvariant, PTL

\* A module is answered for code that compiles only (compiler.go:215-221).
THEOREM ModulesAlwaysCompiled == CompileSpec => []ModuleMeansItCompiled
<1>1. CompileInv => ModuleMeansItCompiled
  BY DEF CompileInv
<1> QED BY <1>1, CompileInvariant, PTL

\* The executor's reading of an answer for the submission s.
Read(s) ==
    Output(s, CASE answer.kind = "module" -> file
                [] answer.kind = "rejected" -> "rejected"
                [] OTHER -> "fault")

\* What the executor expects of Compile, and its own theorems rest on, is what
\* Compile does: whatever becomes of the container, the answer for a submission
\* is one of its Outcomes (executor.go:199-223, compiler.go:140-243).
THEOREM CompileGivesOutcomes ==
  CompileSpec =>
    [](\A s \in Submissions :
         (job.compiles => s \in Compilable) /\ answer # NoAnswer => Read(s) \in Outcomes(s))
<1>1. ASSUME CompileInv, NEW s \in Submissions,
             job.compiles => s \in Compilable, answer # NoAnswer
      PROVE  Read(s) \in Outcomes(s)
  <2>1. CASE answer.kind = "module"
    <3>1. file \in {"partial", "whole"} /\ s \in Compilable
      BY <1>1, <2>1 DEF CompileInv, ModuleMeansItCompiled
    <3> QED BY <2>1, <3>1 DEF Read, Output, Outcomes, Outputs
  <2>2. CASE answer.kind # "module"
    <3>1. Read(s) = [of |-> s, what |-> "rejected"] \/ Read(s) = [of |-> s, what |-> "fault"]
      BY <2>2 DEF Read, Output
    <3> QED BY <3>1 DEF Outcomes, Outputs, Builds
  <2> QED BY <2>1, <2>2
<1>2. CompileInv =>
        \A s \in Submissions :
          (job.compiles => s \in Compilable) /\ answer # NoAnswer => Read(s) \in Outcomes(s)
  BY <1>1
<1> QED BY <1>2, CompileInvariant, PTL
=============================================================================
