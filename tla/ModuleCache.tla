---------------------------- MODULE ModuleCache ----------------------------
(***************************************************************************)
(* The in-process cache of compiled modules, MemoryCache in                *)
(* internal/executor/cache.go.  Every method holds the mutex from its      *)
(* first statement to its last, so each is one action.                     *)
(***************************************************************************)
EXTENDS Integers, Sequences, FiniteSets

CONSTANTS
    Keys,       \* content hashes of submissions
    Modules,    \* compiled modules
    Size,       \* len(module), in units of the budget
    Limit       \* the byte budget

ASSUME CacheAssumption ==
    /\ IsFiniteSet(Keys)
    /\ Size \in [Modules -> Nat]
    /\ Limit \in Nat \ {0}

VARIABLES
    entries,    \* key -> module, a function on the keys held
    order,      \* the keys held, most recently used first
    bytes       \* the running count of the bytes held

cacheVars == <<entries, order, bytes>>

CacheInit ==
    /\ entries = << >>
    /\ order = << >>
    /\ bytes = 0

Held == DOMAIN entries

\* The keys at the positions of S in a recency order.
KeysAt(o, S) == {o[i] : i \in S}

\* The bytes of the modules that f holds under the keys of S, each byte by its
\* key and its place in the module, and how many they are.
BytesOf(f, S) == UNION {{k} \X (1..Size[f[k]]) : k \in S}
Weight(f, S) == Cardinality(BytesOf(f, S))

\* k goes to the front and the entries that were before it move down by one.
MoveToFront(k) ==
    \E p \in 1..Len(order) :
        /\ order[p] = k
        /\ order' = [i \in 1..Len(order) |->
                      IF i = 1 THEN k ELSE IF i <= p THEN order[i - 1] ELSE order[i]]

\* Slip: a lookup that leaves the recency order alone.
GetWithoutTouch(k) == UNCHANGED cacheVars

Get(k) ==
    /\ IF k \in Held THEN MoveToFront(k) ELSE UNCHANGED order
    /\ UNCHANGED <<entries, bytes>>

\* Slips: the old module's bytes are not taken off; a second list element is
\* pushed; one buffer is shared by every entry.
ReplaceAddsOnly(k, m) ==
    k \in Held /\ entries' = [entries EXCEPT ![k] = m] /\ bytes' = bytes + Size[m] /\ MoveToFront(k)
ReplacePushes(k, m) ==
    /\ k \in Held /\ entries' = [entries EXCEPT ![k] = m] /\ order' = <<k>> \o order
    /\ bytes' = bytes - Size[entries[k]] + Size[m]
ReplaceShares(k, m) ==
    k \in Held /\ entries' = [j \in Held |-> m] /\ MoveToFront(k) /\ UNCHANGED bytes

\* An existing key: its module is swapped and its bytes adjusted.  The
\* eviction loop is not reached on this path.
Replace(k, m) ==
    /\ k \in Held
    /\ entries' = [entries EXCEPT ![k] = m]
    /\ bytes' = bytes - Size[entries[k]] + Size[m]
    /\ MoveToFront(k)

\* A new key goes to the front, then the back is dropped entry by entry while
\* the count is over the limit: the n entries kept are the longest prefix at
\* which the loop stops.
Insert(k, m) ==
    /\ k \notin Held
    /\ LET all == [j \in Held \cup {k} |-> IF j = k THEN m ELSE entries[j]]
           o   == <<k>> \o order
           LeftAfter(n) ==
               bytes + Size[m] - Weight(all, KeysAt(o, (n + 1)..Len(o)))
           Stops(n) == n = 0 \/ LeftAfter(n) <= Limit
       IN  \E n \in 0..Len(o) :
             /\ Stops(n)
             /\ \A j \in (n + 1)..Len(o) : ~Stops(j)
             /\ order' = SubSeq(o, 1, n)
             /\ entries' = [j \in KeysAt(o, 1..n) |-> all[j]]
             /\ bytes' = LeftAfter(n)

\* Slip: nothing is evicted.
PutNeverEvicts(k, m) ==
    \/ Replace(k, m)
    \/ /\ k \notin Held
       /\ entries' = [j \in Held \cup {k} |-> IF j = k THEN m ELSE entries[j]]
       /\ order' = <<k>> \o order
       /\ bytes' = bytes + Size[m]

\* A module larger than the whole budget is refused, and an older module of
\* the same key stays.
Put(k, m) ==
    \/ Size[m] > Limit /\ UNCHANGED cacheVars
    \/ Size[m] <= Limit /\ (Replace(k, m) \/ Insert(k, m))

CacheNext ==
    \/ \E k \in Keys : Get(k)
    \/ \E k \in Keys, m \in Modules : Put(k, m)

CacheSpec == CacheInit /\ [][CacheNext]_cacheVars

-----------------------------------------------------------------------------
\* What the cache promises.

\* The types of entries and order; bytes is pinned down by BytesAreAccounted.
CacheTypeOK ==
    /\ Held \subseteq Keys
    /\ entries \in [Held -> Modules]
    /\ order \in Seq(Keys)

\* The map and the list describe the same entries, each once: no entry is out
\* of reach of the eviction loop and no list element outlives its entry
\* (cache.go:22-23, 79, 88-89).
ListMatchesMap ==
    /\ KeysAt(order, 1..Len(order)) = Held
    /\ \A i, j \in 1..Len(order) : order[i] = order[j] => i = j

\* The running count survives any mixture of inserts, replacements and
\* evictions: it is the size of what is held (cache.go:72-74, 80, 90), which
\* is what makes the eviction loop stop at the right entry.
BytesAreAccounted == bytes = Weight(entries, Held)

\* The cache is a store that may forget: what it has stored are the entries, and
\* the recency list and the byte count only decide what it forgets
\* (executor.go:86-90).
Contract == INSTANCE ForgetfulStore WITH stored <- entries
StoreContract == Contract!Spec
=============================================================================
