---------------------------- MODULE CacheHistory ----------------------------
(***************************************************************************)
(* ModuleCache beside a history of use that is kept apart from the cache's *)
(* own list, and what eviction owes to that history.                       *)
(***************************************************************************)
EXTENDS ModuleCache

VARIABLE usedSince  \* for each key, the keys looked up or stored since it was

Touch(k) == usedSince' = [j \in Keys |-> IF j = k THEN {} ELSE usedSince[j] \cup {k}]

HistoryInit == CacheInit /\ usedSince = [k \in Keys |-> {}]

\* A refused store uses nothing, and a miss finds nothing to use.
HistoryNext ==
    \/ \E k \in Keys : Get(k) /\ IF k \in Held THEN Touch(k) ELSE UNCHANGED usedSince
    \/ \E k \in Keys, m \in Modules :
         Put(k, m) /\ IF Size[m] <= Limit THEN Touch(k) ELSE UNCHANGED usedSince

HistorySpec == HistoryInit /\ [][HistoryNext]_<<cacheVars, usedSince>>

\* Whatever survives an eviction was used more recently than whatever did not,
\* by the history of calls and not by the list (cache.go:56, 77, 83).
EvictsLeastRecentlyUsed ==
    [][\A k \in Held \ Held', j \in Held \cap Held' : j \in usedSince[k]]_<<cacheVars, usedSince>>

\* An insertion evicts down to the budget, from wherever a replacement had pushed
\* the cache, and no further: the most recently used victim would not have fitted
\* (cache.go:71-92).
EvictsOnlyToBudget ==
    [][Held' # Held =>
         /\ bytes' <= Limit
         /\ \/ Held \subseteq Held'
            \/ \E v \in Held \ Held' :
                 /\ \A k \in Held \ (Held' \cup {v}) : v \in usedSince[k]
                 /\ bytes' + Size[entries[v]] > Limit]_<<cacheVars, usedSince>>
=============================================================================
