--------------------------- MODULE ForgetfulStore ---------------------------
(***************************************************************************)
(* What internal/executor asks of its Cache interface (executor.go:86-90): *)
(* a lookup answers with the module last stored under the key, or with     *)
(* nothing.  A cache may forget any entry whenever it stores one, and may  *)
(* decline to store; it may never answer with a module of another key or   *)
(* with one that has been replaced.                                        *)
(***************************************************************************)
CONSTANTS
    Keys,       \* content hashes of submissions
    Modules     \* compiled modules

VARIABLE stored     \* the modules a lookup can return, by key

Init == stored = << >>

Lookup == UNCHANGED stored

\* k is stored, or declined; whatever else is kept is kept unchanged.
Store(k, m) ==
    \E kept \in SUBSET (DOMAIN stored \cup {k}) :
        stored' = [j \in kept |-> IF j = k THEN m ELSE stored[j]]

Next == Lookup \/ \E k \in Keys, m \in Modules : Store(k, m)

Spec == Init /\ [][Next]_stored
=============================================================================
