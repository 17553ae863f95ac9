----------------------------- MODULE MCSessions -----------------------------
(***************************************************************************)
(* Sessions on two requests, two accounts, two sessions and one token.     *)
(***************************************************************************)
EXTENDS Sessions, TLC

\* Requests, addresses and secrets are interchangeable among themselves.
Symmetry ==
    Permutations(Requests) \cup Permutations(Users) \cup Permutations(SessionIds)
=============================================================================
