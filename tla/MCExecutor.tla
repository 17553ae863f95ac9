----------------------------- MODULE MCExecutor -----------------------------
(***************************************************************************)
(* Executor on two or three requests, one text that compiles for the full  *)
(* SDK and is refused by the embedded one, and one that compiles for both. *)
(* A whole module is twice the size of a partial one, and the budget holds *)
(* three partial ones.                                                     *)
(***************************************************************************)
EXTENDS Executor, TLC

CONSTANTS r1, r2, r3    \* model values: requests

MCSources == {"hello", "task"}
MCKeys == {CacheKey(s) : s \in Submissions}
MCModules == Builds
MCCompilable == Submissions \ {<<"task", "embedded">>}
MCSize == [m \in MCModules |-> IF m.what = "whole" THEN 2 ELSE 1]

SmallSources == {"task"}

\* Requests are interchangeable; used where nothing temporal is checked.
Symmetry == Permutations(Requests)
=============================================================================
