--------------------------- MODULE MCModuleCache ---------------------------
(***************************************************************************)
(* ModuleCache on three keys and modules of four sizes, one of them larger *)
(* than the whole budget, with its history of use.                         *)
(***************************************************************************)
EXTENDS CacheHistory

CONSTANTS k1, k2, k3    \* model values

MCKeys == {k1, k2, k3}
MCModules == {"bare", "embedded", "full", "huge"}
MCSize == [m \in MCModules |->
             CASE m = "bare" -> 1 [] m = "embedded" -> 2 [] m = "full" -> 3 [] m = "huge" -> 5]
MCLimit == 4
=============================================================================
