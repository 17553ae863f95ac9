------------------------------ MODULE MCVisitor ------------------------------
(***************************************************************************)
(* Visitor for TLC: tabs are interchangeable, and so are lessons.          *)
(***************************************************************************)
EXTENDS Visitor, TLC

VisitorSymmetry == Permutations(Tabs) \cup Permutations(Lessons)
=============================================================================
