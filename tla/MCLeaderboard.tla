---------------------------- MODULE MCLeaderboard ----------------------------
(***************************************************************************)
(* Leaderboard for TLC: four learners, and five names of which the first   *)
(* two differ in case only; the board holds three lines, so that a tie is  *)
(* followed by another line and somebody is left out.                      *)
(***************************************************************************)
EXTENDS Leaderboard, TLC

MCNames == 1..5
MCLower == <<2, 2, 3, 4, 5>>

LearnerSymmetry == Permutations(Learners)
=============================================================================
