------------------------------ MODULE MCDeploys ------------------------------
(***************************************************************************)
(* Deploys for TLC: commits that move, add and drop lessons, and one that  *)
(* must not be served.                                                     *)
(***************************************************************************)
EXTENDS Deploys, TLC

MCTracks == <<"swift-basics", "swiftui">>

Lesson(slug, track, order) ==
    [slug |-> slug, fenced |-> TRUE, titled |-> TRUE, track |-> track, order |-> order,
     minutes |-> 2, runtime |-> "embedded"]

\* b drops two lessons and moves the third to another track; a has two of one
\* order; each has a migration that the other lacks.
MCFiles ==
    [a |-> {Lesson(1, "swift-basics", 1), Lesson(2, "swift-basics", 1), Lesson(3, "swiftui", 1)},
     b |-> {Lesson(2, "swiftui", 1)},
     typo |-> {Lesson(1, "swiftui", 1), Lesson(2, "swift-basic", 1)}]

MCMigrations == [a |-> {1, 3}, b |-> {1, 2}, typo |-> {1}]

\* A cluster's server, a developer's, and two that config.Load refuses.
MCEnvironments ==
    {[goEnv |-> "production", compiles |-> "", autoMigrate |-> "", databaseURL |-> "postgres"],
     [goEnv |-> "", compiles |-> "2", autoMigrate |-> "", databaseURL |-> "postgres"],
     [goEnv |-> "", compiles |-> "0", autoMigrate |-> "true", databaseURL |-> "postgres"],
     [goEnv |-> "production", compiles |-> "", autoMigrate |-> "true", databaseURL |-> ""]}

MCCommits == DOMAIN MCFiles

ReplicaSymmetry == Permutations(Replicas)
=============================================================================
