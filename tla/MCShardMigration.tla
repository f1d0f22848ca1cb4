-------------------------- MODULE MCShardMigration --------------------------
(* Model-checking instance of ShardMigration. *)
EXTENDS ShardMigration, TLC

CONSTANTS i1, i2

MCTasks == i1 :> 1 @@ i2 :> 2
MCReleases == i1 :> 0 @@ i2 :> 2

Symmetry == Permutations(Executors)
=============================================================================
