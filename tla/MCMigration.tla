---------------------------- MODULE MCMigration ----------------------------
(* An instance of Migration for TLC: the configuration, the rules with their  *)
(* counter, and one collection without.                                      *)
EXTENDS Migration, TLC

CONSTANTS p1, p2

MCOrder == <<"config", "rules", "personas">>
MCLegacy == "config" :> {1} @@ "rules" :> {1, 2} @@ "personas" :> {1, 2}
MCTop == "config" :> 1 @@ "rules" :> 2 @@ "personas" :> 2
MCKeys == "config" :> {1} @@ "rules" :> {} @@ "personas" :> {2, 3}

Symmetric == Permutations({p1, p2})
=============================================================================
