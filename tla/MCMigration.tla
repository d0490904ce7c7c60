----------------------------- MODULE MCMigration -----------------------------
(* Instances of Migration for TLC. *)
EXTENDS Migration, TLC

Symmetry == Permutations(Collector)
=============================================================================
