--------------------------- MODULE MCMigrationPlan ---------------------------
(* A small instance of MigrationPlan for TLC. *)
EXTENDS MigrationPlan

Symmetry == Permutations(Labels) \cup Permutations(Sources)
=============================================================================
