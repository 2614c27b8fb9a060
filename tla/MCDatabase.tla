----------------------------- MODULE MCDatabase -----------------------------
(* Small instances of Database for TLC. *)
EXTENDS DatabaseService, TLC

\* Connection strings, limits and request slots are interchangeable.
Symmetry == Permutations(Connections) \cup Permutations(Limits)
                \cup Permutations(Requests)
=============================================================================
