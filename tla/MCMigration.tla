----------------------------- MODULE MCMigration ----------------------------
(* A small instance of Migration: two requests, two workers.               *)
EXTENDS Migration, TLC

Symmetry == Permutations(Sessions) \cup Permutations(Workers)
=============================================================================
