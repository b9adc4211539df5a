------------------------------ MODULE MCCases -------------------------------
(* A small instance of Cases: two sessions, a risk rule and a check.       *)
EXTENDS Cases, TLC

Symmetry == Permutations(Sessions)
=============================================================================
