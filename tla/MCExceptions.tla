---------------------------- MODULE MCExceptions ----------------------------
(* A small instance of Exceptions: three requests at a time.               *)
EXTENDS Exceptions, TLC

Symmetry == Permutations(Sessions)
=============================================================================
