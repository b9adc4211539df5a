--------------------------- MODULE MCCommunications ---------------------------
(* A small instance of Communications: one schedule that recurs once.         *)
EXTENDS Communications

OccurrencesOf == [m \in Messages |-> 1]
=============================================================================
