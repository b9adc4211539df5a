------------------------------ MODULE MCJobQueue ------------------------------
(* Small instances of JobQueue.                                               *)
EXTENDS JobQueue, TLC

CONSTANTS j1, j2

RankOf    == [j \in Jobs |-> IF j = j1 THEN 1 ELSE 2]
RetriesOf == [j \in Jobs |-> IF j = j2 THEN 1 ELSE 0]

Symmetry == Permutations(Workers)
=============================================================================
