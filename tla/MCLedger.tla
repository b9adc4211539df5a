------------------------------ MODULE MCLedger ------------------------------
(* A small instance of Ledger: two accounts, two periods that share a day,  *)
(* a balanced and an unbalanced voucher.                                   *)
EXTENDS Ledger, TLC

CONSTANTS cash, fees, term, year, k1

Days(p) == IF p = term THEN {1} ELSE {1, 2}
TheCovers == [p \in {term, year} |-> Days(p)]
Lump(x, y) == [dr |-> (cash :> x) @@ (fees :> 0), cr |-> (cash :> 0) @@ (fees :> y)]
TheData == {[lines |-> Lump(2, 2), key |-> k1], [lines |-> Lump(2, 1), key |-> None]}

Symmetry == Permutations(Sessions)
=============================================================================
