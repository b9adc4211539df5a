----------------------------- MODULE MCAuditChain -----------------------------
(* Small instances of AuditChain.                                             *)
EXTENDS AuditChain

CONSTANTS t1, t2, t3

(* t1 records up to two events, t2 one; t3 only backfills.                    *)
TwoOneNone == [t \in Transactions |-> CASE t = t1 -> 2 [] t = t2 -> 1 [] t = t3 -> 0]

Symmetry == Permutations(Campuses)
=============================================================================
