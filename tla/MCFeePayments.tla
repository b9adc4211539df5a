--------------------------- MODULE MCFeePayments ---------------------------
(* Instances of FeePayments for TLC.                                       *)
EXTENDS FeePayments, TLC

CONSTANTS r1, r2, r3, r4, d1, d2, s1

(* Every due is a due of one student and of two units.                     *)
OneStudentOf == [d \in Dues |-> s1]
OriginalTwo  == [d \in Dues |-> 2]

Interchangeable == Permutations(Requests) \cup Permutations(Dues)
=============================================================================
