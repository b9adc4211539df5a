----------------------------- MODULE MCBilling ------------------------------
(* A small instance of Billing: a plan whose trial and periods are one      *)
(* unit long, a full capture, a short one and a failure.                   *)
EXTENDS Billing, TLC

CONSTANTS school, monthly, full, short, failure

ThePrice == [p \in Plans |-> 2]
TheLength == [p \in Plans |-> 1]
Charge(kind, n) == [campus |-> school, kind |-> kind, amount |-> n]
TheEvent == (full :> Charge("captured", 2)) @@ (short :> Charge("captured", 1))
            @@ (failure :> Charge("failed", NoValue))

Symmetry == Permutations(Sessions)
=============================================================================
