----------------------------- MODULE FeeAccount -----------------------------
(***************************************************************************)
(* What the fees service promises about money, with no requests, locks or  *)
(* transactions: a payment moves an amount onto one due, a refund moves    *)
(* part of what the payment still holds back off the same due, and nothing *)
(* else moves money.                                                       *)
(***************************************************************************)
EXTENDS Integers

CONSTANTS Ids, Dues, Original, Amounts, None

VARIABLES
    paid,     \* what each due holds
    holds,    \* what each payment still holds
    on        \* the due a payment was made on, None before it is made

vars == <<paid, holds, on>>

Init ==
    /\ paid = [d \in Dues |-> 0]
    /\ holds = [p \in Ids |-> 0]
    /\ on = [p \in Ids |-> None]

Pay(p, d, a) ==
    /\ on[p] = None
    /\ paid[d] + a <= Original[d]
    /\ paid' = [paid EXCEPT ![d] = @ + a]
    /\ holds' = [holds EXCEPT ![p] = a]
    /\ on' = [on EXCEPT ![p] = d]

Refund(p, a) ==
    /\ on[p] # None
    /\ a <= holds[p]
    /\ paid' = [paid EXCEPT ![on[p]] = @ - a]
    /\ holds' = [holds EXCEPT ![p] = @ - a]
    /\ UNCHANGED on

Next == \E p \in Ids, a \in Amounts : Refund(p, a) \/ \E d \in Dues : Pay(p, d, a)

Spec == Init /\ [][Next]_vars
=============================================================================
