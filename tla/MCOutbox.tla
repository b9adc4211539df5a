------------------------------- MODULE MCOutbox -------------------------------
(* Small instances of Outbox.                                                 *)
EXTENDS Outbox, TLC

CONSTANTS e1, e2, e3, p1, p2, p3

(* p1 and p2 publish the same event.                                          *)
TwoPublishE1 == [p \in Producers |-> IF p = p3 THEN e2 ELSE e1]
AgeOf        == [e \in Events |-> IF e = e1 THEN 1 ELSE 2]

=============================================================================
