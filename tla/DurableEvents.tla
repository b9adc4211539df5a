--------------------------- MODULE DurableEvents ----------------------------
(***************************************************************************)
(* What the outbox promises, with no transactions, workers or locks: an    *)
(* event that was announced is owed until it is delivered, which tells its *)
(* recipient once, or until it has failed MaxAttempts times.               *)
(***************************************************************************)
EXTENDS Integers

CONSTANTS Events, MaxAttempts

VARIABLES
    state,      \* "unknown", "owed", "delivered" or "given_up"
    failures,   \* failed deliveries of each event
    told        \* how often its recipient was told

vars == <<state, failures, told>>

Init ==
    /\ state = [e \in Events |-> "unknown"]
    /\ failures = [e \in Events |-> 0]
    /\ told = [e \in Events |-> 0]

Announce(e) ==
    /\ state[e] = "unknown"
    /\ state' = [state EXCEPT ![e] = "owed"]
    /\ UNCHANGED <<failures, told>>

(* One batch: the events of D are delivered and those of F fail.           *)
Settle(D, F) ==
    /\ D \cap F = {}
    /\ \A e \in D \cup F : state[e] = "owed"
    /\ failures' = [e \in Events |-> failures[e] + (IF e \in F THEN 1 ELSE 0)]
    /\ told' = [e \in Events |-> told[e] + (IF e \in D THEN 1 ELSE 0)]
    /\ state' = [e \in Events |->
                    IF e \in D THEN "delivered"
                    ELSE IF e \in F /\ failures[e] + 1 = MaxAttempts THEN "given_up"
                    ELSE state[e]]

Next ==
    \/ \E e \in Events : Announce(e)
    \/ \E D, F \in SUBSET Events : Settle(D, F)

Spec == Init /\ [][Next]_vars
=============================================================================
