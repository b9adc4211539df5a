----------------------------- MODULE MCApprovals -----------------------------
(* A small instance of Approvals: the leave workflow with one review step,  *)
(* and a step of another workflow.                                         *)
EXTENDS Approvals, TLC

CONSTANTS draft, review, approved, foreign, staff, boss, leaves, other

Step(w, i, f, r) == [wf |-> w, initial |-> i, final |-> f, role |-> r]
TheGraph == (draft :> Step(leaves, TRUE, FALSE, None)) @@
            (review :> Step(leaves, FALSE, FALSE, "admin")) @@
            (approved :> Step(leaves, FALSE, TRUE, None)) @@
            (foreign :> Step(other, TRUE, FALSE, None))
Seeded == {[from |-> draft, to |-> review, role |-> None],
           [from |-> review, to |-> approved, role |-> "admin"]}
TheEdges == Seeded \cup {[from |-> draft, to |-> approved, role |-> None],
                         [from |-> approved, to |-> approved, role |-> None]}
Changed == {leaves, review} \cup {e \in TheEdges : e.from # draft \/ e.to = approved}
TheRoles == (staff :> {"staff"}) @@ (boss :> {"admin"})

Symmetry == Permutations(Sessions)
=============================================================================
