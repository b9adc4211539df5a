----------------------------- MODULE Approvals -----------------------------
(***************************************************************************)
(* The workflow engine and the leave requests it approves: definitions     *)
(* that an administrator changes, instances that run through them, and the *)
(* record under approval, which its owner may edit while no review of it   *)
(* is active.                                                              *)
(*                                                                         *)
(* A session is one database transaction: it reads the instance it acts on *)
(* (Open), and later flushes and commits what it decided (Commit...).  No  *)
(* row is locked in between, and the flush writes only the columns whose   *)
(* value the session changed.                                              *)
(***************************************************************************)
EXTENDS Integers, FiniteSets, Sequences, SequencesExt

CONSTANTS
    Sessions,       \* request handlers, each serving one request at a time
    Workflows, Steps,
    Graph,          \* Graph[s]: workflow of s, whether initial or final, role that may act
    AllEdges,       \* the transitions that may exist, [from, to, role]
    FirstEdges,     \* those that exist at first
    Users, Roles,   \* Roles[u]: the role codes of u
    Leaves,         \* leave requests, by their id
    LeaveWorkflow,  \* the workflow with code LEAVE_REQUEST
    Ids,            \* workflow instance ids
    MaxHistory,     \* bound on the history entries an action may follow
    MaxEdits,       \* bound on the edits of one leave request
    MaxAdmin,       \* bound on the changes to definitions
    Changeable,     \* the definitions the administrator changes
    None

ASSUME GraphAssumption ==
    /\ LeaveWorkflow \in Workflows
    /\ None \notin Steps \cup Leaves \cup Ids /\ None # "deleted"
    /\ \A s \in Steps : Graph[s].wf \in Workflows
    /\ \A e \in AllEdges : /\ e.from \in Steps /\ e.to \in Steps
                           /\ Graph[e.from].wf = Graph[e.to].wf
    /\ FirstEdges \subseteq AllEdges
    /\ MaxHistory \in Nat /\ MaxEdits \in Nat /\ MaxAdmin \in Nat

VARIABLES
    template,       \* workflows: active, inactive or deleted
    steps, edges,   \* definition rows that exist
    instance,       \* workflow_instances
    history,        \* approval_history of each instance
    leave,          \* leave_requests
    session,        \* what each session has read and decided
    admin,          \* changes made to definitions
    overlapped      \* instances acted on by a session that had read an older state

vars == <<template, steps, edges, instance, history, leave, session, admin, overlapped>>
definitions == <<template, steps, edges, admin>>

Absent  == [wf |-> None, step |-> None, entity |-> None, status |-> "none"]
NoLeave == [made |-> FALSE, content |-> 0, instance |-> None]
Idle    == [op |-> "idle"]

Statuses == {"none", "active", "completed", "cancelled"}

Init ==
    /\ template = [w \in Workflows |-> "active"]
    /\ steps = Steps
    /\ edges = FirstEdges
    /\ instance = [i \in Ids |-> Absent]
    /\ history = [i \in Ids |-> <<>>]
    /\ leave = [l \in Leaves |-> NoLeave]
    /\ session = [c \in Sessions |-> Idle]
    /\ admin = 0
    /\ overlapped = {}

-----------------------------------------------------------------------------
Holds(u, role) == role = None \/ role \in Roles[u]

(* _assert_step_role: the role the current step is assigned to.            *)
MayActOn(u, s) == Holds(u, Graph[s].role)

Initial(w) == {s \in steps : Graph[s].wf = w /\ Graph[s].initial}

(* get_by_entity: the active instances of a record.                        *)
ActiveOf(l) == {i \in Ids : instance[i].status = "active" /\ instance[i].entity = l}

(* start_instance, the checks: the workflow is active, the record has no   *)
(* active instance, one step is the initial one.                           *)
MayStart(w, l) ==
    /\ template[w] = "active"
    /\ ActiveOf(l) = {}
    /\ Cardinality(Initial(w)) = 1

(* A client starts a further review of a request that exists.              *)
OpenStart(c, w, l) ==
    /\ session[c] = Idle
    /\ leave[l].made
    /\ MayStart(w, l)
    /\ \E s \in Initial(w) :
          session' = [session EXCEPT ![c] = [op |-> "start", wf |-> w, entity |-> l, step |-> s]]
    /\ UNCHANGED <<definitions, instance, history, leave, overlapped>>

(* LeaveRequestService.create: a leave request and its instance, or the    *)
(* request alone when no workflow has the code.                            *)
Creating(l) == \E d \in Sessions : session[d].op = "leave" /\ session[d].entity = l

OpenLeave(c, l) ==
    /\ session[c] = Idle
    /\ ~leave[l].made
    /\ ~Creating(l)
    /\ \/ /\ MayStart(LeaveWorkflow, l)
          /\ \E s \in Initial(LeaveWorkflow) :
                session' = [session EXCEPT ![c] = [op |-> "leave", wf |-> LeaveWorkflow,
                                                   entity |-> l, step |-> s]]
       \/ /\ template[LeaveWorkflow] = "deleted"
          /\ session' = [session EXCEPT ![c] = [op |-> "leave", wf |-> None,
                                                entity |-> l, step |-> None]]
    /\ UNCHANGED <<definitions, instance, history, leave, overlapped>>

Entry(from, to, action, l) ==
    [from |-> from, to |-> to, action |-> action, content |-> leave[l].content]

(* start_instance, the inserts: the instance at its initial step and the   *)
(* history entry of its submission.                                        *)
Started(i, r) ==
    /\ instance[i] = Absent
    /\ \A j \in Ids : instance[j] = Absent => i <= j
    /\ r.step \in steps
    /\ instance' = [instance EXCEPT ![i] = [wf |-> r.wf, step |-> r.step, entity |-> r.entity,
                                            status |-> "active"]]
    /\ history' = [history EXCEPT ![i] = <<Entry(None, r.step, "submit", r.entity)>>]

CommitStart(c) ==
    /\ session[c].op = "start"
    /\ \E i \in Ids : Started(i, session[c])
    /\ session' = [session EXCEPT ![c] = Idle]
    /\ UNCHANGED <<definitions, leave, overlapped>>

CommitLeave(c) ==
    /\ session[c].op = "leave"
    /\ LET l == session[c].entity IN
         \/ /\ session[c].wf = None
            /\ leave' = [leave EXCEPT ![l].made = TRUE]
            /\ UNCHANGED <<instance, history>>
         \/ /\ session[c].wf # None
            /\ \E i \in Ids :
                  /\ Started(i, session[c])
                  /\ leave' = [leave EXCEPT ![l].made = TRUE, ![l].instance = i]
    /\ session' = [session EXCEPT ![c] = Idle]
    /\ UNCHANGED <<definitions, overlapped>>

-----------------------------------------------------------------------------
Entries == Cardinality(UNION {{i} \X DOMAIN history[i] : i \in Ids})

(* perform_action: an actor may act on an active instance at a step whose  *)
(* role it has.                                                            *)
MayPerform(c, i, u) ==
    /\ session[c] = Idle
    /\ instance[i].status = "active"
    /\ Entries < MaxHistory
    /\ MayActOn(u, instance[i].step)

(* The session has read the instance and decided where it goes and what it *)
(* becomes.                                                                *)
Decide(c, i, action, to, status) ==
    /\ session' = [session EXCEPT ![c] =
          [op |-> "act", id |-> i, action |-> action, from |-> instance[i].step,
           to |-> to, status |-> status, seen |-> Len(history[i])]]
    /\ UNCHANGED <<definitions, instance, history, leave, overlapped>>

OutOf(i) == {e \in edges : e.from = instance[i].step}
OwnSteps(i) == {s \in steps : Graph[s].wf = instance[i].wf}

(* approve: along a transition whose role the actor has.                   *)
Approve(c, i, u) ==
    /\ MayPerform(c, i, u)
    /\ \E e \in OutOf(i) :
          /\ Holds(u, e.role)
          /\ Decide(c, i, "approve", e.to,
                    IF Graph[e.to].final THEN "completed" ELSE "active")

(* submit: out of the initial step; a final target does not complete it.   *)
Submit(c, i, u) ==
    /\ MayPerform(c, i, u)
    /\ Graph[instance[i].step].initial
    /\ \E e \in OutOf(i) : Holds(u, e.role) /\ Decide(c, i, "submit", e.to, "active")

(* reject: the optional target may be any step, of any workflow; the role  *)
(* of a transition to it is required.                                      *)
Reject(c, i, u) ==
    /\ MayPerform(c, i, u)
    /\ \E t \in steps \cup {instance[i].step} :
          /\ \A e \in OutOf(i) : e.to = t => Holds(u, e.role)
          /\ Decide(c, i, "reject", t, "cancelled")

(* cancel: the optional target is a step of the instance's workflow.       *)
Cancel(c, i, u) ==
    /\ MayPerform(c, i, u)
    /\ \E t \in OwnSteps(i) \cup {instance[i].step} : Decide(c, i, "cancel", t, "cancelled")

(* Broken variant: the target of a return is not compared with the         *)
(* instance's workflow.                                                    *)
ReturnAnywhere(c, i, u) ==
    /\ MayPerform(c, i, u)
    /\ \E t \in steps : Decide(c, i, "return", t, "active")

(* return: to any step of the instance's workflow.                         *)
Return(c, i, u) ==
    /\ MayPerform(c, i, u)
    /\ \E t \in OwnSteps(i) : Decide(c, i, "return", t, "active")

(* Broken variant: the status is left to a later call.                     *)
FlushedStepOnly(i, r) ==
    [instance[i] EXCEPT !.step = IF r.to # r.from THEN r.to ELSE @]

(* The UPDATE of the flush: step and status, each only if changed.         *)
Flushed(i, r) ==
    [instance[i] EXCEPT !.step   = IF r.to # r.from THEN r.to ELSE @,
                        !.status = IF r.status # "active" THEN r.status ELSE @]

(* Flush, history entry and commit.  The instance and both steps still     *)
(* exist, or a statement fails and the session is abandoned.               *)
CommitAct(c) ==
    /\ session[c].op = "act"
    /\ LET r == session[c]
           i == r.id
       IN /\ instance[i].status # "none"
          /\ {r.from, r.to} \subseteq steps
          /\ instance' = [instance EXCEPT ![i] = Flushed(i, r)]
          /\ history' = [history EXCEPT ![i] =
                Append(@, Entry(r.from, r.to, r.action, instance[i].entity))]
          /\ overlapped' = IF r.seen # Len(history[i]) THEN overlapped \cup {i} ELSE overlapped
    /\ session' = [session EXCEPT ![c] = Idle]
    /\ UNCHANGED <<definitions, leave>>

-----------------------------------------------------------------------------
(* Broken variant: the workflow is not looked at.                          *)
OpenEditAlways(c, l) ==
    /\ session[c] = Idle
    /\ leave[l].made /\ leave[l].content < MaxEdits
    /\ session' = [session EXCEPT ![c] = [op |-> "edit", entity |-> l]]
    /\ UNCHANGED <<definitions, instance, history, leave, overlapped>>

(* LeaveRequestService.update: refused while the request's own instance is *)
(* active.                                                                 *)
OpenEdit(c, l) ==
    /\ session[c] = Idle
    /\ leave[l].made /\ leave[l].content < MaxEdits
    /\ leave[l].instance # None => instance[leave[l].instance].status # "active"
    /\ session' = [session EXCEPT ![c] = [op |-> "edit", entity |-> l]]
    /\ UNCHANGED <<definitions, instance, history, leave, overlapped>>

CommitEdit(c) ==
    /\ session[c].op = "edit"
    /\ leave[session[c].entity].content < MaxEdits
    /\ leave' = [leave EXCEPT ![session[c].entity].content = @ + 1]
    /\ session' = [session EXCEPT ![c] = Idle]
    /\ UNCHANGED <<definitions, instance, history, overlapped>>

(* The request fails, or its process dies: everything is rolled back.      *)
Abandon(c) ==
    /\ session[c] # Idle
    /\ session' = [session EXCEPT ![c] = Idle]
    /\ UNCHANGED <<definitions, instance, history, leave, overlapped>>

-----------------------------------------------------------------------------
(* The administrator changes definitions; deleting a step deletes, by      *)
(* cascade, its transitions and the instances that are at it, and clears   *)
(* the references of other rows to what is gone.                           *)
Administer(x) ==
    /\ x \in Changeable
    /\ admin < MaxAdmin
    /\ admin' = admin + 1
    /\ UNCHANGED <<session, overlapped>>

SetStatus(w) ==
    /\ Administer(w)
    /\ template[w] # "deleted"
    /\ template' = [template EXCEPT ![w] = IF @ = "active" THEN "inactive" ELSE "active"]
    /\ UNCHANGED <<steps, edges, instance, history, leave>>

DeleteTransition(e) ==
    /\ e \in edges
    /\ Administer(e)
    /\ edges' = edges \ {e}
    /\ UNCHANGED <<template, steps, instance, history, leave>>

CreateTransition(e) ==
    /\ e \notin edges /\ e.from \in steps /\ e.to \in steps
    /\ Administer(e)
    /\ edges' = edges \cup {e}
    /\ UNCHANGED <<template, steps, instance, history, leave>>

Purge(gone) ==
    LET dead == {i \in Ids : instance[i].step \in gone}
        Ref(s) == IF s \in gone THEN None ELSE s
    IN /\ steps' = steps \ gone
       /\ edges' = {e \in edges : e.from \notin gone /\ e.to \notin gone}
       /\ instance' = [i \in Ids |-> IF i \in dead THEN [Absent EXCEPT !.wf = "deleted"]
                                     ELSE instance[i]]
       /\ history' = [i \in Ids |-> IF i \in dead THEN <<>> ELSE
             [k \in DOMAIN history[i] |->
                [history[i][k] EXCEPT !.from = Ref(@), !.to = Ref(@)]]]
       /\ leave' = [l \in Leaves |-> IF leave[l].instance \in dead
                                     THEN [leave[l] EXCEPT !.instance = None] ELSE leave[l]]

DeleteStep(s) ==
    /\ s \in steps
    /\ Administer(s)
    /\ Purge({s})
    /\ UNCHANGED template

DeleteWorkflow(w) ==
    /\ template[w] # "deleted"
    /\ Administer(w)
    /\ Purge({s \in steps : Graph[s].wf = w})
    /\ template' = [template EXCEPT ![w] = "deleted"]

-----------------------------------------------------------------------------
Next ==
    \/ \E c \in Sessions :
          \/ \E w \in Workflows, l \in Leaves : OpenStart(c, w, l)
          \/ \E l \in Leaves : OpenLeave(c, l)
          \/ \E l \in Leaves : OpenEdit(c, l)
          \/ \E i \in Ids, u \in Users :
                \/ Approve(c, i, u)
                \/ Submit(c, i, u)
                \/ Reject(c, i, u)
                \/ Cancel(c, i, u)
                \/ Return(c, i, u)
          \/ CommitStart(c)
          \/ CommitLeave(c)
          \/ CommitAct(c)
          \/ CommitEdit(c)
          \/ Abandon(c)
    \/ \E w \in Workflows : SetStatus(w) \/ DeleteWorkflow(w)
    \/ \E e \in AllEdges : DeleteTransition(e) \/ CreateTransition(e)
    \/ \E s \in Steps : DeleteStep(s)

Spec == Init /\ [][Next]_vars

-----------------------------------------------------------------------------
(* Types of the tables; whatever is deleted, no row refers to a step or an *)
(* instance that is gone, and a request refers to an instance of its own.  *)
TypeOK ==
    /\ template \in [Workflows -> {"active", "inactive", "deleted"}]
    /\ steps \subseteq Steps /\ edges \subseteq AllEdges
    /\ \A s \in steps : template[Graph[s].wf] # "deleted"
    /\ \A e \in edges : e.from \in steps /\ e.to \in steps
    /\ \A i \in Ids :
          /\ instance[i].status \in Statuses
          /\ instance[i].status # "none" => instance[i].step \in steps
          /\ (instance[i].status = "none") = (history[i] = <<>>)
          /\ \A k \in DOMAIN history[i] :
                {history[i][k].from, history[i][k].to} \subseteq steps \cup {None}
    /\ \A l \in Leaves : LET j == leave[l].instance IN
          j # None => instance[j].status # "none" /\ instance[j].entity = l
    /\ admin \in 0..MaxAdmin /\ overlapped \subseteq Ids

(* An instance that is active is at a step of its own workflow, whatever   *)
(* other sessions did to it between a session's read and its write, and    *)
(* although a rejection may name a step of another workflow; so is one     *)
(* that is completed, unless sessions acted on it at the same time.        *)
LiveStepIsOwn ==
    \A i \in Ids :
        (\/ instance[i].status = "active"
         \/ instance[i].status = "completed" /\ i \notin overlapped)
            => Graph[instance[i].step].wf = instance[i].wf

Ends(e) == IF e.action \in {"reject", "cancel"} THEN "cancelled"
           ELSE IF e.action = "approve" /\ e.to # None /\ Graph[e.to].final THEN "completed"
           ELSE "active"

(* Unless sessions acted on an instance at the same time, its history is a *)
(* path of the steps it was at, ends where the instance is, and its last   *)
(* entry alone says whether it is active, completed or cancelled.          *)
OnlyOverlapsDiverge ==
    \A i \in Ids \ overlapped : instance[i].status # "none" =>
        LET h == history[i] IN
        /\ \A k \in 2..Len(h) : h[k].from = h[k - 1].to /\ Ends(h[k - 1]) = "active"
        /\ Last(h).to = instance[i].step
        /\ Ends(Last(h)) = instance[i].status

(* Every decision on a leave request was taken on the request as it was    *)
(* submitted: its owner cannot edit it between submission and decision.    *)
ReviewedAsSubmitted ==
    \A l \in Leaves : LET i == leave[l].instance IN
        i # None /\ i \notin overlapped =>
            \A k \in DOMAIN history[i] : history[i][k].content = history[i][1].content
=============================================================================
