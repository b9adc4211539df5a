-------------------------- MODULE Approvals_proofs --------------------------
(***************************************************************************)
(* Proofs about Approvals for every workflow graph, every set of sessions, *)
(* users and leave requests, and any number of changes to definitions.     *)
(***************************************************************************)
EXTENDS Approvals, SequenceTheorems, TLAPS

-----------------------------------------------------------------------------
Actions == {"submit", "approve", "reject", "cancel", "return"}

InstanceRow == [wf : Workflows \cup {None, "deleted"}, step : Steps \cup {None},
                entity : Leaves \cup {None}, status : Statuses]
HistoryRow  == [from : Steps \cup {None}, to : Steps \cup {None}, action : Actions, content : Nat]
LeaveRow    == [made : BOOLEAN, content : Nat, instance : Ids \cup {None}]

StartRequest == [op : {"start", "leave"}, wf : Workflows \cup {None}, entity : Leaves,
                 step : Steps \cup {None}]
ActRequest   == [op : {"act"}, id : Ids, action : Actions, from : Steps, to : Steps,
                 status : {"active", "completed", "cancelled"}, seen : Nat]
EditRequest  == [op : {"edit"}, entity : Leaves]
Request == {Idle} \cup StartRequest \cup ActRequest \cup EditRequest

Types ==
    /\ steps \subseteq Steps /\ edges \subseteq AllEdges
    /\ instance \in [Ids -> InstanceRow]
    /\ history \in [Ids -> Seq(HistoryRow)]
    /\ leave \in [Leaves -> LeaveRow]
    /\ session \in [Sessions -> Request]

(* The inductive invariant.                                                *)

OwnStep(i) == Graph[instance[i].step].wf = instance[i].wf

(* A row that exists is at a step, belongs to a request and has a history. *)
InstanceOK(i) ==
    /\ instance[i].status # "none" =>
          instance[i].step \in Steps /\ instance[i].entity \in Leaves /\ Len(history[i]) > 0
    /\ instance[i].status = "active" => OwnStep(i)
    /\ instance[i].status = "completed" /\ i \notin overlapped => OwnStep(i)

(* What a session that acts knows: the target of anything but a rejection  *)
(* or a cancellation is a step of the workflow, and if nobody has acted on *)
(* the instance since it was read, the instance is as it was read.         *)
ActOK(r) ==
    LET i == r.id IN
    /\ instance[i] # Absent
    /\ instance[i].status # "none" =>
          /\ r.seen <= Len(history[i])
          /\ r.status # "cancelled" => Graph[r.to].wf = instance[i].wf
          /\ r.seen = Len(history[i]) =>
                instance[i].status = "active" /\ instance[i].step = r.from

(* A request that may be edited is not under an active review of its own,  *)
(* and never will be again.                                                *)
Editable(l) ==
    /\ leave[l].made
    /\ leave[l].instance # None => instance[leave[l].instance].status # "active"

StartOK(r) ==
    /\ (r.op = "start" \/ r.wf # None) => r.step \in Steps /\ Graph[r.step].wf = r.wf
    /\ r.op = "leave" => ~leave[r.entity].made

RequestOK(r) ==
    /\ r.op \in {"start", "leave"} => StartOK(r)
    /\ r.op = "act" => ActOK(r)
    /\ r.op = "edit" => Editable(r.entity)

(* The history of an active review tells of the request as it is now.      *)
LeaveOK(l) ==
    LET i == leave[l].instance IN
    i # None =>
        /\ instance[i].status # "none" /\ instance[i].entity = l
        /\ instance[i].status = "active" =>
              \A k \in DOMAIN history[i] : history[i][k].content = leave[l].content
        /\ i \notin overlapped =>
              \A k \in DOMAIN history[i] : history[i][k].content = history[i][1].content

OneCreator ==
    \A c, d \in Sessions :
        c # d /\ session[c].op = "leave" /\ session[d].op = "leave" =>
            session[c].entity # session[d].entity

AInv ==
    /\ Types
    /\ \A i \in Ids : InstanceOK(i)
    /\ \A c \in Sessions : RequestOK(session[c])
    /\ \A l \in Leaves : LeaveOK(l)
    /\ OneCreator

-----------------------------------------------------------------------------
LEMMA InitEstablishes == Init => AInv
<1> SUFFICES ASSUME Init PROVE AInv
  OBVIOUS
<1>1. Types
  BY GraphAssumption DEF Init, Types, InstanceRow, Absent, LeaveRow, NoLeave, Request, Statuses
<1>2. \A i \in Ids : InstanceOK(i)
  BY DEF Init, InstanceOK, Absent
<1>3. \A c \in Sessions : RequestOK(session[c])
  BY DEF Init, RequestOK, Idle
<1>4. \A l \in Leaves : LeaveOK(l)
  BY DEF Init, LeaveOK, NoLeave
<1>5. OneCreator
  BY DEF Init, OneCreator, Idle
<1> QED
  BY <1>1, <1>2, <1>3, <1>4, <1>5 DEF AInv

(* A session begins a request, or ends one without having written.         *)
LEMMA SessionPreserves ==
  ASSUME AInv, NEW c \in Sessions, NEW r \in Request, session' = [session EXCEPT ![c] = r],
         UNCHANGED <<definitions, instance, history, leave, overlapped>>, RequestOK(r),
         r.op = "leave" => \A d \in Sessions : session[d].op = "leave" => session[d].entity # r.entity
  PROVE  AInv'
<1>1. /\ steps' = steps /\ edges' = edges /\ instance' = instance /\ history' = history
      /\ leave' = leave /\ overlapped' = overlapped
  BY DEF definitions
<1>2. session'[c] = r /\ \A d \in Sessions : d # c => session'[d] = session[d]
  BY DEF AInv, Types
<1>3. Types'
  BY <1>1 DEF AInv, Types
<1>4. ASSUME NEW i \in Ids PROVE InstanceOK(i)'
  BY <1>1 DEF AInv, InstanceOK, OwnStep
<1>5. ASSUME NEW d \in Sessions PROVE RequestOK(session[d])'
  <2>1. RequestOK(session'[d])
    BY <1>2 DEF AInv
  <2> QED
    BY <1>1, <2>1 DEF RequestOK, StartOK, ActOK, Editable
<1>6. ASSUME NEW l \in Leaves PROVE LeaveOK(l)'
  BY <1>1 DEF AInv, LeaveOK
<1>7. OneCreator'
  BY <1>2 DEF AInv, OneCreator
<1> QED
  BY <1>3, <1>4, <1>5, <1>6, <1>7 DEF AInv

LEMMA IdleOK == Idle \in Request /\ RequestOK(Idle) /\ Idle.op # "leave"
  BY DEF Request, RequestOK, Idle

-----------------------------------------------------------------------------
(* The steps in which a session reads and decides.                         *)

LEMMA OpenStartPreserves ==
  ASSUME AInv, NEW c \in Sessions, NEW w \in Workflows, NEW l \in Leaves, OpenStart(c, w, l)
  PROVE  AInv'
<1>1. PICK s \in Initial(w) :
         session' = [session EXCEPT ![c] = [op |-> "start", wf |-> w, entity |-> l, step |-> s]]
  BY DEF OpenStart
<1> DEFINE r == [op |-> "start", wf |-> w, entity |-> l, step |-> s]
<1>2. s \in Steps /\ Graph[s].wf = w
  BY DEF Initial, AInv, Types
<1>3. r \in Request /\ RequestOK(r)
  <2>1. r \in StartRequest
    BY <1>2 DEF StartRequest
  <2>2. StartOK(r)
    BY <1>2 DEF StartOK
  <2> QED
    BY <2>1, <2>2 DEF Request, RequestOK
<1>4. UNCHANGED <<definitions, instance, history, leave, overlapped>>
  BY DEF OpenStart
<1> QED
  BY <1>1, <1>3, <1>4, SessionPreserves

LEMMA OpenLeavePreserves ==
  ASSUME AInv, NEW c \in Sessions, NEW l \in Leaves, OpenLeave(c, l)
  PROVE  AInv'
<1>1. PICK w \in Workflows \cup {None}, s \in Steps \cup {None} :
         /\ session' = [session EXCEPT ![c] = [op |-> "leave", wf |-> w, entity |-> l, step |-> s]]
         /\ w # None => s \in Steps /\ Graph[s].wf = w
  <2>1. CASE \E s \in Initial(LeaveWorkflow) :
               session' = [session EXCEPT ![c] = [op |-> "leave", wf |-> LeaveWorkflow,
                                                  entity |-> l, step |-> s]]
    BY <2>1, GraphAssumption DEF Initial, AInv, Types
  <2>2. CASE session' = [session EXCEPT ![c] = [op |-> "leave", wf |-> None,
                                                entity |-> l, step |-> None]]
    BY <2>2
  <2> QED
    BY <2>1, <2>2 DEF OpenLeave
<1> DEFINE r == [op |-> "leave", wf |-> w, entity |-> l, step |-> s]
<1>2. r \in Request
  BY DEF Request, StartRequest
<1>3. RequestOK(r)
  <2>1. ~leave[l].made
    BY DEF OpenLeave
  <2> QED
    BY <1>1, <2>1 DEF RequestOK, StartOK
<1>4. \A d \in Sessions : session[d].op = "leave" => session[d].entity # r.entity
  BY DEF OpenLeave, Creating
<1>5. UNCHANGED <<definitions, instance, history, leave, overlapped>>
  BY DEF OpenLeave
<1> QED
  BY <1>1, <1>2, <1>3, <1>4, <1>5, SessionPreserves

LEMMA OpenEditPreserves ==
  ASSUME AInv, NEW c \in Sessions, NEW l \in Leaves, OpenEdit(c, l)
  PROVE  AInv'
<1> DEFINE r == [op |-> "edit", entity |-> l]
<1>1. r \in Request
  BY DEF Request, EditRequest
<1>2. RequestOK(r)
  BY DEF OpenEdit, RequestOK, Editable
<1>3. /\ session' = [session EXCEPT ![c] = r]
      /\ UNCHANGED <<definitions, instance, history, leave, overlapped>>
  BY DEF OpenEdit
<1> QED
  BY <1>1, <1>2, <1>3, SessionPreserves

LEMMA AbandonPreserves ==
  ASSUME AInv, NEW c \in Sessions, Abandon(c)
  PROVE  AInv'
  BY IdleOK, SessionPreserves DEF Abandon

(* A decision on an active instance, to a step of its workflow unless it   *)
(* ends it as cancelled.                                                   *)
LEMMA DecidePreserves ==
  ASSUME AInv, NEW c \in Sessions, NEW i \in Ids, NEW action \in Actions, NEW to \in Steps,
         NEW status \in {"active", "completed", "cancelled"},
         instance[i].status = "active", Decide(c, i, action, to, status),
         status # "cancelled" => Graph[to].wf = instance[i].wf
  PROVE  AInv'
<1> DEFINE r == [op |-> "act", id |-> i, action |-> action, from |-> instance[i].step,
                 to |-> to, status |-> status, seen |-> Len(history[i])]
<1>1. instance[i].step \in Steps
  BY DEF AInv, InstanceOK
<1>2. Len(history[i]) \in Nat
  BY LenProperties DEF AInv, Types
<1>3. r \in Request
  BY <1>1, <1>2 DEF Request, ActRequest
<1>4. ActOK(r)
  BY <1>2 DEF ActOK, Absent
<1>5. RequestOK(r)
  BY <1>4 DEF RequestOK
<1>6. /\ session' = [session EXCEPT ![c] = r]
      /\ UNCHANGED <<definitions, instance, history, leave, overlapped>>
  BY DEF Decide
<1> QED
  BY <1>3, <1>5, <1>6, SessionPreserves

LEMMA EdgesStayInside ==
  ASSUME AInv, NEW i \in Ids, instance[i].status = "active", NEW e \in OutOf(i)
  PROVE  e.to \in Steps /\ Graph[e.to].wf = instance[i].wf
<1>1. e \in AllEdges /\ e.from = instance[i].step
  BY DEF OutOf, AInv, Types
<1>2. OwnStep(i)
  BY DEF AInv, InstanceOK
<1> QED
  BY <1>1, <1>2, GraphAssumption DEF OwnStep

LEMMA ActPreserves ==
  ASSUME AInv, NEW c \in Sessions, NEW i \in Ids, NEW u \in Users,
         Approve(c, i, u) \/ Submit(c, i, u) \/ Reject(c, i, u) \/ Cancel(c, i, u) \/ Return(c, i, u)
  PROVE  AInv'
<1>1. instance[i].status = "active" /\ instance[i].step \in Steps
  BY DEF Approve, Submit, Reject, Cancel, Return, MayPerform, AInv, InstanceOK
<1>2. CASE Approve(c, i, u)
  <2>1. PICK e \in OutOf(i) :
           Decide(c, i, "approve", e.to, IF Graph[e.to].final THEN "completed" ELSE "active")
    BY <1>2 DEF Approve
  <2>2. e.to \in Steps /\ Graph[e.to].wf = instance[i].wf
    BY <1>1, EdgesStayInside
  <2>3. CASE Graph[e.to].final
    BY <1>1, <2>1, <2>2, <2>3, DecidePreserves DEF Actions
  <2>4. CASE ~Graph[e.to].final
    BY <1>1, <2>1, <2>2, <2>4, DecidePreserves DEF Actions
  <2> QED
    BY <2>3, <2>4
<1>3. CASE Submit(c, i, u)
  <2>1. PICK e \in OutOf(i) : Decide(c, i, "submit", e.to, "active")
    BY <1>3 DEF Submit
  <2>2. e.to \in Steps /\ Graph[e.to].wf = instance[i].wf
    BY <1>1, EdgesStayInside
  <2> QED
    BY <1>1, <2>1, <2>2, DecidePreserves DEF Actions
<1>4. CASE Reject(c, i, u)
  <2>1. PICK t \in steps \cup {instance[i].step} : Decide(c, i, "reject", t, "cancelled")
    BY <1>4 DEF Reject
  <2>2. t \in Steps
    BY <1>1 DEF AInv, Types
  <2> QED
    BY <1>1, <2>1, <2>2, DecidePreserves DEF Actions
<1>5. CASE Cancel(c, i, u)
  <2>1. PICK t \in OwnSteps(i) \cup {instance[i].step} : Decide(c, i, "cancel", t, "cancelled")
    BY <1>5 DEF Cancel
  <2>2. t \in Steps
    BY <1>1 DEF AInv, Types, OwnSteps
  <2> QED
    BY <1>1, <2>1, <2>2, DecidePreserves DEF Actions
<1>6. CASE Return(c, i, u)
  <2>1. PICK t \in OwnSteps(i) : Decide(c, i, "return", t, "active")
    BY <1>6 DEF Return
  <2>2. t \in Steps /\ Graph[t].wf = instance[i].wf
    BY DEF AInv, Types, OwnSteps
  <2> QED
    BY <1>1, <2>1, <2>2, DecidePreserves DEF Actions
<1> QED
  BY <1>2, <1>3, <1>4, <1>5, <1>6

-----------------------------------------------------------------------------
(* The commits.                                                            *)

LEMMA EndsIdle ==
  ASSUME AInv, NEW c \in Sessions, session' = [session EXCEPT ![c] = Idle]
  PROVE  /\ session' \in [Sessions -> Request]
         /\ session'[c] = Idle /\ \A d \in Sessions : d # c => session'[d] = session[d]
         /\ OneCreator'
<1>1. /\ session' \in [Sessions -> Request]
      /\ session'[c] = Idle /\ \A d \in Sessions : d # c => session'[d] = session[d]
  BY IdleOK DEF AInv, Types
<1>2. OneCreator'
  BY <1>1, IdleOK DEF AInv, OneCreator
<1> QED
  BY <1>1, <1>2

LEMMA EntryType ==
  ASSUME Types, NEW from \in Steps \cup {None}, NEW to \in Steps \cup {None},
         NEW action \in Actions, NEW l \in Leaves
  PROVE  /\ Entry(from, to, action, l) \in HistoryRow
         /\ Entry(from, to, action, l).content = leave[l].content
  BY DEF Types, LeaveRow, Entry, HistoryRow

LEMMA StartedRows ==
  ASSUME AInv, NEW i \in Ids, NEW r \in StartRequest, Started(i, r),
         r.step \in Steps, Graph[r.step].wf = r.wf
  PROVE  /\ instance' \in [Ids -> InstanceRow] /\ history' \in [Ids -> Seq(HistoryRow)]
         /\ instance[i] = Absent
         /\ \A j \in Ids \ {i} : instance'[j] = instance[j] /\ history'[j] = history[j]
         /\ instance'[i] = [wf |-> r.wf, step |-> r.step, entity |-> r.entity, status |-> "active"]
         /\ Len(history'[i]) = 1 /\ DOMAIN history'[i] = {1}
         /\ history'[i][1].content = leave[r.entity].content
<1> DEFINE row == [wf |-> r.wf, step |-> r.step, entity |-> r.entity, status |-> "active"]
           e == Entry(None, r.step, "submit", r.entity)
<1>1. row \in InstanceRow
  BY DEF StartRequest, InstanceRow, Statuses
<1>2. e \in HistoryRow /\ e.content = leave[r.entity].content
  <2>1. r.entity \in Leaves
    BY DEF StartRequest
  <2>2. Types /\ "submit" \in Actions /\ None \in Steps \cup {None} /\ r.step \in Steps \cup {None}
    BY DEF AInv, Actions
  <2> HIDE DEF e
  <2>3. Entry(None, r.step, "submit", r.entity) \in HistoryRow
    BY <2>1, <2>2, EntryType
  <2>4. Entry(None, r.step, "submit", r.entity).content = leave[r.entity].content
    BY <2>1, <2>2, EntryType
  <2> QED
    BY <2>3, <2>4 DEF e
<1>3. instance' = [instance EXCEPT ![i] = row] /\ history' = [history EXCEPT ![i] = <<e>>]
  BY DEF Started
<1>4. <<e>> \in Seq(HistoryRow) /\ Len(<<e>>) = 1 /\ DOMAIN <<e>> = {1} /\ <<e>>[1] = e
  BY <1>2
<1>5. instance' \in [Ids -> InstanceRow] /\ history' \in [Ids -> Seq(HistoryRow)]
  BY <1>1, <1>3, <1>4 DEF AInv, Types
<1>6. /\ instance'[i] = row /\ history'[i] = <<e>>
      /\ \A j \in Ids \ {i} : instance'[j] = instance[j] /\ history'[j] = history[j]
  BY <1>3 DEF AInv, Types
<1> QED
  BY <1>2, <1>4, <1>5, <1>6 DEF Started

(* A new instance disturbs neither the other ones nor what sessions know.  *)
LEMMA StartedKeeps ==
  ASSUME AInv, NEW i \in Ids, NEW r \in StartRequest, Started(i, r),
         r.step \in Steps, Graph[r.step].wf = r.wf, overlapped' = overlapped
  PROVE  /\ \A j \in Ids : InstanceOK(j)'
         /\ \A a : a.op = "act" /\ a.id \in Ids /\ ActOK(a) => ActOK(a)'
         /\ \A l \in Leaves : leave[l].instance # None =>
               /\ leave[l].instance # i
               /\ instance'[leave[l].instance] = instance[leave[l].instance]
               /\ history'[leave[l].instance] = history[leave[l].instance]
<1>0. /\ instance[i] = Absent
      /\ \A j \in Ids \ {i} : instance'[j] = instance[j] /\ history'[j] = history[j]
      /\ instance'[i] = [wf |-> r.wf, step |-> r.step, entity |-> r.entity, status |-> "active"]
      /\ Len(history'[i]) = 1
  BY StartedRows
<1>1. ASSUME NEW j \in Ids PROVE InstanceOK(j)'
  <2>1. CASE j = i
    <3>1. r.entity \in Leaves
      BY DEF StartRequest
    <3>2. /\ instance'[i].status = "active" /\ instance'[i].step = r.step
          /\ instance'[i].entity = r.entity /\ instance'[i].wf = r.wf
      BY <1>0
    <3> QED
      BY <1>0, <2>1, <3>1, <3>2 DEF InstanceOK, OwnStep
  <2>2. CASE j # i
    <3>1. InstanceOK(j) /\ instance'[j] = instance[j] /\ history'[j] = history[j]
      BY <1>0, <2>2 DEF AInv
    <3> QED
      BY <3>1 DEF InstanceOK, OwnStep
  <2> QED
    BY <2>1, <2>2
<1>2. ASSUME NEW a, a.id \in Ids, ActOK(a) PROVE ActOK(a)'
  <2>1. a.id # i
    BY <1>2, <1>0 DEF ActOK
  <2>2. instance'[a.id] = instance[a.id] /\ history'[a.id] = history[a.id]
    BY <1>0, <1>2, <2>1
  <2> QED
    BY <1>2, <2>2 DEF ActOK, Absent
<1>3. ASSUME NEW l \in Leaves, leave[l].instance # None
      PROVE  leave[l].instance \in Ids \ {i}
  <2>1. instance[leave[l].instance].status # "none"
    BY <1>3 DEF AInv, LeaveOK
  <2>2. leave[l].instance \in Ids
    BY <1>3 DEF AInv, Types, LeaveRow
  <2> QED
    BY <1>0, <2>1, <2>2 DEF Absent
<1> QED
  BY <1>0, <1>1, <1>2, <1>3

LEMMA CommitStartPreserves ==
  ASSUME AInv, NEW c \in Sessions, CommitStart(c)
  PROVE  AInv'
<1> DEFINE r == session[c]
<1>1. r \in StartRequest /\ r.op = "start" /\ StartOK(r)
  <2>1. r \in Request /\ r.op = "start" /\ RequestOK(r)
    BY DEF CommitStart, AInv, Types
  <2> QED
    BY <2>1 DEF Request, Idle, ActRequest, EditRequest, RequestOK
<1>2. r.step \in Steps /\ Graph[r.step].wf = r.wf
  BY <1>1 DEF StartOK
<1>3. PICK i \in Ids : Started(i, r)
  BY DEF CommitStart
<1>4. /\ session' = [session EXCEPT ![c] = Idle]
      /\ leave' = leave /\ overlapped' = overlapped /\ steps' = steps /\ edges' = edges
  BY DEF CommitStart, definitions
<1>5. Types'
  BY <1>1, <1>2, <1>3, <1>4, StartedRows, EndsIdle DEF AInv, Types
<1>6. \A j \in Ids : InstanceOK(j)'
  BY <1>1, <1>2, <1>3, <1>4, StartedKeeps
<1>7. ASSUME NEW d \in Sessions PROVE RequestOK(session[d])'
  <2>1. CASE d = c
    BY <1>4, <2>1, EndsIdle DEF RequestOK, Idle
  <2>2. CASE d # c
    <3>1. session'[d] = session[d] /\ RequestOK(session[d]) /\ session[d] \in Request
      BY <1>4, <2>2, EndsIdle DEF AInv, Types
    <3>2. session[d].op = "act" => ActOK(session[d])'
      <4>1. session[d].op = "act" => session[d].id \in Ids
        BY <3>1 DEF Request, Idle, StartRequest, ActRequest, EditRequest
      <4> QED
        BY <1>1, <1>2, <1>3, <1>4, <3>1, <4>1, StartedKeeps DEF RequestOK, ActOK
    <3>3. session[d].op = "edit" => Editable(session[d].entity)'
      <4>1. session[d].op = "edit" => session[d].entity \in Leaves
        BY <3>1 DEF Request, Idle, StartRequest, ActRequest, EditRequest
      <4> QED
        BY <1>1, <1>2, <1>3, <1>4, <3>1, <4>1, StartedKeeps DEF RequestOK, Editable
    <3>4. session[d].op \in {"start", "leave"} => StartOK(session[d])'
      BY <1>4, <3>1 DEF RequestOK, StartOK
    <3> QED
      BY <3>1, <3>2, <3>3, <3>4 DEF RequestOK
  <2> QED
    BY <2>1, <2>2
<1>8. ASSUME NEW l \in Leaves PROVE LeaveOK(l)'
  <2>1. LeaveOK(l)
    BY DEF AInv
  <2> QED
    BY <1>1, <1>2, <1>3, <1>4, <2>1, StartedKeeps DEF LeaveOK
<1> QED
  BY <1>4, <1>5, <1>6, <1>7, <1>8, EndsIdle DEF AInv

(* What a session knows survives when the records it is about do.          *)
LEMMA RequestKept ==
  ASSUME AInv, NEW d \in Sessions, session'[d] = session[d],
         session[d].op = "act" => ActOK(session[d])',
         session[d].op = "leave" => ~leave'[session[d].entity].made,
         session[d].op = "edit" => Editable(session[d].entity)'
  PROVE  RequestOK(session[d])'
<1>1. RequestOK(session[d])
  BY DEF AInv
<1>2. session[d].op \in {"start", "leave"} => StartOK(session[d])'
  BY <1>1 DEF RequestOK, StartOK
<1> QED
  BY <1>2 DEF RequestOK

LEMMA RequestTypes ==
  ASSUME AInv, NEW d \in Sessions
  PROVE  /\ session[d].op \in {"leave", "edit"} => session[d].entity \in Leaves
         /\ session[d].op = "act" => session[d] \in ActRequest /\ session[d].id \in Ids
         /\ session[d].op \in {"start", "leave"} => session[d] \in StartRequest
<1>1. session[d] \in Request
  BY DEF AInv, Types
<1> QED
  BY <1>1 DEF Request, Idle, StartRequest, ActRequest, EditRequest

LEMMA CommitLeavePreserves ==
  ASSUME AInv, NEW c \in Sessions, CommitLeave(c)
  PROVE  AInv'
<1> DEFINE r == session[c]
           l == r.entity
<1>1. r \in StartRequest /\ r.op = "leave" /\ StartOK(r) /\ l \in Leaves
  BY RequestTypes DEF CommitLeave, AInv, RequestOK
<1>2. ~leave[l].made /\ leave[l] \in LeaveRow
  BY <1>1 DEF StartOK, AInv, Types
<1>3. /\ session' = [session EXCEPT ![c] = Idle]
      /\ overlapped' = overlapped /\ steps' = steps /\ edges' = edges
  BY DEF CommitLeave, definitions
<1> DEFINE Alone  == instance' = instance /\ history' = history
           Review(i) == Started(i, r) /\ r.step \in Steps /\ Graph[r.step].wf = r.wf
           Made(w) == /\ leave' = [leave EXCEPT ![l] = w]
                      /\ w.made /\ w.content = leave[l].content
                      /\ \/ Alone /\ w.instance = leave[l].instance
                         \/ \E i \in Ids : Review(i) /\ w.instance = i
<1>4. PICK row \in LeaveRow : Made(row)
  <2>1. CASE r.wf = None /\ leave' = [leave EXCEPT ![l].made = TRUE] /\ UNCHANGED <<instance, history>>
    <3> DEFINE w == [leave[l] EXCEPT !.made = TRUE]
    <3>1. w \in LeaveRow
      BY <1>2 DEF LeaveRow
    <3>2. Made(w)
      BY <1>2, <2>1 DEF LeaveRow
    <3> QED
      BY <3>1, <3>2
  <2>2. ASSUME r.wf # None, NEW i \in Ids, Started(i, r),
               leave' = [leave EXCEPT ![l].made = TRUE, ![l].instance = i]
        PROVE  \E w \in LeaveRow : Made(w)
    <3> DEFINE w == [leave[l] EXCEPT !.made = TRUE, !.instance = i]
    <3>1. w \in LeaveRow /\ w.made /\ w.content = leave[l].content /\ w.instance = i
      BY <1>2 DEF LeaveRow
    <3>2. leave' = [leave EXCEPT ![l] = w]
      BY <1>1, <2>2 DEF AInv, Types
    <3>3. Review(i)
      BY <1>1, <2>2 DEF StartOK
    <3>4. Made(w)
      BY <3>1, <3>2, <3>3
    <3> QED
      BY <3>1, <3>4
  <2>3. \/ r.wf = None /\ leave' = [leave EXCEPT ![l].made = TRUE] /\ UNCHANGED <<instance, history>>
        \/ \E i \in Ids : /\ r.wf # None /\ Started(i, r)
                          /\ leave' = [leave EXCEPT ![l].made = TRUE, ![l].instance = i]
    BY DEF CommitLeave
  <2> HIDE DEF Made
  <2> QED
    BY <2>1, <2>2, <2>3
<1>5. leave'[l] = row /\ \A k \in Leaves : k # l => leave'[k] = leave[k]
  BY <1>1, <1>4 DEF AInv, Types
<1>6. leave' \in [Leaves -> LeaveRow]
  BY <1>4 DEF AInv, Types
<1>7. ASSUME NEW d \in Sessions, d # c PROVE RequestOK(session[d])'
  <2>1. session'[d] = session[d] /\ RequestOK(session[d])
    BY <1>3, <1>7, EndsIdle DEF AInv
  <2>2. session[d].op = "leave" => ~leave'[session[d].entity].made
    <3>1. session[d].op = "leave" => session[d].entity # l
      BY <1>1, <1>7 DEF AInv, OneCreator
    <3> QED
      BY <1>5, <2>1, <3>1, RequestTypes DEF RequestOK, StartOK
  <2>3. session[d].op = "edit" =>
           /\ session[d].entity \in Leaves /\ Editable(session[d].entity)
           /\ leave'[session[d].entity] = leave[session[d].entity]
    BY <1>2, <1>5, <2>1, RequestTypes DEF RequestOK, Editable
  <2>4. CASE Alone
    <3>1. session[d].op = "act" => ActOK(session[d])'
      BY <2>1, <2>4 DEF RequestOK, ActOK, Absent
    <3>2. session[d].op = "edit" => Editable(session[d].entity)'
      BY <2>1, <2>3, <2>4 DEF Editable
    <3> QED
      BY <2>1, <2>2, <3>1, <3>2, RequestKept
  <2>5. ASSUME NEW i \in Ids, Review(i) PROVE RequestOK(session[d])'
    <3>1. \A a : a.op = "act" /\ a.id \in Ids /\ ActOK(a) => ActOK(a)'
      BY <1>1, <1>3, <2>5, StartedKeeps
    <3>2. session[d].op = "act" => ActOK(session[d])
      BY <2>1 DEF RequestOK
    <3>3. session[d].op = "act" => session[d].id \in Ids
      BY RequestTypes
    <3>4. session[d].op = "act" => ActOK(session[d])'
      BY <2>1, <3>1, <3>2, <3>3 DEF ActOK
    <3>5. \A k \in Leaves : leave[k].instance # None =>
             instance'[leave[k].instance] = instance[leave[k].instance]
      BY <1>1, <1>3, <2>5, StartedKeeps
    <3>6. session[d].op = "edit" => Editable(session[d].entity)'
      BY <2>1, <2>3, <3>5 DEF Editable
    <3> QED
      BY <2>1, <2>2, <3>4, <3>6, RequestKept
  <2> QED
    BY <1>4, <2>4, <2>5
<1>8. RequestOK(session[c])'
  BY <1>3, EndsIdle DEF RequestOK, Idle
<1>9. CASE Alone /\ row.instance = leave[l].instance
  <2>1. Types'
    BY <1>3, <1>6, <1>9, EndsIdle DEF AInv, Types
  <2>2. \A j \in Ids : InstanceOK(j)'
    BY <1>3, <1>9 DEF AInv, InstanceOK, OwnStep
  <2>3. ASSUME NEW k \in Leaves PROVE LeaveOK(k)'
    <3>1. leave'[k].instance = leave[k].instance /\ leave'[k].content = leave[k].content
      BY <1>4, <1>5, <1>9
    <3>2. LeaveOK(k)
      BY DEF AInv
    <3> QED
      BY <1>3, <1>9, <3>1, <3>2 DEF LeaveOK
  <2> QED
    BY <1>3, <1>7, <1>8, <2>1, <2>2, <2>3, EndsIdle DEF AInv
<1>10. ASSUME NEW i \in Ids, Review(i), row.instance = i PROVE AInv'
  <2>1. Types'
    <3>1. instance' \in [Ids -> InstanceRow] /\ history' \in [Ids -> Seq(HistoryRow)]
      BY <1>1, <1>10, StartedRows
    <3> QED
      BY <1>3, <1>6, <3>1, EndsIdle DEF AInv, Types
  <2>2. /\ \A j \in Ids : InstanceOK(j)'
        /\ \A k \in Leaves : leave[k].instance # None =>
               /\ leave[k].instance # i
               /\ instance'[leave[k].instance] = instance[leave[k].instance]
               /\ history'[leave[k].instance] = history[leave[k].instance]
    BY <1>1, <1>3, <1>10, StartedKeeps
  <2>3. ASSUME NEW k \in Leaves PROVE LeaveOK(k)'
    <3>1. CASE k = l
      <4>1. /\ instance'[i] = [wf |-> r.wf, step |-> r.step, entity |-> l, status |-> "active"]
            /\ DOMAIN history'[i] = {1} /\ history'[i][1].content = leave[l].content
        BY <1>1, <1>10, StartedRows
      <4>2. leave'[l].instance = i /\ leave'[l].content = leave[l].content
        BY <1>4, <1>5, <1>10
      <4> QED
        BY <3>1, <4>1, <4>2 DEF LeaveOK
    <3>2. CASE k # l
      <4>1. leave'[k] = leave[k] /\ LeaveOK(k)
        BY <1>5, <3>2 DEF AInv
      <4> QED
        BY <1>3, <2>2, <4>1 DEF LeaveOK
    <3> QED
      BY <3>1, <3>2
  <2> QED
    BY <1>3, <1>7, <1>8, <2>1, <2>2, <2>3, EndsIdle DEF AInv
<1> QED
  BY <1>4, <1>9, <1>10

LEMMA CommitEditPreserves ==
  ASSUME AInv, NEW c \in Sessions, CommitEdit(c)
  PROVE  AInv'
<1> DEFINE l == session[c].entity
           row == [leave[l] EXCEPT !.content = @ + 1]
<1>1. session[c].op = "edit" /\ l \in Leaves /\ Editable(l) /\ leave[l] \in LeaveRow
  BY RequestTypes DEF CommitEdit, AInv, RequestOK, Types
<1>2. row \in LeaveRow /\ row.made = leave[l].made /\ row.instance = leave[l].instance
  BY <1>1 DEF LeaveRow
<1>3. /\ session' = [session EXCEPT ![c] = Idle] /\ leave' = [leave EXCEPT ![l] = row]
      /\ overlapped' = overlapped /\ steps' = steps /\ edges' = edges
      /\ instance' = instance /\ history' = history
  BY DEF CommitEdit, definitions
<1>4. leave'[l] = row /\ \A k \in Leaves : k # l => leave'[k] = leave[k]
  BY <1>1, <1>3 DEF AInv, Types
<1>5. \A k \in Leaves : leave'[k].made = leave[k].made /\ leave'[k].instance = leave[k].instance
  BY <1>2, <1>4
<1>6. Types'
  BY <1>2, <1>3, EndsIdle DEF AInv, Types
<1>7. \A j \in Ids : InstanceOK(j)'
  BY <1>3 DEF AInv, InstanceOK, OwnStep
<1>8. ASSUME NEW d \in Sessions PROVE RequestOK(session[d])'
  <2>1. CASE d = c
    BY <1>3, <2>1, EndsIdle DEF RequestOK, Idle
  <2>2. CASE d # c
    <3>1. session'[d] = session[d] /\ RequestOK(session[d])
      BY <1>3, <2>2, EndsIdle DEF AInv
    <3>2. session[d].op = "act" => ActOK(session[d])'
      BY <1>3, <3>1 DEF RequestOK, ActOK, Absent
    <3>3. session[d].op = "leave" => ~leave'[session[d].entity].made
      BY <1>5, <3>1, RequestTypes DEF RequestOK, StartOK
    <3>4. session[d].op = "edit" => Editable(session[d].entity)'
      BY <1>3, <1>5, <3>1, RequestTypes DEF RequestOK, Editable
    <3> QED
      BY <3>1, <3>2, <3>3, <3>4, RequestKept
  <2> QED
    BY <2>1, <2>2
<1>9. ASSUME NEW k \in Leaves PROVE LeaveOK(k)'
  <2>1. LeaveOK(k)
    BY DEF AInv
  <2>2. CASE k = l
    <3> DEFINE i == leave[l].instance
    <3>1. i # None => instance'[i].status # "active"
      BY <1>1, <1>3 DEF Editable
    <3>2. i # None => /\ instance'[i].status # "none" /\ instance'[i].entity = l
                      /\ i \notin overlapped' =>
                            \A n \in DOMAIN history'[i] : history'[i][n].content = history'[i][1].content
      BY <1>3, <2>1, <2>2 DEF LeaveOK
    <3>3. leave'[l].instance = i
      BY <1>1, <1>5
    <3> QED
      BY <2>2, <3>1, <3>2, <3>3 DEF LeaveOK
  <2>3. CASE k # l
    BY <1>3, <1>4, <2>1, <2>3 DEF LeaveOK
  <2> QED
    BY <2>2, <2>3
<1> QED
  BY <1>3, <1>6, <1>7, <1>8, <1>9, EndsIdle DEF AInv

(* What the flush of a decision makes of the instance: it stays what it    *)
(* was, and only an instance nobody has acted on since keeps the promise   *)
(* of InstanceOK for completed ones.                                       *)
LEMMA FlushedRow ==
  ASSUME AInv, NEW i \in Ids, NEW r \in ActRequest, r.id = i, ActOK(r),
         instance[i].status # "none"
  PROVE  /\ Flushed(i, r) \in InstanceRow
         /\ Flushed(i, r).wf = instance[i].wf /\ Flushed(i, r).entity = instance[i].entity
         /\ Flushed(i, r).step \in Steps
         /\ Flushed(i, r).status \in {"active", "completed", "cancelled"}
         /\ Flushed(i, r).status = "active" =>
               /\ instance[i].status = "active"
               /\ Graph[Flushed(i, r).step].wf = instance[i].wf
         /\ Flushed(i, r).status = "completed" /\ r.seen = Len(history[i]) =>
               Graph[Flushed(i, r).step].wf = instance[i].wf
<1> DEFINE x == Flushed(i, r)
<1>1. instance[i] \in InstanceRow /\ instance[i].step \in Steps
  BY DEF AInv, Types, InstanceOK
<1>2. r.to \in Steps /\ r.from \in Steps /\ r.status \in {"active", "completed", "cancelled"}
  BY DEF ActRequest
<1>3. /\ x \in InstanceRow /\ x.wf = instance[i].wf /\ x.entity = instance[i].entity
      /\ x.step = IF r.to # r.from THEN r.to ELSE instance[i].step
      /\ x.status = IF r.status # "active" THEN r.status ELSE instance[i].status
  BY <1>1, <1>2 DEF Flushed, InstanceRow, Statuses
<1>4. x.status \in {"active", "completed", "cancelled"}
  BY <1>1, <1>2, <1>3 DEF InstanceRow, Statuses
<1>5. r.status # "cancelled" => Graph[r.to].wf = instance[i].wf
  BY DEF ActOK
<1>6. instance[i].status = "active" => Graph[instance[i].step].wf = instance[i].wf
  BY DEF AInv, InstanceOK, OwnStep
<1>7. x.status = "active" => /\ instance[i].status = "active"
                             /\ Graph[x.step].wf = instance[i].wf
  BY <1>2, <1>3, <1>5, <1>6
<1>8. x.status = "completed" /\ r.seen = Len(history[i]) => Graph[x.step].wf = instance[i].wf
  <2>1. r.seen = Len(history[i]) => instance[i].status = "active"
    BY DEF ActOK
  <2> QED
    BY <1>2, <1>3, <1>5, <1>6, <2>1
<1>9. x.step \in Steps
  BY <1>1, <1>2, <1>3
<1> QED
  BY <1>3, <1>4, <1>7, <1>8, <1>9

LEMMA CommitActPreserves ==
  ASSUME AInv, NEW c \in Sessions, CommitAct(c)
  PROVE  AInv'
<1> DEFINE r == session[c]
           i == r.id
           x == Flushed(i, r)
           l == instance[i].entity
           e == Entry(r.from, r.to, r.action, l)
<1>1. r \in ActRequest /\ i \in Ids /\ ActOK(r) /\ instance[i].status # "none"
  BY RequestTypes DEF CommitAct, AInv, RequestOK
<1>2. /\ session' = [session EXCEPT ![c] = Idle]
      /\ instance' = [instance EXCEPT ![i] = x]
      /\ history' = [history EXCEPT ![i] = Append(@, e)]
      /\ overlapped' = IF r.seen # Len(history[i]) THEN overlapped \cup {i} ELSE overlapped
      /\ leave' = leave /\ steps' = steps /\ edges' = edges
  BY DEF CommitAct, definitions
<1>3. /\ x \in InstanceRow /\ x.wf = instance[i].wf /\ x.entity = l /\ x.step \in Steps
      /\ x.status \in {"active", "completed", "cancelled"}
      /\ x.status = "active" => instance[i].status = "active" /\ Graph[x.step].wf = instance[i].wf
      /\ x.status = "completed" /\ r.seen = Len(history[i]) => Graph[x.step].wf = instance[i].wf
  BY <1>1, FlushedRow
<1> HIDE DEF x
<1>4. l \in Leaves /\ history[i] \in Seq(HistoryRow) /\ Len(history[i]) \in Nat
  BY <1>1, LenProperties DEF AInv, InstanceOK, Types
<1>5. e \in HistoryRow /\ e.content = leave[l].content
  <2>1. r.from \in Steps /\ r.to \in Steps /\ r.action \in Actions
    BY <1>1 DEF ActRequest
  <2>2. Types
    BY DEF AInv
  <2> QED
    BY <1>4, <2>1, <2>2, EntryType
<1> HIDE DEF e
<1>6. /\ instance'[i] = x /\ history'[i] = Append(history[i], e)
      /\ \A j \in Ids : j # i => instance'[j] = instance[j] /\ history'[j] = history[j]
  BY <1>1, <1>2 DEF AInv, Types
<1>7. /\ history'[i] \in Seq(HistoryRow) /\ Len(history'[i]) = Len(history[i]) + 1
      /\ DOMAIN history'[i] = 1 .. (Len(history[i]) + 1) /\ DOMAIN history[i] = 1 .. Len(history[i])
      /\ history'[i][Len(history[i]) + 1] = e
      /\ \A k \in 1 .. Len(history[i]) : history'[i][k] = history[i][k]
  BY <1>4, <1>5, <1>6, AppendProperties, LenProperties
<1>8. Types'
  <2>1. instance' \in [Ids -> InstanceRow]
    BY <1>2, <1>3 DEF AInv, Types
  <2>2. history' \in [Ids -> Seq(HistoryRow)]
    BY <1>2, <1>6, <1>7 DEF AInv, Types
  <2> QED
    BY <1>2, <2>1, <2>2, EndsIdle DEF AInv, Types
<1>9. ASSUME NEW j \in Ids PROVE InstanceOK(j)'
  <2>1. CASE j = i
    <3>1. x.status = "completed" /\ i \notin overlapped' => Graph[x.step].wf = x.wf
      BY <1>2, <1>3
    <3>2. x.status = "active" => Graph[x.step].wf = x.wf
      BY <1>3
    <3>3. x.step \in Steps /\ x.entity \in Leaves /\ Len(history'[i]) > 0
      BY <1>3, <1>4, <1>7
    <3> QED
      BY <1>6, <2>1, <3>1, <3>2, <3>3 DEF InstanceOK, OwnStep
  <2>2. CASE j # i
    <3>1. InstanceOK(j) /\ instance'[j] = instance[j] /\ history'[j] = history[j]
      BY <1>6, <2>2 DEF AInv
    <3>2. overlapped \subseteq overlapped'
      BY <1>2
    <3> QED
      BY <3>1, <3>2 DEF InstanceOK, OwnStep
  <2> QED
    BY <2>1, <2>2
<1>10. ASSUME NEW d \in Sessions PROVE RequestOK(session[d])'
  <2>1. CASE d = c
    BY <1>2, <2>1, EndsIdle DEF RequestOK, Idle
  <2>2. CASE d # c
    <3>1. session'[d] = session[d] /\ RequestOK(session[d])
      BY <1>2, <2>2, EndsIdle DEF AInv
    <3> DEFINE a == session[d]
    <3>2. ASSUME a.op = "act" PROVE ActOK(a)'
      <4>1. a.id \in Ids /\ a.seen \in Nat /\ ActOK(a)
        BY <3>1, <3>2, RequestTypes DEF RequestOK, ActRequest
      <4>2. CASE a.id # i
        <5>1. instance'[a.id] = instance[a.id] /\ history'[a.id] = history[a.id]
          BY <1>6, <4>1, <4>2
        <5> QED
          BY <3>1, <4>1, <5>1 DEF ActOK, Absent
      <4>3. CASE a.id = i
        <5>1. x # Absent
          BY <1>3 DEF Absent
        <5>2. a.seen <= Len(history[i]) /\ a.seen # Len(history'[i]) /\ a.seen <= Len(history'[i])
          BY <1>1, <1>4, <1>7, <4>1, <4>3 DEF ActOK
        <5>3. a.status # "cancelled" => Graph[a.to].wf = x.wf
          BY <1>1, <1>3, <4>1, <4>3 DEF ActOK
        <5> QED
          BY <1>6, <3>1, <4>3, <5>1, <5>2, <5>3 DEF ActOK, Absent
      <4> QED
        BY <4>2, <4>3
    <3>3. a.op = "leave" => ~leave'[a.entity].made
      BY <1>2, <3>1 DEF RequestOK, StartOK
    <3>4. ASSUME a.op = "edit" PROVE Editable(a.entity)'
      <4> DEFINE j == leave[a.entity].instance
      <4>1. Editable(a.entity) /\ a.entity \in Leaves
        BY <3>1, <3>4, RequestTypes DEF RequestOK
      <4>2. j # None => j \in Ids /\ instance[j].status # "active"
        BY <4>1 DEF Editable, AInv, Types, LeaveRow
      <4>3. j # None => instance'[j].status # "active"
        BY <1>3, <1>6, <4>2
      <4> QED
        BY <1>2, <3>1, <4>1, <4>3 DEF Editable
    <3> HIDE DEF a
    <3>5. session[d].op = "act" => ActOK(session[d])'
      BY <3>2 DEF a
    <3>6. session[d].op = "edit" => Editable(session[d].entity)'
      BY <3>4 DEF a
    <3> QED
      BY <3>1, <3>3, <3>5, <3>6, RequestKept DEF a
  <2> QED
    BY <2>1, <2>2
<1>11. ASSUME NEW k \in Leaves PROVE LeaveOK(k)'
  <2> DEFINE j == leave[k].instance
  <2>1. LeaveOK(k) /\ (j # None => j \in Ids)
    BY DEF AInv, Types, LeaveRow
  <2>2. CASE j # i
    <3>1. j # None => /\ instance'[j] = instance[j] /\ history'[j] = history[j]
                      /\ j \notin overlapped' => j \notin overlapped
      BY <1>2, <1>6, <2>1, <2>2
    <3> QED
      BY <1>2, <2>1, <3>1 DEF LeaveOK
  <2>3. CASE j = i
    <3>1. i # None /\ l = k
      BY <1>1, <2>1, <2>3, GraphAssumption DEF LeaveOK
    <3>2. instance[i].status = "active" =>
             \A n \in DOMAIN history[i] : history[i][n].content = leave[l].content
      BY <2>1, <2>3, <3>1 DEF LeaveOK
    <3>3. instance[i].status = "active" =>
             \A n \in DOMAIN history'[i] : history'[i][n].content = leave[l].content
      BY <1>4, <1>5, <1>7, <3>2
    <3>4. i \notin overlapped' => instance[i].status = "active"
      BY <1>1, <1>2 DEF ActOK
    <3>5. 1 \in DOMAIN history'[i]
      BY <1>4, <1>7
    <3>6. x.status = "active" =>
             \A n \in DOMAIN history'[i] : history'[i][n].content = leave[l].content
      BY <1>3, <3>3
    <3>7. i \notin overlapped' =>
             \A n \in DOMAIN history'[i] : history'[i][n].content = history'[i][1].content
      BY <3>3, <3>4, <3>5
    <3>8. x.status # "none" /\ x.entity = k
      BY <1>3, <3>1
    <3> QED
      BY <1>2, <1>6, <2>3, <3>1, <3>6, <3>7, <3>8 DEF LeaveOK
  <2> QED
    BY <2>2, <2>3
<1> QED
  BY <1>2, <1>8, <1>9, <1>10, <1>11, EndsIdle DEF AInv

-----------------------------------------------------------------------------
(* Changes to definitions.                                                 *)

LEMMA GraphChangePreserves ==
  ASSUME AInv, edges' \subseteq AllEdges,
         UNCHANGED <<steps, instance, history, leave, session, overlapped>>
  PROVE  AInv'
<1>1. /\ steps' = steps /\ instance' = instance /\ history' = history
      /\ leave' = leave /\ session' = session /\ overlapped' = overlapped
  OBVIOUS
<1>2. Types'
  BY <1>1 DEF AInv, Types
<1>3. \A i \in Ids : InstanceOK(i)'
  BY <1>1 DEF AInv, InstanceOK, OwnStep
<1>4. \A d \in Sessions : RequestOK(session[d])'
  BY <1>1 DEF AInv, RequestOK, StartOK, ActOK, Editable, Absent
<1>5. \A l \in Leaves : LeaveOK(l)'
  BY <1>1 DEF AInv, LeaveOK
<1>6. OneCreator'
  BY <1>1 DEF AInv, OneCreator
<1> QED
  BY <1>2, <1>3, <1>4, <1>5, <1>6 DEF AInv

(* The cascade deletes instances as a whole; the ones it leaves keep their *)
(* step, their status, and the length and contents of their history.       *)
LEMMA PurgeKeeps ==
  ASSUME AInv, NEW gone \in SUBSET Steps, Purge(gone)
  PROVE  /\ instance' \in [Ids -> InstanceRow] /\ history' \in [Ids -> Seq(HistoryRow)]
         /\ leave' \in [Leaves -> LeaveRow]
         /\ \A i \in Ids : instance[i].step \in gone =>
               instance'[i].status = "none" /\ instance'[i] # Absent /\ Len(history'[i]) = 0
         /\ \A i \in Ids : instance[i].step \notin gone =>
               /\ instance'[i] = instance[i] /\ Len(history'[i]) = Len(history[i])
               /\ DOMAIN history'[i] = DOMAIN history[i]
               /\ \A k \in DOMAIN history[i] : history'[i][k].content = history[i][k].content
         /\ \A l \in Leaves :
               /\ leave'[l].made = leave[l].made /\ leave'[l].content = leave[l].content
               /\ leave'[l].instance # None =>
                     /\ leave'[l].instance = leave[l].instance
                     /\ instance[leave[l].instance].step \notin gone
<1> DEFINE dead == {i \in Ids : instance[i].step \in gone}
           Ref(s) == IF s \in gone THEN None ELSE s
           Cleared(h) == [k \in DOMAIN h |-> [h[k] EXCEPT !.from = Ref(@), !.to = Ref(@)]]
           none == [Absent EXCEPT !.wf = "deleted"]
<1>1. /\ instance' = [i \in Ids |-> IF i \in dead THEN none ELSE instance[i]]
      /\ history' = [i \in Ids |-> IF i \in dead THEN <<>> ELSE Cleared(history[i])]
      /\ leave' = [l \in Leaves |-> IF leave[l].instance \in dead
                                    THEN [leave[l] EXCEPT !.instance = None] ELSE leave[l]]
  BY DEF Purge
<1>2. none \in InstanceRow /\ none # Absent /\ none.status = "none"
  BY GraphAssumption DEF Absent, InstanceRow, Statuses
<1>3. ASSUME NEW h \in Seq(HistoryRow)
      PROVE  /\ Cleared(h) \in Seq(HistoryRow)
             /\ Len(Cleared(h)) = Len(h) /\ DOMAIN Cleared(h) = DOMAIN h
             /\ \A k \in DOMAIN h : Cleared(h)[k].content = h[k].content
  <2>1. \A k \in DOMAIN h : h[k] \in HistoryRow
    BY ElementOfSeq, LenProperties
  <2>2. \A k \in DOMAIN h : [h[k] EXCEPT !.from = Ref(@), !.to = Ref(@)] \in HistoryRow
    BY <2>1 DEF HistoryRow
  <2>3. \A k \in DOMAIN h : [h[k] EXCEPT !.from = Ref(@), !.to = Ref(@)].content = h[k].content
    BY <2>1 DEF HistoryRow
  <2>4. DOMAIN h = 1 .. Len(h) /\ Len(h) \in Nat
    BY LenProperties
  <2>5. Cleared(h) \in [1 .. Len(h) -> HistoryRow]
    BY <2>2, <2>4
  <2>6. DOMAIN Cleared(h) = DOMAIN h /\ \A k \in DOMAIN h : Cleared(h)[k].content = h[k].content
    BY <2>3
  <2> HIDE DEF Cleared
  <2>7. Cleared(h) \in Seq(HistoryRow)
    BY <2>4, <2>5, SeqDef
  <2>8. Len(Cleared(h)) \in Nat /\ 1 .. Len(Cleared(h)) = 1 .. Len(h)
    BY <2>4, <2>6, <2>7, LenProperties
  <2>9. Len(Cleared(h)) = Len(h)
    BY <2>4, <2>8
  <2> QED
    BY <2>6, <2>7, <2>9
<1> HIDE DEF Cleared, none
<1>4. instance' \in [Ids -> InstanceRow]
  BY <1>1, <1>2 DEF AInv, Types
<1>5. history' \in [Ids -> Seq(HistoryRow)]
  <2>1. <<>> \in Seq(HistoryRow)
    OBVIOUS
  <2>2. \A i \in Ids : Cleared(history[i]) \in Seq(HistoryRow)
    BY <1>3 DEF AInv, Types
  <2> QED
    BY <1>1, <2>1, <2>2
<1>6. ASSUME NEW l \in Leaves
      PROVE  /\ leave'[l] \in LeaveRow
             /\ leave'[l].made = leave[l].made /\ leave'[l].content = leave[l].content
             /\ leave'[l].instance # None =>
                   /\ leave'[l].instance = leave[l].instance
                   /\ leave[l].instance \notin dead
  <2>1. leave[l] \in LeaveRow
    BY DEF AInv, Types
  <2>2. leave'[l] = IF leave[l].instance \in dead THEN [leave[l] EXCEPT !.instance = None] ELSE leave[l]
    BY <1>1
  <2> HIDE DEF dead
  <2> QED
    BY <2>1, <2>2 DEF LeaveRow
<1>7. leave' \in [Leaves -> LeaveRow]
  <2>1. leave' = [l \in Leaves |-> leave'[l]]
    BY <1>1
  <2> QED
    BY <1>6, <2>1
<1>8. \A i \in Ids : i \in dead =>
         instance'[i].status = "none" /\ instance'[i] # Absent /\ Len(history'[i]) = 0
  BY <1>1, <1>2
<1>9. \A i \in Ids : i \notin dead =>
         /\ instance'[i] = instance[i] /\ Len(history'[i]) = Len(history[i])
         /\ DOMAIN history'[i] = DOMAIN history[i]
         /\ \A k \in DOMAIN history[i] : history'[i][k].content = history[i][k].content
  BY <1>1, <1>3 DEF AInv, Types
<1>10. \A l \in Leaves : leave'[l].instance # None =>
          leave[l].instance \in Ids /\ instance[leave[l].instance].step \notin gone
  BY <1>6 DEF AInv, Types, LeaveRow
<1> QED
  BY <1>4, <1>5, <1>6, <1>7, <1>8, <1>9, <1>10

LEMMA PurgePreserves ==
  ASSUME AInv, NEW gone \in SUBSET Steps, Purge(gone), UNCHANGED <<session, overlapped>>
  PROVE  AInv'
<1>1. /\ instance' \in [Ids -> InstanceRow] /\ history' \in [Ids -> Seq(HistoryRow)]
      /\ leave' \in [Leaves -> LeaveRow]
      /\ \A i \in Ids : instance[i].step \in gone =>
            instance'[i].status = "none" /\ instance'[i] # Absent /\ Len(history'[i]) = 0
      /\ \A i \in Ids : instance[i].step \notin gone =>
            /\ instance'[i] = instance[i] /\ Len(history'[i]) = Len(history[i])
            /\ DOMAIN history'[i] = DOMAIN history[i]
            /\ \A k \in DOMAIN history[i] : history'[i][k].content = history[i][k].content
      /\ \A l \in Leaves :
            /\ leave'[l].made = leave[l].made /\ leave'[l].content = leave[l].content
            /\ leave'[l].instance # None =>
                  /\ leave'[l].instance = leave[l].instance
                  /\ instance[leave[l].instance].step \notin gone
  BY PurgeKeeps
<1>2. session' = session /\ overlapped' = overlapped
  OBVIOUS
<1>3. Types'
  <2>1. steps' \subseteq Steps /\ edges' \subseteq AllEdges
    BY DEF Purge, AInv, Types
  <2> QED
    BY <1>1, <1>2, <2>1 DEF AInv, Types
<1>4. ASSUME NEW i \in Ids PROVE InstanceOK(i)'
  <2>1. CASE instance[i].step \in gone
    BY <1>1, <2>1 DEF InstanceOK
  <2>2. CASE instance[i].step \notin gone
    <3>1. InstanceOK(i) /\ instance'[i] = instance[i] /\ Len(history'[i]) = Len(history[i])
      BY <1>1, <2>2 DEF AInv
    <3> QED
      BY <1>2, <3>1 DEF InstanceOK, OwnStep
  <2> QED
    BY <2>1, <2>2
<1>5. ASSUME NEW d \in Sessions PROVE RequestOK(session[d])'
  <2> DEFINE a == session[d]
  <2>1. session'[d] = a /\ RequestOK(a)
    BY <1>2 DEF AInv
  <2>2. ASSUME a.op = "act" PROVE ActOK(session[d])'
    <3>1. a.id \in Ids /\ a.seen \in Nat /\ ActOK(a)
      BY <2>1, <2>2, RequestTypes DEF RequestOK, ActRequest
    <3>2. CASE instance[a.id].step \notin gone
      <4>1. instance'[a.id] = instance[a.id] /\ Len(history'[a.id]) = Len(history[a.id])
        BY <1>1, <3>1, <3>2
      <4> QED
        BY <2>1, <3>1, <4>1 DEF ActOK, Absent
    <3>3. CASE instance[a.id].step \in gone
      <4>1. instance'[a.id].status = "none" /\ instance'[a.id] # Absent
        BY <1>1, <3>1, <3>3
      <4> QED
        BY <2>1, <4>1 DEF ActOK, Absent
    <3> QED
      BY <3>2, <3>3
  <2>3. a.op = "leave" => ~leave'[a.entity].made
    BY <1>1, <2>1, RequestTypes DEF RequestOK, StartOK
  <2>4. ASSUME a.op = "edit" PROVE Editable(session[d].entity)'
    <3> DEFINE l == a.entity
    <3>1. l \in Leaves /\ Editable(l)
      BY <2>1, <2>4, RequestTypes DEF RequestOK
    <3>2. leave'[l].instance # None => instance'[leave'[l].instance].status # "active"
      <4>1. leave[l].instance # None => leave[l].instance \in Ids
        BY <3>1 DEF AInv, Types, LeaveRow
      <4> QED
        BY <1>1, <3>1, <4>1 DEF Editable
    <3> QED
      BY <1>1, <2>1, <3>1, <3>2 DEF Editable
  <2> QED
    BY <2>1, <2>2, <2>3, <2>4, RequestKept
<1>6. ASSUME NEW l \in Leaves PROVE LeaveOK(l)'
  <2> DEFINE i == leave[l].instance
  <2>1. LeaveOK(l) /\ (i # None => i \in Ids /\ instance[i].status # "none")
    BY DEF AInv, Types, LeaveRow, LeaveOK
  <2>2. CASE leave'[l].instance = None
    BY <2>2 DEF LeaveOK
  <2>3. CASE leave'[l].instance # None
    <3>1. leave'[l].instance = i /\ leave'[l].content = leave[l].content /\ i # None /\ i \in Ids
      BY <1>1, <2>1, <2>3
    <3>2. /\ instance'[i] = instance[i] /\ DOMAIN history'[i] = DOMAIN history[i]
          /\ \A k \in DOMAIN history[i] : history'[i][k].content = history[i][k].content
      BY <1>1, <2>3, <3>1
    <3>3. 1 \in DOMAIN history[i]
      <4>1. history[i] \in Seq(HistoryRow) /\ Len(history[i]) > 0
        BY <2>1, <3>1 DEF AInv, Types, InstanceOK
      <4> QED
        BY <4>1, LenProperties
    <3> QED
      BY <1>2, <2>1, <3>1, <3>2, <3>3 DEF LeaveOK
  <2> QED
    BY <2>2, <2>3
<1>7. OneCreator'
  BY <1>2 DEF AInv, OneCreator
<1> QED
  BY <1>3, <1>4, <1>5, <1>6, <1>7 DEF AInv

-----------------------------------------------------------------------------
LEMMA StepPreserves == AInv /\ [Next]_vars => AInv'
<1> SUFFICES ASSUME AInv, [Next]_vars PROVE AInv'
  OBVIOUS
<1>1. CASE UNCHANGED vars
  BY <1>1, GraphChangePreserves DEF vars, AInv, Types
<1>2. ASSUME NEW w \in Workflows, SetStatus(w) PROVE AInv'
  BY <1>2, GraphChangePreserves DEF SetStatus, Administer, AInv, Types
<1>3. ASSUME NEW e \in AllEdges, DeleteTransition(e) \/ CreateTransition(e) PROVE AInv'
  BY <1>3, GraphChangePreserves DEF DeleteTransition, CreateTransition, Administer, AInv, Types
<1>4. ASSUME NEW s \in Steps, DeleteStep(s) PROVE AInv'
  BY <1>4, PurgePreserves DEF DeleteStep, Administer
<1>5. ASSUME NEW w \in Workflows, DeleteWorkflow(w) PROVE AInv'
  <2> DEFINE gone == {s \in steps : Graph[s].wf = w}
  <2>1. gone \in SUBSET Steps
    BY DEF AInv, Types
  <2> QED
    BY <1>5, <2>1, PurgePreserves DEF DeleteWorkflow, Administer
<1> QED
  BY <1>1, <1>2, <1>3, <1>4, <1>5, OpenStartPreserves, OpenLeavePreserves, OpenEditPreserves,
     ActPreserves, CommitStartPreserves, CommitLeavePreserves, CommitActPreserves,
     CommitEditPreserves, AbandonPreserves DEF Next

(* The inductive invariant: rows, histories and open transactions agree.   *)
THEOREM Invariance == Spec => []AInv
<1>1. Init => AInv
  BY InitEstablishes
<1>2. AInv /\ [Next]_vars => AInv'
  BY StepPreserves
<1> QED
  BY <1>1, <1>2, PTL DEF Spec

(* Whatever sessions race, an instance that is active is at a step of its  *)
(* own workflow, and so is one that is completed unless they did.          *)
THEOREM LiveStepsAreOwn == Spec => []LiveStepIsOwn
<1>1. AInv => LiveStepIsOwn
  BY DEF AInv, InstanceOK, OwnStep, LiveStepIsOwn
<1> QED
  BY <1>1, Invariance, PTL

(* What was decided on a leave request was decided on what was submitted.  *)
THEOREM DecidedAsSubmitted == Spec => []ReviewedAsSubmitted
<1>1. AInv => ReviewedAsSubmitted
  BY DEF AInv, LeaveOK, ReviewedAsSubmitted
<1> QED
  BY <1>1, Invariance, PTL
-----------------------------------------------------------------------------
(* Histories.  The history of an instance follows it, and a session that   *)
(* acts writes the status its action stands for.                           *)
Follows(h, step, status) ==
    /\ \A k \in 2..Len(h) : h[k].from = h[k - 1].to /\ Ends(h[k - 1]) = "active"
    /\ h[Len(h)].to = step
    /\ Ends(h[Len(h)]) = status

Tells(i) ==
    i \notin overlapped /\ instance[i].status # "none" =>
        Follows(history[i], instance[i].step, instance[i].status)

Meant(r) == r.op = "act" => r.status = Ends([action |-> r.action, to |-> r.to])

HInv ==
    /\ AInv
    /\ \A i \in Ids : Tells(i)
    /\ \A c \in Sessions : Meant(session[c])

(* What an entry says of the end does not depend on whose entry it is.     *)
LEMMA EndsOf ==
  ASSUME NEW from, NEW to, NEW action, NEW l
  PROVE  Ends(Entry(from, to, action, l)) =
           IF action \in {"reject", "cancel"} THEN "cancelled"
           ELSE IF action = "approve" /\ to # None /\ Graph[to].final THEN "completed"
           ELSE "active"
  BY DEF Ends, Entry

-----------------------------------------------------------------------------
LEMMA MeantWhatItDecides ==
  ASSUME AInv, [Next]_vars, NEW d \in Sessions, session'[d] # session[d]
  PROVE  Meant(session[d])'
<1> DEFINE Said(r) == r.op = "act" =>
              r.status = IF r.action \in {"reject", "cancel"} THEN "cancelled"
                         ELSE IF r.action = "approve" /\ r.to # None /\ Graph[r.to].final THEN "completed"
                         ELSE "active"
<1>1. session \in [Sessions -> Request]
  BY DEF AInv, Types
<1>2. ASSUME NEW c \in Sessions, session' = [session EXCEPT ![c] = Idle] PROVE Said(session'[d])
  BY <1>1, <1>2 DEF Idle
<1>3. ASSUME NEW c \in Sessions, CommitStart(c) \/ CommitLeave(c) \/ CommitAct(c) \/ CommitEdit(c) \/ Abandon(c)
      PROVE  session' = [session EXCEPT ![c] = Idle]
  BY <1>3 DEF CommitStart, CommitLeave, CommitAct, CommitEdit, Abandon
<1>4. ASSUME NEW c \in Sessions,
             \/ \E w \in Workflows, l \in Leaves : OpenStart(c, w, l)
             \/ \E l \in Leaves : OpenLeave(c, l)
             \/ \E l \in Leaves : OpenEdit(c, l)
      PROVE  Said(session'[d])
  BY <1>1, <1>4 DEF OpenStart, OpenLeave, OpenEdit
<1>5. ASSUME NEW c \in Sessions, NEW i \in Ids, NEW u \in Users,
             Approve(c, i, u) \/ Submit(c, i, u) \/ Reject(c, i, u) \/ Cancel(c, i, u) \/ Return(c, i, u)
      PROVE  Said(session'[d])
  <2>1. instance[i].status = "active" /\ instance[i].step \in Steps /\ steps \subseteq Steps
    BY <1>5 DEF Approve, Submit, Reject, Cancel, Return, MayPerform, AInv, InstanceOK, Types
  <2>2. ASSUME NEW action, NEW to \in Steps, NEW status, Decide(c, i, action, to, status),
               status = IF action \in {"reject", "cancel"} THEN "cancelled"
                        ELSE IF action = "approve" /\ Graph[to].final THEN "completed" ELSE "active"
        PROVE  Said(session'[d])
    <3>1. session'[d] = [op |-> "act", id |-> i, action |-> action, from |-> instance[i].step,
                         to |-> to, status |-> status, seen |-> Len(history[i])]
      BY <1>1, <2>2 DEF Decide
    <3>2. to # None
      BY GraphAssumption
    <3> QED
      BY <2>2, <3>1, <3>2
  <2> HIDE DEF Said
  <2>3. CASE Approve(c, i, u)
    <3>1. PICK e \in OutOf(i) :
             Decide(c, i, "approve", e.to, IF Graph[e.to].final THEN "completed" ELSE "active")
      BY <2>3 DEF Approve
    <3>2. e.to \in Steps
      BY <2>1, EdgesStayInside
    <3> QED
      BY <2>2, <3>1, <3>2
  <2>4. CASE Submit(c, i, u)
    <3>1. PICK e \in OutOf(i) : Decide(c, i, "submit", e.to, "active")
      BY <2>4 DEF Submit
    <3>2. e.to \in Steps
      BY <2>1, EdgesStayInside
    <3> QED
      BY <2>2, <3>1, <3>2
  <2>5. CASE Reject(c, i, u)
    BY <2>1, <2>2, <2>5 DEF Reject
  <2>6. CASE Cancel(c, i, u)
    BY <2>1, <2>2, <2>6 DEF Cancel, OwnSteps
  <2>7. CASE Return(c, i, u)
    BY <2>1, <2>2, <2>7 DEF Return, OwnSteps
  <2> QED
    BY <1>5, <2>3, <2>4, <2>5, <2>6, <2>7
<1>6. UNCHANGED vars \/ (\E w \in Workflows : SetStatus(w) \/ DeleteWorkflow(w))
        \/ (\E e \in AllEdges : DeleteTransition(e) \/ CreateTransition(e))
        \/ (\E s \in Steps : DeleteStep(s)) => session' = session
  BY DEF vars, SetStatus, DeleteWorkflow, DeleteTransition, CreateTransition, DeleteStep, Administer
<1>7. Said(session'[d])
  <2> HIDE DEF Said
  <2> QED
    BY <1>2, <1>3, <1>4, <1>5, <1>6 DEF Next
<1> QED
  BY <1>7 DEF Meant, Ends

LEMMA StillMeant ==
  ASSUME HInv, [Next]_vars, NEW d \in Sessions
  PROVE  Meant(session[d])'
<1>1. CASE session'[d] = session[d]
  BY <1>1 DEF HInv, Meant, Ends
<1> QED
  BY <1>1, MeantWhatItDecides DEF HInv

-----------------------------------------------------------------------------
LEMMA SameTells ==
  ASSUME NEW i \in Ids, Tells(i), instance'[i] = instance[i], history'[i] = history[i],
         i \in overlapped => i \in overlapped'
  PROVE  Tells(i)'
  BY DEF Tells

(* A new instance is where its first entry says.                           *)
LEMMA StartTells ==
  ASSUME AInv, NEW i \in Ids, NEW r \in StartRequest, Started(i, r), r.step \in Steps, Graph[r.step].wf = r.wf
  PROVE  Tells(i)'
<1>1. /\ instance'[i] = [wf |-> r.wf, step |-> r.step, entity |-> r.entity, status |-> "active"]
      /\ history'[i] = <<Entry(None, r.step, "submit", r.entity)>>
  BY DEF Started, AInv, Types
<1>2. Ends(Entry(None, r.step, "submit", r.entity)) = "active"
  BY EndsOf
<1>3. Entry(None, r.step, "submit", r.entity).to = r.step
  BY DEF Entry
<1>4. Len(history'[i]) = 1 /\ history'[i][1] = Entry(None, r.step, "submit", r.entity)
  BY <1>1
<1>5. 2 .. 1 = {}
  OBVIOUS
<1> QED
  BY <1>1, <1>2, <1>3, <1>4, <1>5 DEF Tells, Follows

LEMMA StartsTell ==
  ASSUME HInv, NEW c \in Sessions, CommitStart(c) \/ CommitLeave(c)
  PROVE  \A i \in Ids : Tells(i)'
<1> DEFINE r == session[c]
<1>1. overlapped' = overlapped
  BY DEF CommitStart, CommitLeave
<1>2. r \in StartRequest /\ r.op \in {"start", "leave"} /\ StartOK(r)
  BY RequestTypes DEF CommitStart, CommitLeave, HInv, AInv, RequestOK
<1>3. CASE instance' = instance /\ history' = history
  BY <1>1, <1>3, SameTells DEF HInv
<1>4. ASSUME NEW k \in Ids, Started(k, r), r.op = "start" \/ r.wf # None
      PROVE  \A i \in Ids : Tells(i)'
  <2>1. Tells(k)'
    BY <1>2, <1>4, StartTells DEF HInv, StartOK
  <2>2. \A i \in Ids \ {k} : instance'[i] = instance[i] /\ history'[i] = history[i]
    BY <1>4 DEF Started, HInv, AInv, Types
  <2> QED
    BY <1>1, <2>1, <2>2, SameTells DEF HInv
<1> QED
  BY <1>3, <1>4 DEF CommitStart, CommitLeave

LEMMA ActTells ==
  ASSUME HInv, NEW c \in Sessions, CommitAct(c)
  PROVE  \A i \in Ids : Tells(i)'
<1> DEFINE r == session[c]
           i == r.id
           x == Flushed(i, r)
           e == Entry(r.from, r.to, r.action, instance[i].entity)
           h == history[i]
<1>1. r \in ActRequest /\ i \in Ids /\ ActOK(r) /\ instance[i].status # "none" /\ AInv
  BY RequestTypes DEF CommitAct, HInv, AInv, RequestOK
<1>2. /\ instance' = [instance EXCEPT ![i] = x]
      /\ history' = [history EXCEPT ![i] = Append(@, e)]
      /\ overlapped' = IF r.seen # Len(history[i]) THEN overlapped \cup {i} ELSE overlapped
  BY DEF CommitAct
<1>3. /\ instance'[i] = x /\ history'[i] = Append(h, e)
      /\ \A j \in Ids : j # i => instance'[j] = instance[j] /\ history'[j] = history[j]
  BY <1>1, <1>2 DEF AInv, Types
<1>4. ASSUME NEW j \in Ids, j # i PROVE Tells(j)'
  BY <1>2, <1>3, <1>4, SameTells DEF HInv
<1>5. ASSUME i \notin overlapped' PROVE Follows(history'[i], instance'[i].step, instance'[i].status)
  <2>1. i \notin overlapped /\ r.seen = Len(h)
    BY <1>2, <1>5
  <2>2. instance[i].status = "active" /\ instance[i].step = r.from
    BY <1>1, <2>1 DEF ActOK
  <2>3. Follows(h, r.from, "active") /\ Ends(e) = r.status /\ e.from = r.from /\ e.to = r.to
    BY <1>1, <2>1, <2>2 DEF HInv, Tells, Meant, ActRequest, Entry, Ends
  <2>4. instance[i] \in InstanceRow /\ h \in Seq(HistoryRow) /\ Len(h) > 0 /\ Len(h) \in Nat
    BY <1>1, LenProperties DEF AInv, Types, InstanceOK
  <2>5. x.step = r.to /\ x.status = r.status
    BY <1>1, <2>2, <2>4 DEF Flushed, InstanceRow
  <2>6. /\ Len(Append(h, e)) = Len(h) + 1
        /\ \A k \in 1..Len(h) : Append(h, e)[k] = h[k]
        /\ Append(h, e)[Len(h) + 1] = e
    BY <2>4
  <2> DEFINE g == Append(h, e)
  <2>7. ASSUME NEW k \in 2 .. Len(g) PROVE g[k].from = g[k - 1].to /\ Ends(g[k - 1]) = "active"
    <3>1. CASE k \in 2 .. Len(h)
      <4>1. k \in 1 .. Len(h) /\ k - 1 \in 1 .. Len(h)
        BY <2>4, <3>1
      <4>2. g[k] = h[k] /\ g[k - 1] = h[k - 1]
        BY <2>6, <4>1
      <4> QED
        BY <2>3, <3>1, <4>2 DEF Follows
    <3>2. CASE k = Len(h) + 1
      <4>1. g[k] = e /\ g[k - 1] = h[Len(h)]
        BY <2>4, <2>6, <3>2
      <4> QED
        BY <2>3, <4>1 DEF Follows
    <3> QED
      BY <2>4, <2>6, <3>1, <3>2
  <2>8. g[Len(g)] = e
    BY <2>6
  <2> HIDE DEF g, e, h, x
  <2>9. Follows(g, r.to, r.status)
    BY <2>3, <2>7, <2>8 DEF Follows
  <2> QED
    BY <1>3, <2>5, <2>9 DEF g
<1> QED
  BY <1>4, <1>5 DEF Tells

(* The cascade clears references to what is gone; what is left follows.    *)
LEMMA PurgeTells ==
  ASSUME HInv, NEW gone \in SUBSET Steps, Purge(gone), UNCHANGED overlapped
  PROVE  \A i \in Ids : Tells(i)'
<1> SUFFICES ASSUME NEW i \in Ids, i \notin overlapped, instance'[i].status # "none"
             PROVE  Follows(history'[i], instance'[i].step, instance'[i].status)
  BY DEF Tells
<1> DEFINE Ref(s) == IF s \in gone THEN None ELSE s
           h == history[i]
           g == history'[i]
<1>1. AInv
  BY DEF HInv
<1>2. instance[i].step \notin gone
  BY <1>1, PurgeKeeps
<1>3. /\ instance'[i] = instance[i] /\ Len(g) = Len(h)
      /\ g = [k \in DOMAIN h |-> [h[k] EXCEPT !.from = Ref(@), !.to = Ref(@)]]
  <2>1. instance'[i] = instance[i] /\ Len(g) = Len(h)
    BY <1>1, <1>2, PurgeKeeps
  <2>2. g = [k \in DOMAIN h |-> [h[k] EXCEPT !.from = Ref(@), !.to = Ref(@)]]
    BY <1>2 DEF Purge
  <2> QED
    BY <2>1, <2>2
<1>4. Follows(h, instance[i].step, instance[i].status)
  BY <1>3 DEF HInv, Tells
<1>5. h \in Seq(HistoryRow) /\ Len(h) \in Nat /\ Len(h) > 0 /\ DOMAIN h = 1 .. Len(h)
  BY <1>1, <1>3, LenProperties DEF AInv, Types, InstanceOK
<1>6. \A k \in 1 .. Len(h) :
         /\ h[k] \in HistoryRow /\ g[k].from = Ref(h[k].from) /\ g[k].to = Ref(h[k].to)
         /\ g[k].action = h[k].action
  <2>1. \A k \in 1 .. Len(h) : h[k] \in HistoryRow
    BY <1>5, ElementOfSeq
  <2>2. \A k \in 1 .. Len(h) : g[k] = [h[k] EXCEPT !.from = Ref(@), !.to = Ref(@)]
    BY <1>3, <1>5
  <2> HIDE DEF g, h, Ref
  <2>3. ASSUME NEW k \in 1 .. Len(h)
        PROVE  /\ g[k].from = Ref(h[k].from) /\ g[k].to = Ref(h[k].to)
               /\ g[k].action = h[k].action
    <3>1. h[k] \in HistoryRow /\ g[k] = [h[k] EXCEPT !.from = Ref(@), !.to = Ref(@)]
      BY <2>1, <2>2
    <3> QED
      BY <3>1 DEF HistoryRow
  <2> QED
    BY <2>1, <2>3
<1> HIDE DEF g, h
<1>7. \A k \in 1 .. Len(h) : Ends(h[k]) = "active" => Ends(g[k]) = "active"
  BY <1>6 DEF Ends
<1>8. g[Len(h)].to = instance[i].step /\ Ends(g[Len(h)]) = instance[i].status
  <2>1. Len(h) \in 1 .. Len(h)
    BY <1>5
  <2>2. h[Len(h)].to = instance[i].step /\ Ends(h[Len(h)]) = instance[i].status
    BY <1>4 DEF Follows
  <2>3. g[Len(h)].to = h[Len(h)].to /\ g[Len(h)].action = h[Len(h)].action
    BY <1>2, <1>6, <2>1, <2>2
  <2> QED
    BY <2>2, <2>3 DEF Ends
<1>9. ASSUME NEW k \in 2 .. Len(g) PROVE g[k].from = g[k - 1].to /\ Ends(g[k - 1]) = "active"
  <2>1. k \in 2 .. Len(h) /\ k \in 1 .. Len(h) /\ k - 1 \in 1 .. Len(h)
    <3>1. Len(g) = Len(h) /\ Len(h) \in Nat
      BY <1>3, <1>5
    <3> QED
      BY <3>1
  <2>2. h[k].from = h[k - 1].to /\ Ends(h[k - 1]) = "active"
    BY <1>4, <2>1 DEF Follows
  <2> QED
    BY <1>6, <1>7, <2>1, <2>2
<1>10. Follows(g, instance[i].step, instance[i].status)
  BY <1>3, <1>8, <1>9 DEF Follows
<1> QED
  BY <1>3, <1>10 DEF g

-----------------------------------------------------------------------------
LEMMA HInvInit == Init => HInv
<1> SUFFICES ASSUME Init PROVE HInv
  OBVIOUS
<1>1. \A i \in Ids : Tells(i)
  BY DEF Init, Tells, Absent
<1>2. \A c \in Sessions : Meant(session[c])
  BY DEF Init, Meant, Idle
<1> QED
  BY <1>1, <1>2, InitEstablishes DEF HInv

LEMMA HInvStep == HInv /\ [Next]_vars => HInv'
<1> SUFFICES ASSUME HInv, [Next]_vars PROVE HInv'
  OBVIOUS
<1>1. AInv'
  BY StepPreserves DEF HInv
<1>2. \A c \in Sessions : Meant(session[c])'
  BY StillMeant
<1>3. CASE instance' = instance /\ history' = history /\ overlapped' = overlapped
  BY <1>1, <1>2, <1>3, SameTells DEF HInv
<1>4. ASSUME NEW c \in Sessions, CommitStart(c) \/ CommitLeave(c) \/ CommitAct(c)
      PROVE  \A i \in Ids : Tells(i)'
  BY <1>4, StartsTell, ActTells
<1>5. ASSUME NEW s \in Steps, DeleteStep(s)
      PROVE  \A i \in Ids : Tells(i)'
  BY <1>5, PurgeTells DEF DeleteStep, Administer
<1>6. ASSUME NEW w \in Workflows, DeleteWorkflow(w)
      PROVE  \A i \in Ids : Tells(i)'
  <2> DEFINE gone == {s \in steps : Graph[s].wf = w}
  <2>1. gone \in SUBSET Steps
    BY DEF HInv, AInv, Types
  <2> QED
    BY <1>6, <2>1, PurgeTells DEF DeleteWorkflow, Administer
<1>7. ASSUME NEW c \in Sessions,
             \/ \E w \in Workflows, l \in Leaves : OpenStart(c, w, l)
             \/ \E l \in Leaves : OpenLeave(c, l)
             \/ \E l \in Leaves : OpenEdit(c, l)
             \/ CommitEdit(c) \/ Abandon(c)
      PROVE  instance' = instance /\ history' = history /\ overlapped' = overlapped
  BY <1>7 DEF OpenStart, OpenLeave, OpenEdit, CommitEdit, Abandon
<1>8. ASSUME NEW c \in Sessions, NEW i \in Ids, NEW u \in Users,
             Approve(c, i, u) \/ Submit(c, i, u) \/ Reject(c, i, u) \/ Cancel(c, i, u) \/ Return(c, i, u)
      PROVE  instance' = instance /\ history' = history /\ overlapped' = overlapped
  BY <1>8 DEF Approve, Submit, Reject, Cancel, Return, Decide
<1>9. UNCHANGED vars \/ (\E w \in Workflows : SetStatus(w))
        \/ (\E e \in AllEdges : DeleteTransition(e) \/ CreateTransition(e))
         => instance' = instance /\ history' = history /\ overlapped' = overlapped
  BY DEF vars, SetStatus, DeleteTransition, CreateTransition, Administer
<1>10. \A i \in Ids : Tells(i)'
  BY <1>3, <1>4, <1>5, <1>6, <1>7, <1>8, <1>9, SameTells DEF Next, HInv
<1> QED
  BY <1>1, <1>2, <1>10 DEF HInv

(* Every history follows its instance, unless sessions overlapped on it.   *)
THEOREM HistoryInvariance == Spec => []HInv
<1>1. Init => HInv
  BY HInvInit
<1>2. HInv /\ [Next]_vars => HInv'
  BY HInvStep
<1> QED
  BY <1>1, <1>2, PTL DEF Spec

(* Unless sessions overlapped on an instance its history is a path of the  *)
(* steps it was at, ends where it is, and its last entry says its status,  *)
(* whatever definitions are deleted under it.                              *)
THEOREM HistoriesAreTrue == Spec => []OnlyOverlapsDiverge
<1>1. HInv => OnlyOverlapsDiverge
  BY DEF HInv, Tells, Follows, OnlyOverlapsDiverge, Last
<1> QED
  BY <1>1, HistoryInvariance, PTL
-----------------------------------------------------------------------------
(* References.  Steps are deleted while sessions hold them in hand; what   *)
(* is committed refers to rows that exist.                                 *)
Definitions ==
    /\ template \in [Workflows -> {"active", "inactive", "deleted"}]
    /\ steps \subseteq Steps /\ edges \subseteq AllEdges
    /\ \A s \in steps : template[Graph[s].wf] # "deleted"
    /\ \A e \in edges : e.from \in steps /\ e.to \in steps
    /\ admin \in 0..MaxAdmin

Known(h) == \A k \in DOMAIN h : {h[k].from, h[k].to} \subseteq steps \cup {None}

Refers(i) ==
    /\ instance[i].status # "none" => instance[i].step \in steps
    /\ (instance[i].status = "none") = (history[i] = <<>>)
    /\ Known(history[i])

RefInv == Definitions /\ overlapped \subseteq Ids /\ \A i \in Ids : Refers(i)

LEMMA RefInvInit == Init => RefInv
<1> SUFFICES ASSUME Init PROVE RefInv
  OBVIOUS
<1>1. Definitions
  BY GraphAssumption DEF Init, Definitions
<1>2. \A i \in Ids : Refers(i)
  BY DEF Init, Refers, Known, Absent
<1> QED
  BY <1>1, <1>2 DEF Init, RefInv

(* Steps that stay and rows that stay keep their references.               *)
LEMMA SameRefers ==
  ASSUME RefInv, steps \subseteq steps', NEW i \in Ids,
         instance'[i] = instance[i], history'[i] = history[i]
  PROVE  Refers(i)'
  BY DEF RefInv, Refers, Known

(* The new instance is at a step that exists, and so says its history.     *)
LEMMA StartedRefers ==
  ASSUME AInv, RefInv, NEW i \in Ids, NEW r \in StartRequest, Started(i, r),
         r.step \in Steps, Graph[r.step].wf = r.wf, steps' = steps
  PROVE  \A j \in Ids : Refers(j)'
<1>1. /\ \A j \in Ids \ {i} : instance'[j] = instance[j] /\ history'[j] = history[j]
      /\ instance'[i] = [wf |-> r.wf, step |-> r.step, entity |-> r.entity, status |-> "active"]
      /\ Len(history'[i]) = 1 /\ DOMAIN history'[i] = {1}
  BY StartedRows
<1>2. ASSUME NEW j \in Ids \ {i} PROVE Refers(j)'
  BY <1>1, SameRefers
<1>3. Refers(i)'
  <2>1. history' = [history EXCEPT ![i] = <<Entry(None, r.step, "submit", r.entity)>>] /\ r.step \in steps
    BY DEF Started
  <2>2. history'[i] = <<Entry(None, r.step, "submit", r.entity)>>
    BY <2>1 DEF AInv, Types
  <2>3. history'[i][1].from = None /\ history'[i][1].to = r.step
    BY <2>2 DEF Entry
  <2>4. Known(history[i])'
    BY <1>1, <2>1, <2>3 DEF Known
  <2> QED
    BY <1>1, <2>1, <2>2, <2>4 DEF Refers
<1> QED
  BY <1>2, <1>3

LEMMA CommitActRefers ==
  ASSUME AInv, RefInv, NEW c \in Sessions, CommitAct(c)
  PROVE  overlapped' \subseteq Ids /\ \A j \in Ids : Refers(j)'
<1>0. PICK r \in ActRequest, i \in Ids : r = session[c] /\ i = r.id
  BY RequestTypes DEF CommitAct
<1> DEFINE x == Flushed(i, r)
           e == Entry(r.from, r.to, r.action, instance[i].entity)
<1>1. instance[i].status # "none"
  BY <1>0 DEF CommitAct
<1>2. /\ instance' = [instance EXCEPT ![i] = x]
      /\ history' = [history EXCEPT ![i] = Append(@, e)]
      /\ overlapped' \in {overlapped, overlapped \cup {i}}
      /\ steps' = steps /\ r.from \in steps /\ r.to \in steps
  BY <1>0 DEF CommitAct, definitions
<1>3. x.status # "none" /\ x.step \in steps
  BY <1>1, <1>2 DEF Flushed, RefInv, Refers, AInv, Types, InstanceRow, ActRequest
<1>4. e.from = r.from /\ e.to = r.to
  BY DEF Entry
<1>5. e \in HistoryRow /\ history[i] \in Seq(HistoryRow)
  <2>1. Types /\ instance[i].entity \in Leaves
    BY <1>1 DEF AInv, InstanceOK
  <2>2. r.from \in Steps /\ r.to \in Steps /\ r.action \in Actions
    BY <1>1 DEF ActRequest
  <2> QED
    BY <1>1, <2>1, <2>2, EntryType DEF Types
<1> HIDE DEF x, e
<1>6. /\ instance'[i] = x /\ history'[i] = Append(history[i], e)
      /\ \A j \in Ids : j # i => instance'[j] = instance[j] /\ history'[j] = history[j]
  BY <1>1, <1>2 DEF AInv, Types
<1>7. /\ Len(history[i]) \in Nat /\ DOMAIN history[i] = 1 .. Len(history[i])
      /\ DOMAIN history'[i] = 1 .. (Len(history[i]) + 1)
      /\ history'[i][Len(history[i]) + 1] = e
      /\ \A k \in 1 .. Len(history[i]) : history'[i][k] = history[i][k]
  BY <1>5, <1>6, AppendProperties, LenProperties
<1>8. Refers(i)'
  <2>1. Known(history[i])
    BY <1>1 DEF RefInv, Refers
  <2>2. Known(history[i])'
    BY <1>2, <1>4, <1>7, <2>1 DEF Known
  <2>3. history'[i] # <<>>
    BY <1>7
  <2> QED
    BY <1>2, <1>3, <1>6, <2>2, <2>3 DEF Refers
<1>9. ASSUME NEW j \in Ids, j # i PROVE Refers(j)'
  BY <1>2, <1>6, <1>9, SameRefers
<1> QED
  BY <1>1, <1>2, <1>8, <1>9 DEF RefInv

(* The cascade deletes what refers to the steps that go, or clears it.     *)
LEMMA PurgeRefers ==
  ASSUME AInv, RefInv, NEW gone \in SUBSET Steps, Purge(gone), NEW i \in Ids
  PROVE  Refers(i)'
<1>1. steps' = steps \ gone
  BY DEF Purge
<1>2. CASE instance[i].step \in gone
  <2>1. instance'[i] = [Absent EXCEPT !.wf = "deleted"] /\ history'[i] = <<>>
    BY <1>2 DEF Purge
  <2> QED
    BY <2>1 DEF Refers, Known, Absent
<1>3. CASE instance[i].step \notin gone
  <2>1. /\ instance'[i] = instance[i]
        /\ history'[i] = [k \in DOMAIN history[i] |->
              [history[i][k] EXCEPT !.from = IF @ \in gone THEN None ELSE @,
                                    !.to   = IF @ \in gone THEN None ELSE @]]
    BY <1>3 DEF Purge
  <2>2. history[i] \in Seq(HistoryRow) /\ history'[i] \in Seq(HistoryRow)
    BY PurgeKeeps DEF AInv, Types
  <2>3. Len(history'[i]) = Len(history[i])
    BY <1>3, PurgeKeeps
  <2>4. (history'[i] = <<>>) = (history[i] = <<>>)
    BY <2>2, <2>3, EmptySeq
  <2>5. ASSUME NEW k \in DOMAIN history[i]
        PROVE  {history'[i][k].from, history'[i][k].to} \subseteq steps' \cup {None}
    <3>1. history[i][k] \in HistoryRow
      BY <2>2, ElementOfSeq, LenProperties
    <3>2. {history[i][k].from, history[i][k].to} \subseteq steps \cup {None}
      BY DEF RefInv, Refers, Known
    <3>3. /\ history'[i][k].from = IF history[i][k].from \in gone THEN None ELSE history[i][k].from
          /\ history'[i][k].to = IF history[i][k].to \in gone THEN None ELSE history[i][k].to
      BY <2>1, <3>1 DEF HistoryRow
    <3> QED
      BY <1>1, <3>2, <3>3
  <2>6. Known(history[i])'
    BY <2>1, <2>5 DEF Known
  <2> QED
    BY <1>1, <1>3, <2>1, <2>4, <2>6 DEF Refers, RefInv
<1> QED
  BY <1>2, <1>3

LEMMA DefinitionsStay ==
  ASSUME AInv, RefInv, [Next]_vars
  PROVE  Definitions'
<1>1. CASE UNCHANGED <<template, steps, edges, admin>>
  BY <1>1 DEF RefInv, Definitions
<1>2. ASSUME NEW w \in Workflows, SetStatus(w) PROVE Definitions'
  BY <1>2, GraphAssumption DEF SetStatus, Administer, RefInv, Definitions
<1>3. ASSUME NEW e \in AllEdges, DeleteTransition(e) \/ CreateTransition(e) PROVE Definitions'
  BY <1>3, GraphAssumption DEF DeleteTransition, CreateTransition, Administer, RefInv, Definitions
<1>4. ASSUME NEW s \in Steps, DeleteStep(s) PROVE Definitions'
  <2>1. /\ steps' = steps \ {s} /\ edges' = {e \in edges : e.from \notin {s} /\ e.to \notin {s}}
        /\ template' = template /\ admin' = admin + 1 /\ admin < MaxAdmin
    BY <1>4 DEF DeleteStep, Purge, Administer
  <2> QED
    BY <2>1, GraphAssumption DEF RefInv, Definitions
<1>5. ASSUME NEW w \in Workflows, DeleteWorkflow(w) PROVE Definitions'
  <2> DEFINE gone == {s \in steps : Graph[s].wf = w}
  <2>1. /\ steps' = steps \ gone /\ edges' = {e \in edges : e.from \notin gone /\ e.to \notin gone}
        /\ template' = [template EXCEPT ![w] = "deleted"] /\ admin' = admin + 1 /\ admin < MaxAdmin
    BY <1>5 DEF DeleteWorkflow, Purge, Administer
  <2>2. \A s \in steps' : template'[Graph[s].wf] # "deleted"
    BY <2>1, GraphAssumption DEF RefInv, Definitions
  <2> QED
    BY <2>1, <2>2, GraphAssumption DEF RefInv, Definitions
<1>6. ASSUME NEW c \in Sessions,
             \/ \E w \in Workflows, l \in Leaves : OpenStart(c, w, l)
             \/ \E l \in Leaves : OpenLeave(c, l)
             \/ \E l \in Leaves : OpenEdit(c, l)
             \/ CommitEdit(c) \/ Abandon(c) \/ CommitStart(c) \/ CommitLeave(c) \/ CommitAct(c)
      PROVE  Definitions'
  BY <1>1, <1>6 DEF OpenStart, OpenLeave, OpenEdit, CommitEdit, Abandon, CommitStart, CommitLeave,
                    CommitAct, definitions
<1>7. ASSUME NEW c \in Sessions, NEW i \in Ids, NEW u \in Users,
             Approve(c, i, u) \/ Submit(c, i, u) \/ Reject(c, i, u) \/ Cancel(c, i, u) \/ Return(c, i, u)
      PROVE  Definitions'
  BY <1>1, <1>7 DEF Approve, Submit, Reject, Cancel, Return, Decide, definitions
<1> QED
  BY <1>1, <1>2, <1>3, <1>4, <1>5, <1>6, <1>7 DEF Next, vars

LEMMA RefInvStep ==
  ASSUME AInv, RefInv, [Next]_vars
  PROVE  RefInv'
<1>1. Definitions'
  BY DefinitionsStay
<1>2. ASSUME NEW c \in Sessions, CommitStart(c) \/ CommitLeave(c)
      PROVE  overlapped' \subseteq Ids /\ \A i \in Ids : Refers(i)'
  <2> DEFINE r == session[c]
  <2>1. r \in StartRequest /\ StartOK(r)
    BY <1>2, RequestTypes DEF CommitStart, CommitLeave, AInv, RequestOK
  <2>2. steps' = steps /\ overlapped' = overlapped
    BY <1>2 DEF CommitStart, CommitLeave, definitions
  <2>3. CASE \E i \in Ids : Started(i, r) /\ (r.op = "start" \/ r.wf # None)
    BY <2>1, <2>2, <2>3, StartedRefers DEF StartOK, RefInv
  <2>4. CASE instance' = instance /\ history' = history
    BY <2>2, <2>4, SameRefers DEF RefInv
  <2> QED
    BY <1>2, <2>3, <2>4 DEF CommitStart, CommitLeave
<1>3. ASSUME NEW c \in Sessions, CommitAct(c)
      PROVE  overlapped' \subseteq Ids /\ \A i \in Ids : Refers(i)'
  BY <1>3, CommitActRefers
<1>4. ASSUME NEW s \in Steps, DeleteStep(s)
      PROVE  overlapped' \subseteq Ids /\ \A i \in Ids : Refers(i)'
  BY <1>4, PurgeRefers DEF DeleteStep, Administer, RefInv
<1>5. ASSUME NEW w \in Workflows, DeleteWorkflow(w)
      PROVE  overlapped' \subseteq Ids /\ \A i \in Ids : Refers(i)'
  <2>1. {s \in steps : Graph[s].wf = w} \in SUBSET Steps
    BY DEF AInv, Types
  <2> QED
    BY <1>5, <2>1, PurgeRefers DEF DeleteWorkflow, Administer, RefInv
<1>6. ASSUME instance' = instance, history' = history, overlapped' = overlapped, steps \subseteq steps'
      PROVE  overlapped' \subseteq Ids /\ \A i \in Ids : Refers(i)'
  BY <1>6, SameRefers DEF RefInv
<1>7. ASSUME NEW c \in Sessions,
             \/ \E w \in Workflows, l \in Leaves : OpenStart(c, w, l)
             \/ \E l \in Leaves : OpenLeave(c, l)
             \/ \E l \in Leaves : OpenEdit(c, l)
             \/ CommitEdit(c) \/ Abandon(c)
      PROVE  overlapped' \subseteq Ids /\ \A i \in Ids : Refers(i)'
  BY <1>6, <1>7 DEF OpenStart, OpenLeave, OpenEdit, CommitEdit, Abandon, definitions
<1>8. ASSUME NEW c \in Sessions, NEW i \in Ids, NEW u \in Users,
             Approve(c, i, u) \/ Submit(c, i, u) \/ Reject(c, i, u) \/ Cancel(c, i, u) \/ Return(c, i, u)
      PROVE  overlapped' \subseteq Ids /\ \A j \in Ids : Refers(j)'
  BY <1>6, <1>8 DEF Approve, Submit, Reject, Cancel, Return, Decide, definitions
<1>9. UNCHANGED vars \/ (\E w \in Workflows : SetStatus(w))
        \/ (\E e \in AllEdges : DeleteTransition(e) \/ CreateTransition(e))
         => overlapped' \subseteq Ids /\ \A i \in Ids : Refers(i)'
  BY <1>6 DEF vars, SetStatus, DeleteTransition, CreateTransition, Administer
<1>10. overlapped' \subseteq Ids /\ \A i \in Ids : Refers(i)'
  BY <1>2, <1>3, <1>4, <1>5, <1>7, <1>8, <1>9 DEF Next
<1> QED
  BY <1>1, <1>10 DEF RefInv

(* Whatever administrators delete while sessions hold it in hand, nothing  *)
(* that is committed refers to a step, a workflow or an instance that is   *)
(* gone, and an instance exists exactly as long as it has a history.       *)
THEOREM NothingDangles == Spec => []TypeOK
<1>1. Init => RefInv
  BY RefInvInit
<1>2. AInv /\ RefInv /\ [Next]_vars => RefInv'
  BY RefInvStep
<1>3. AInv /\ RefInv => TypeOK
  BY DEF AInv, RefInv, Definitions, Refers, Known, Types, InstanceRow, LeaveOK, TypeOK
<1> QED
  BY <1>1, <1>2, <1>3, Invariance, PTL DEF Spec
=============================================================================
