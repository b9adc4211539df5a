-------------------------------- MODULE Cases -------------------------------
(***************************************************************************)
(* Findings of the risk and data-quality rules of one campus, and the      *)
(* operational cases promoted from them.                                   *)
(*                                                                         *)
(* A recompute evaluates the rules, selects the stored findings and later  *)
(* brings them in line; people resolve, acknowledge or ignore findings;    *)
(* the transitions of a case resolve and reopen the finding it came from.  *)
(* A request reads and checks rows and later flushes and commits what it   *)
(* changed (the Commit actions), by the ids of the rows: whatever others   *)
(* committed in between is overwritten.  Only the finding of a case is     *)
(* selected right before the flush that writes it (_sync_source_finding),  *)
(* in the same step.                                                       *)
(***************************************************************************)
EXTENDS Integers, FiniteSets, SequencesExt

CONSTANTS
    Sessions,
    Rules, Risk,    \* (entity, rule) pairs; those in Risk are risk rules, the others data-quality checks
    Asked,          \* the statuses clients move cases to
    Manual,         \* {NoValue} where cases are also created by hand, or {}
    MaxCases,       \* bound: cases created
    MaxEvents,      \* bound: entries of a timeline
    MaxRaced,       \* bound: rows raced on, after which no request begins
    NoValue

ASSUME CasesAssumption ==
    /\ Risk \subseteq Rules /\ Manual \subseteq {NoValue}
    /\ MaxCases \in Nat /\ MaxEvents \in Nat /\ MaxRaced \in Nat
    /\ NoValue \notin Nat

VARIABLES
    finding,    \* per rule its findings, in the order of their ids, and the
                \* case that resolved one, if a case did (resolved_reason)
    case,       \* cases, in the order of their ids
    session,    \* what each session has read and is about to write
    raced       \* rows written while another session had read them

casesVars == <<finding, case, session, raced>>

Idle == [op |-> "idle"]

CasesInit ==
    /\ finding = [r \in Rules |-> <<>>]
    /\ case = <<>>
    /\ session = [c \in Sessions |-> Idle]
    /\ raced = {}

-----------------------------------------------------------------------------
Terminal == {"resolved", "closed"}

(* CASE_TRANSITIONS                                                        *)
NextStatus(s) ==
    CASE s = "open"         -> {"acknowledged", "in_progress", "waiting", "resolved"}
      [] s = "acknowledged" -> {"in_progress", "waiting", "resolved", "open"}
      [] s = "in_progress"  -> {"waiting", "resolved", "open"}
      [] s = "waiting"      -> {"in_progress", "resolved", "open"}
      [] s = "resolved"     -> {"closed", "open"}
      [] s = "closed"       -> {"open"}

(* The finding statuses a recompute takes as still there, per kind of rule.*)
Live(r) == IF r \in Risk THEN {"open", "acknowledged"} ELSE {"open"}

(* The unique constraints: a risk rule has at most one finding of each     *)
(* status, a data-quality check at most one finding.                       *)
UniqueRows(f) ==
    \A r \in Rules :
        IF r \in Risk THEN \A m, n \in DOMAIN f[r] : f[r][m].status = f[r][n].status => m = n
                      ELSE Len(f[r]) <= 1

Rows == {<<r, n>> : r \in Rules, n \in 1 .. MaxCases + 3}
Stored == {x \in Rows : x[2] \in DOMAIN finding[x[1]]}
Row(x) == finding[x[1]][x[2]]
SetRow(x, status, via) ==
    [finding EXCEPT ![x[1]][x[2]] = [status |-> status, via |-> via]]

Fresh == [status |-> "open", via |-> NoValue]

Reads(s) ==
    CASE s.op = "case"      -> {<<"case", s.id>>}
      [] s.op = "escalate"  -> {<<"case", i>> : i \in s.ids}
      [] s.op = "findings"  -> {<<"finding", x>> : x \in DOMAIN s.changes}
      [] s.op \in {"idle", "create"} -> {}

Begin(c, s) ==
    /\ session[c] = Idle
    /\ Cardinality(raced) < MaxRaced
    /\ session' = [session EXCEPT ![c] = s]
    /\ UNCHANGED <<finding, case, raced>>

(* Session c ends, having written the rows W.                              *)
End(c, W) ==
    /\ session' = [session EXCEPT ![c] = Idle]
    /\ raced' = raced \cup {x \in W : \E d \in Sessions \ {c} : x \in Reads(session[d])}

Note(type) == [type |-> type]
Move(from, to) == [type |-> "status", from |-> from, to |-> to]

-----------------------------------------------------------------------------
Kind(r) == r \in Risk

LiveRows(r) == {n \in DOMAIN finding[r] : finding[r][n].status \in Live(r)}

(* What a run for the rules of kind k writes to the findings it has        *)
(* selected: an acknowledged one is open again if its rule fires (an open  *)
(* one stays so), an open one is resolved if its rule fires no longer.     *)
Changes(k, fires) ==
    LET Selected == {x \in Stored : Kind(x[1]) = k /\ x[2] \in LiveRows(x[1])}
        Reopened == {x \in Selected : x[1] \in fires /\ Row(x).status # "open"}
        Lapsed   == {x \in Selected : x[1] \notin fires /\ Row(x).status = "open"}
    IN [x \in Reopened \cup Lapsed |-> IF x \in Lapsed THEN "resolved" ELSE "open"]

(* The rules it adds a finding of.                                         *)
Added(fires) == {r \in fires : LiveRows(r) = {}}

(* Resolving or ignoring a finding gives a reason, other writes leave the  *)
(* reason alone.                                                           *)
Put(f, status) ==
    [status |-> status, via |-> IF status \in {"resolved", "ignored"} THEN NoValue ELSE f.via]

(* The findings of rule r after its rows were written and one was added.   *)
RevisedOf(r, changes, new) ==
    LET rows == [n \in DOMAIN finding[r] |->
                    IF <<r, n>> \in DOMAIN changes THEN Put(finding[r][n], changes[<<r, n>>])
                    ELSE finding[r][n]]
    IN IF r \in new THEN Append(rows, Fresh) ELSE rows

Revised(changes, new) == [r \in Rules |-> RevisedOf(r, changes, new)]

(* A run stops at a rule with two live findings, and at a unique key.      *)
Single(fires) == \A r \in fires : Cardinality(LiveRows(r)) <= 1
Storable(k, fires) == Single(fires) /\ UniqueRows(Revised(Changes(k, fires), Added(fires)))

Findings(c, changes, new) == Begin(c, [op |-> "findings", changes |-> changes, new |-> new])

(* recompute of one of the two engines, up to its flush.  The rules that   *)
(* fire are worked out from attendance, dues and records, which change     *)
(* freely: any may.  Rules do not meet, so that selecting the findings of  *)
(* all of them at once stands for one after the other.                     *)
Recompute(c, k, fires) ==
    /\ Single(fires)
    /\ Findings(c, Changes(k, fires), Added(fires))

Finding(c, x, status) == Findings(c, [y \in {x} |-> status], {})

(* resolve_finding of either engine; ignore_finding; acknowledge_finding.  *)
ResolveFinding(c, x) == Row(x).status # "resolved" /\ Finding(c, x, "resolved")

IgnoreFinding(c, x) ==
    /\ x[1] \notin Risk
    /\ Row(x).status # "ignored"
    /\ Finding(c, x, "ignored")

AcknowledgeFinding(c, x) ==
    /\ x[1] \in Risk
    /\ Row(x).status = "open"
    /\ Finding(c, x, "acknowledged")

(* The flush and commit of any of these.                                   *)
CommitFindings(c) ==
    LET s == session[c] IN
    /\ s.op = "findings"
    /\ finding' = Revised(s.changes, s.new)
    /\ UniqueRows(finding')
    /\ End(c, {<<"finding", x>> : x \in DOMAIN s.changes})
    /\ UNCHANGED case

-----------------------------------------------------------------------------
(* The bound on timelines.                                                 *)
Room(i) == Len(case[i].events) < MaxEvents

(* create_case, by hand or from a finding, assigned to someone or not; its *)
(* number is the next id.                                                  *)
CreateCase(c, x, assigned) ==
    /\ Len(case) < MaxCases
    /\ Begin(c, [op |-> "create", source |-> x, assigned |-> assigned, number |-> Len(case) + 1])

(* The unique number, and the unique source of a case.  The entry of the   *)
(* assignment precedes that of the creation and does not count.            *)
CommitCreate(c) ==
    LET s == session[c] IN
    /\ s.op = "create"
    /\ s.number = Len(case) + 1
    /\ s.source # NoValue => \A i \in DOMAIN case : case[i].source # s.source
    /\ case' = Append(case,
          [source |-> s.source, status |-> "open", escalated |-> FALSE, version |-> 1,
           events |-> IF s.assigned THEN <<Note("edited"), Note("created")>> ELSE <<Note("created")>>])
    /\ End(c, {})
    /\ UNCHANGED finding

(* A request on case i: the columns it sets, the timeline entry it adds.   *)
Edit(c, i, from, set, event) ==
    /\ Room(i)
    /\ Begin(c, [op |-> "case", id |-> i, from |-> from, set |-> set, event |-> event])

Bumped(i) == case[i].version + 1

(* Broken variant: the lifecycle table is not consulted.                   *)
TransitionAny(c, i, to) ==
    /\ to # case[i].status
    /\ Edit(c, i, case[i].status, [status |-> to, version |-> Bumped(i)], Move(case[i].status, to))

(* transition_status                                                       *)
TransitionStatus(c, i, to) ==
    /\ to \in NextStatus(case[i].status)
    /\ Edit(c, i, case[i].status, [status |-> to, version |-> Bumped(i)], Move(case[i].status, to))

(* assign_case, change_priority and set_due_date                           *)
AssignCase(c, i) == Edit(c, i, NoValue, [version |-> Bumped(i)], Note("edited"))

(* add_comment and add_evidence add an event and leave the case alone.     *)
AddComment(c, i) == Edit(c, i, NoValue, <<>>, Note("noted"))

(* Broken variant: closing or reopening a case leaves its finding alone.   *)
SyncResolveOnly(i, from, to) ==
    LET x == case[i].source IN
    IF x # NoValue /\ to = "resolved" /\ Row(x).status \in Live(x[1])
    THEN SetRow(x, "resolved", i) ELSE finding

(* _sync_source_finding: a resolved or closed case resolves its finding if *)
(* that is live; a reopened case reopens it if it was this case's doing.   *)
Sync(i, from, to) ==
    LET x == case[i].source IN
    CASE x = NoValue -> finding
      [] x # NoValue /\ to \in Terminal /\ Row(x).status \in Live(x[1]) -> SetRow(x, "resolved", i)
      [] x # NoValue /\ to = "open" /\ from \in Terminal /\ Row(x) = [status |-> "resolved", via |-> i]
         -> SetRow(x, "open", NoValue)
      [] OTHER -> finding

(* The row of a case once request s has written to it.                     *)
Assign(row, set) == [f \in DOMAIN row |-> IF f \in DOMAIN set THEN set[f] ELSE row[f]]
Edited(row, s) == [Assign(row, s.set) EXCEPT !.events = Append(row.events, s.event)]

CommitEdit(c) ==
    LET s == session[c] IN
    /\ s.op = "case"
    /\ case' = [case EXCEPT ![s.id] = Edited(@, s)]
    /\ finding' = IF s.event.type = "status" THEN Sync(s.id, s.from, s.event.to) ELSE finding
    /\ UniqueRows(finding')
    /\ End(c, (IF DOMAIN s.set = {} THEN {} ELSE {<<"case", s.id>>})
              \cup {<<"finding", x>> : x \in {y \in Stored : finding'[y[1]][y[2]] # Row(y)}})

(* run_escalation, by the periodic job and by hand, finding the cases ids  *)
(* past their deadline.                                                    *)
RunEscalation(c, ids) ==
    /\ ids # {}
    /\ \A i \in ids : /\ case[i].status \notin Terminal
                      /\ ~case[i].escalated
                      /\ Room(i)
    /\ Begin(c, [op |-> "escalate", ids |-> ids])

CommitEscalation(c) ==
    LET ids == session[c].ids IN
    /\ session[c].op = "escalate"
    /\ case' = [i \in DOMAIN case |->
                  IF i \in ids THEN [case[i] EXCEPT !.escalated = TRUE,
                                                    !.events = Append(@, Note("escalated"))]
                  ELSE case[i]]
    /\ End(c, {<<"case", i>> : i \in ids})
    /\ UNCHANGED finding

(* The session fails, or a constraint refuses its write.                   *)
RollBack(c) ==
    /\ session[c] # Idle
    /\ session' = [session EXCEPT ![c] = Idle]
    /\ UNCHANGED <<finding, case, raced>>

-----------------------------------------------------------------------------
CasesNext ==
    \/ \E c \in Sessions :
          \/ \E k \in BOOLEAN : \E fires \in SUBSET {r \in Rules : Kind(r) = k} : Recompute(c, k, fires)
          \/ \E x \in Stored : ResolveFinding(c, x) \/ IgnoreFinding(c, x) \/ AcknowledgeFinding(c, x)
          \/ \E x \in Stored \cup Manual, assigned \in BOOLEAN : CreateCase(c, x, assigned)
          \/ \E i \in DOMAIN case :
                \/ \E to \in Asked : TransitionStatus(c, i, to)
                \/ AssignCase(c, i)
                \/ AddComment(c, i)
          \/ \E ids \in SUBSET DOMAIN case : RunEscalation(c, ids)
          \/ CommitFindings(c)
          \/ CommitCreate(c)
          \/ CommitEdit(c)
          \/ CommitEscalation(c)
          \/ RollBack(c)

CasesSpec == CasesInit /\ [][CasesNext]_casesVars

-----------------------------------------------------------------------------
(* Types; at most one case per finding, at most one finding per key.       *)
CasesTypeOK ==
    /\ UniqueRows(finding)
    /\ \A x \in Stored : /\ Row(x).status \in Live(x[1]) \cup {"resolved", "ignored"}
                         /\ Row(x).via \in {NoValue} \cup DOMAIN case
    /\ \A i \in DOMAIN case :
          /\ case[i].source \in Stored \cup {NoValue}
          /\ case[i].escalated \in BOOLEAN
          /\ \A j \in DOMAIN case : case[i].source # NoValue /\ case[i].source = case[j].source => i = j

Moves(i) == {n \in DOMAIN case[i].events : case[i].events[n].type = "status"}

(* The status the moves before entry n of the timeline lead to.            *)
LeadTo(i, n, status) ==
    LET before == {m \in Moves(i) : m < n} IN
    IF before = {} THEN status = "open"
    ELSE \E m \in before : case[i].events[m].to = status /\ \A k \in before : k <= m

(* Broken or not, a timeline accounts for its case: unless sessions raced  *)
(* on it the moves lead from open to its status along the lifecycle, each  *)
(* from where the one before led, every edit after the creation counts in  *)
(* the version, and a case is escalated once.                              *)
TimelineTells ==
    \A i \in DOMAIN case : <<"case", i>> \notin raced =>
        LET events == case[i].events
            Births == {n \in DOMAIN events : events[n].type = "created"}
            Edits == {n \in DOMAIN events : /\ events[n].type \in {"status", "edited"}
                                            /\ \E m \in Births : m < n}
            Alarms == {n \in DOMAIN events : events[n].type = "escalated"}
        IN /\ Births # {}
           /\ LeadTo(i, Len(events) + 1, case[i].status)
           /\ \A n \in Moves(i) : /\ LeadTo(i, n, events[n].from)
                                  /\ events[n].to \in NextStatus(events[n].from)
           /\ case[i].version = 1 + Cardinality(Edits)
           /\ Cardinality(Alarms) = IF case[i].escalated THEN 1 ELSE 0

(* The loop is closed: unless sessions raced on either, the finding of a   *)
(* resolved or closed case is not live, and the finding of a case under    *)
(* way is not resolved on account of that case.                            *)
LoopIsClosed ==
    \A i \in DOMAIN case :
        LET x == case[i].source IN
        x # NoValue /\ <<"case", i>> \notin raced /\ <<"finding", x>> \notin raced =>
            IF case[i].status \in Terminal THEN Row(x).status \notin Live(x[1])
            ELSE Row(x).via # i

(* "Re-open on each run while the condition persists" (the data-quality    *)
(* engine's recompute): whatever was done to the findings before, the next *)
(* run can store what it detects.                                          *)
NextRunIsStored == \A k \in BOOLEAN : \A fires \in SUBSET {r \in Rules : Kind(r) = k} : Storable(k, fires)
=============================================================================
