------------------------------ MODULE Exceptions ----------------------------
(***************************************************************************)
(* One system exception, worked on by people in overlapping requests.      *)
(*                                                                         *)
(* Every write but one is an UPDATE that names the version the request     *)
(* read; it locks the row until the commit, so what follows it in the      *)
(* request is part of the same step.  The ORM adds one to the version of   *)
(* the object it updates and the service adds one more, which the next     *)
(* flush writes without naming a version: a write counts two.  resolve     *)
(* makes two such writes and does not look at the outcome of the first.    *)
(***************************************************************************)
EXTENDS Integers, SequencesExt

CONSTANTS
    Sessions,
    Severities,
    Values,         \* owners, due dates and root causes
    Items,          \* keys of the evidence
    Outcomes,       \* resolution types
    MaxEvents,      \* bound: no request begins once the timeline is this long
    None

Statuses == {"open", "acknowledged", "in_progress", "resolved", "closed"}

(* system_exceptions.  The links to a case and to a workflow are written   *)
(* as the owner is, and are left out.                                      *)
Exception == [status : Statuses, version : Int, severity : Severities,
              owner : Values \cup {None}, due : Values \cup {None}, cause : Values \cup {None},
              evidence : SUBSET Items, resolution : Outcomes \cup {None}]

ASSUME ExceptionsAssumption ==
    /\ MaxEvents \in Nat
    /\ None \notin Values \cup Outcomes \cup Exception

VARIABLES
    row,        \* the exception, None before it is created
    timeline,   \* its events, in the order of event_seq
    session,    \* what each request has read and is about to write
    overtaken   \* a resolve went on although its first write matched no row

vars == <<row, timeline, session, overtaken>>

Idle == [op |-> "idle"]

Init ==
    /\ row = None
    /\ timeline = <<>>
    /\ session = [c \in Sessions |-> Idle]
    /\ overtaken = FALSE

(* EXCEPTION_TRANSITIONS                                                   *)
NextStatus(s) ==
    CASE s = "open"         -> {"acknowledged", "in_progress", "resolved"}
      [] s = "acknowledged" -> {"in_progress", "resolved", "open"}
      [] s = "in_progress"  -> {"resolved", "open"}
      [] s = "resolved"     -> {"closed", "open"}
      [] s = "closed"       -> {"open"}

-----------------------------------------------------------------------------
Begin(c, s) ==
    /\ session[c] = Idle
    /\ Len(timeline) < MaxEvents
    /\ session' = [session EXCEPT ![c] = s]
    /\ UNCHANGED <<row, timeline, overtaken>>

End(c, event) ==
    /\ timeline' = Append(timeline, event)
    /\ session' = [session EXCEPT ![c] = Idle]

(* create: get_by_source finds nothing.                                    *)
Create(c) == row = None /\ Begin(c, [op |-> "create"])

(* The unique source lets one of them in.  The due date may come from the  *)
(* SLA rules; the event names neither the owner nor the evidence.          *)
CommitCreate(c) ==
    /\ session[c].op = "create"
    /\ row = None
    /\ \E severity \in Severities, owner, due \in Values \cup {None}, evidence \in SUBSET Items :
          /\ row' = [status |-> "open", version |-> 1, severity |-> severity, owner |-> owner,
                     due |-> due, cause |-> None, evidence |-> evidence, resolution |-> None]
          /\ End(c, [type |-> "created", severity |-> severity, due |-> due])
    /\ UNCHANGED overtaken

(* get.  What the request then does is its client's choice.                *)
Load(c) == row # None /\ Begin(c, [op |-> "loaded", read |-> row])

Loaded(c) == session[c].op = "loaded"

(* Broken variant: the write names no version.                             *)
MatchesAny(c) == row # None /\ session[c].op # "idle"

(* UPDATE ... WHERE id = ? AND version = ?                                 *)
Matches(c) == row.version = session[c].read.version

(* A write of row r, and of its event.                                     *)
Write(c, r, event) ==
    /\ Loaded(c)
    /\ Matches(c)
    /\ row' = [r EXCEPT !.version = session[c].read.version + 2]
    /\ End(c, event)
    /\ UNCHANGED overtaken

(* What the timeline is told of a move: only reopen names the status it    *)
(* left.                                                                   *)
Moved(from, to) ==
    IF to = "open" THEN [type |-> "reopened", from |-> from] ELSE [type |-> "moved", to |-> to]

(* acknowledge, start, close, reopen: allowed from the status read.        *)
(* Reopening leaves the resolution of before.                              *)
Move(c, to) ==
    /\ Loaded(c)
    /\ to \in NextStatus(session[c].read.status) \ {"resolved"}
    /\ Write(c, [row EXCEPT !.status = to], Moved(session[c].read.status, to))

(* Broken variant: the version is not counted up.                          *)
AssignOnly(c, owner) ==
    /\ Loaded(c)
    /\ Matches(c)
    /\ row' = [row EXCEPT !.owner = owner]
    /\ End(c, [type |-> "assigned", to |-> owner])
    /\ UNCHANGED overtaken

(* assign, set_due_date                                                    *)
Assign(c, owner) ==
    Write(c, [row EXCEPT !.owner = owner], [type |-> "assigned", to |-> owner])

SetDueDate(c, due) ==
    Write(c, [row EXCEPT !.due = due], [type |-> "due_date", to |-> due])

(* set_root_cause: the event does not name it.                             *)
SetRootCause(c, cause) ==
    Write(c, [row EXCEPT !.cause = cause], [type |-> "root_cause"])

(* update_severity: the due date is computed again, which the event does   *)
(* not say.                                                                *)
UpdateSeverity(c, severity) ==
    /\ Loaded(c)
    /\ \E due \in Values \cup {None} :
          Write(c, [row EXCEPT !.severity = severity, !.due = due],
                [type |-> "severity", from |-> session[c].read.severity, to |-> severity])

(* The evidence read, merged with the new, replaces the evidence; the      *)
(* event names the keys.                                                   *)
AddEvidence(c, key) ==
    /\ Loaded(c)
    /\ Write(c, [row EXCEPT !.evidence = session[c].read.evidence \cup {key}],
             [type |-> "evidence", key |-> key])

Resolvable(c) == Loaded(c) /\ "resolved" \in NextStatus(session[c].read.status)

Resolved(how) == [type |-> "resolved", to |-> how]

(* Both writes of resolve, which may name a root cause; the event names    *)
(* only the resolution.                                                    *)
Resolve(c, how, cause) ==
    /\ Resolvable(c)
    /\ Matches(c)
    /\ row' = [row EXCEPT !.status = "resolved", !.resolution = how,
                          !.cause = IF cause = None THEN row.cause ELSE cause,
                          !.version = session[c].read.version + 4]
    /\ End(c, Resolved(how))
    /\ UNCHANGED overtaken

(* The first write of resolve matches no row, which resolve does not see.  *)
ResolveMisses(c, how) ==
    /\ Resolvable(c)
    /\ ~Matches(c)
    /\ session' = [session EXCEPT ![c] = [op |-> "missed", to |-> how, read |-> session[c].read]]
    /\ UNCHANGED <<row, timeline, overtaken>>

(* The flush then sets the version to two more than was read, so that the  *)
(* second write finds the version it names.                                *)
ResolveMissed(c) ==
    /\ session[c].op = "missed"
    /\ row' = [row EXCEPT !.status = "resolved", !.version = session[c].read.version + 4]
    /\ End(c, Resolved(session[c].to))
    /\ overtaken' = TRUE

(* A ConflictError, or the request fails.                                  *)
RollBack(c) ==
    /\ session[c] # Idle
    /\ session' = [session EXCEPT ![c] = Idle]
    /\ UNCHANGED <<row, timeline, overtaken>>

Next ==
    \E c \in Sessions :
        \/ Create(c)
        \/ CommitCreate(c)
        \/ Load(c)
        \/ \E to \in Statuses : Move(c, to)
        \/ \E owner \in Values \cup {None} : Assign(c, owner)
        \/ \E due \in Values \cup {None} : SetDueDate(c, due)
        \/ \E cause \in Values : SetRootCause(c, cause)
        \/ \E severity \in Severities : UpdateSeverity(c, severity)
        \/ \E key \in Items : AddEvidence(c, key)
        \/ \E how \in Outcomes, cause \in Values \cup {None} : Resolve(c, how, cause)
        \/ \E how \in Outcomes : ResolveMisses(c, how)
        \/ ResolveMissed(c)
        \/ RollBack(c)

Spec == Init /\ [][Next]_vars

-----------------------------------------------------------------------------
(* Requests that have read the exception.                                  *)
Readers == {c \in Sessions : session[c].op \notin {"idle", "create"}}

(* No stale write: unless a resolve was overtaken, a request that finds    *)
(* the version it read finds all that it read, whatever came in between.   *)
CurrentIsFresh ==
    ~overtaken => \A c \in Readers : session[c].read.version = row.version => session[c].read = row

(* What is known of the row after one more event: the status, severity and *)
(* resolution, and what the columns may hold whose values events do not    *)
(* always tell.                                                            *)
Effect(k, e) ==
    CASE e.type = "created"  -> [status |-> "open", severity |-> e.severity, resolution |-> None,
                                 owner |-> Values \cup {None}, due |-> {e.due}, cause |-> {None},
                                 evidence |-> SUBSET Items]
      [] e.type = "moved"    -> [k EXCEPT !.status = e.to]
      [] e.type = "reopened" -> [k EXCEPT !.status = "open"]
      [] e.type = "assigned" -> [k EXCEPT !.owner = {e.to}]
      [] e.type = "due_date" -> [k EXCEPT !.due = {e.to}]
      [] e.type = "root_cause" -> [k EXCEPT !.cause = Values]
      [] e.type = "severity" -> [k EXCEPT !.severity = e.to, !.due = Values \cup {None}]
      [] e.type = "evidence" -> [k EXCEPT !.evidence = {keys \cup {e.key} : keys \in @}]
      [] e.type = "resolved" -> [k EXCEPT !.status = "resolved", !.resolution = e.to, !.cause = @ \cup Values]

(* What is known after each prefix of the timeline.                        *)
Replayed ==
    LET R[n \in 0 .. Len(timeline)] == IF n = 0 THEN None ELSE Effect(R[n - 1], timeline[n])
    IN R

(* What an event says of what was before it, and the lifecycle, fit what   *)
(* is known before (k) and after it (l).                                   *)
Follows(k, e, l) ==
    /\ e.type = "reopened" => e.from = k.status
    /\ e.type = "severity" => e.from = k.severity
    /\ e.type \in {"moved", "reopened", "resolved"} => l.status \in NextStatus(k.status)

(* The timeline is true: unless a resolve was overtaken, replaying the     *)
(* events of an exception gives its status, severity and resolution and    *)
(* allows its owner, due date, root cause and evidence (exactly, where the *)
(* last event about them records a value), and each event follows from     *)
(* those before it and moves the exception as the lifecycle allows.        *)
TimelineReplays ==
    ~overtaken /\ row # None =>
        /\ \A f \in {"status", "severity", "resolution"} : row[f] = Replayed[Len(timeline)][f]
        /\ \A f \in {"owner", "due", "cause", "evidence"} : row[f] \in Replayed[Len(timeline)][f]
        /\ \A n \in 2 .. Len(timeline) : Follows(Replayed[n - 1], timeline[n], Replayed[n])
=============================================================================
