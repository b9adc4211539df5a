---------------------------- MODULE Communications ----------------------------
(***************************************************************************)
(* Messages of the communications domain: sending at once, scheduling,     *)
(* sending a scheduled message before its time, retrying failed            *)
(* deliveries, editing, deleting and reading, and the periodic job that    *)
(* dispatches the schedules that are due, on several workers at once.      *)
(*                                                                         *)
(* A session delivers from the copies it loaded, commits when a message is *)
(* delivered and advances its schedule in the transaction after that.      *)
(***************************************************************************)
EXTENDS Integers, FiniteSets

CONSTANTS
    Messages,
    Recipients,     \* of every message, on one channel each
    Occurrences,    \* how often a schedule recurs after the first time
    Unreliable,     \* recipients a delivery may fail for
    Workers,        \* run communications.scheduled, one job after another
    Clients,        \* requests; each runs at most once
    Given,          \* statuses a client gives a message by hand: any text
    MaxCrashes,     \* bound on sessions that die
    NoValue

ASSUME CommunicationsAssumption ==
    /\ Occurrences \in [Messages -> Nat]
    /\ Unreliable \subseteq Recipients
    /\ Workers \cap Clients = {}
    /\ MaxCrashes \in Nat
    /\ NoValue \notin Messages \cup {"sent", "failed"}
    /\ {"none", "deleted"} \cap Given = {}   \* marks of no row

VARIABLES
    message,        \* the message with its schedule
    recipient,      \* status of its recipient rows
    notified,       \* notifications committed for each of them
    session,
    crashes,
    contested,      \* messages two sessions had loaded at one time
    patched,        \* messages whose status was given by hand since they were delivered
    cut             \* messages whose delivery ended after its first commit

mailVars == <<message, recipient, notified, session, crashes, contested, patched, cut>>

Sessions == Workers \cup Clients
Unwritten == [r \in Recipients |-> NoValue]
Fresh == [pc |-> "idle", kind |-> "none", copy |-> <<>>, at |-> NoValue,
          touched |-> FALSE, wrote |-> Unwritten, outcome |-> "none", advance |-> NoValue]
Done == [Fresh EXCEPT !.pc = "done"]

Row(m, status, schedule) ==
    [status |-> status, schedule |-> schedule, due |-> FALSE, left |-> Occurrences[m]]

(* A message is yet to be created or is scheduled already.                 *)
MailInit ==
    /\ \E scheduled \in SUBSET Messages : message = [m \in Messages |->
            IF m \in scheduled THEN Row(m, "scheduled", "pending") ELSE Row(m, "none", "none")]
    /\ recipient = [m \in Messages |-> [r \in Recipients |-> "pending"]]
    /\ notified = [m \in Messages |-> [r \in Recipients |-> 0]]
    /\ session = [s \in Sessions |-> Fresh]
    /\ crashes = 0 /\ contested = {} /\ patched = {} /\ cut = {}

Exists(m) == message[m].status \notin {"none", "deleted"}
Due == {m \in Messages : message[m].schedule = "pending" /\ message[m].due}

(* What a session has in hand: the messages it loaded and is not done with.*)
Load(m) == [row |-> message[m], recipients |-> recipient[m]]
InHand(s) == DOMAIN session[s].copy
Overlap(s, M) == contested' = contested \cup {m \in M : \E t \in Sessions \ {s} : m \in InHand(t)}

-----------------------------------------------------------------------------
(* Row locks, held until the session's next commit.                        *)
LocksMessage(t, m)      == session[t].at = m /\ session[t].touched
LocksRecipient(t, m, r) == session[t].at = m /\ session[t].wrote[r] # NoValue
LocksSchedule(t, m)     == session[t].advance # NoValue /\ session[t].advance.of = m

(* Recipients that still get the message in this delivery, and a delivery  *)
(* that does not look whether it was sent before.                          *)
RemainingUnread(s) == {r \in Recipients : /\ session[s].copy[session[s].at].recipients[r] # "read"
                                          /\ session[s].wrote[r] = NoValue}
Remaining(s) == {r \in Recipients : /\ session[s].copy[session[s].at].recipients[r] = "pending"
                                    /\ session[s].wrote[r] = NoValue}

Outcomes(s) == [r \in Recipients |->
    IF session[s].wrote[r] # NoValue THEN session[s].wrote[r]
    ELSE session[s].copy[session[s].at].recipients[r]]

(* The failed recipients a retry resets: the session writes a row where    *)
(* its copy is not already pending.                                        *)
Failed(m) == {r \in Recipients : recipient[m][r] = "failed"}
Resets(s) == {r \in Failed(session[s].at) :
                 session[s].copy[session[s].at].recipients[r] # "pending"}

(* The status _deliver gives the message, from the session's copies, and   *)
(* one that forgets partial deliveries.                                    *)
VerdictAllOrNothing(s) ==
    IF \A r \in Recipients : Outcomes(s)[r] = "failed" THEN "failed" ELSE "sent"
DeliveryVerdict(s) ==
    LET failed == {r \in Recipients : Outcomes(s)[r] = "failed"} IN
    IF failed = Recipients THEN "failed" ELSE IF failed # {} THEN "partial" ELSE "sent"

(* The status of the session's message object before the verdict.          *)
Assumed(s) == IF session[s].kind = "retry"
              THEN session[s].copy[session[s].at].row.status ELSE "sent"

WaitsFor(s, t) ==
    LET m == session[s].at IN
    /\ s # t /\ m # NoValue
    /\ \/ /\ session[s].pc = "opened" /\ session[s].kind = "send_now"
          /\ LocksMessage(t, m) \/ LocksSchedule(t, m)
       \/ /\ session[s].pc = "opened" /\ session[s].kind = "retry"
          /\ \E r \in Resets(s) : LocksRecipient(t, m, r)
       \/ session[s].pc = "opened" /\ session[s].kind = "patch" /\ LocksMessage(t, m)
       \/ session[s].pc = "touch" /\ LocksMessage(t, m)
       \/ /\ session[s].pc = "deliver" /\ Remaining(s) # {}
          /\ \A r \in Remaining(s) : \E u \in Sessions \ {s} : LocksRecipient(u, m, r)
          /\ \E r \in Remaining(s) : LocksRecipient(t, m, r)
       \/ /\ session[s].pc = "deliver" /\ Remaining(s) = {}
          /\ DeliveryVerdict(s) # Assumed(s) /\ LocksMessage(t, m)
       \/ session[s].pc = "advance" /\ LocksSchedule(t, m)

Blocked(s) == \E t \in Sessions : WaitsFor(s, t)

(* A session ends early: what it has not committed is rolled back.  The    *)
(* worker goes on polling; a request has failed.                           *)
Rollback(s) ==
    /\ session' = [session EXCEPT ![s] = IF s \in Workers THEN Fresh ELSE Done]
    /\ cut' = IF s \in Clients /\ session[s].pc = "deliver" THEN cut \cup {session[s].at} ELSE cut
    /\ UNCHANGED <<message, recipient, notified, contested, patched>>

(* The message was deleted: an UPDATE of its rows raises StaleDataError.   *)
MeetDeleted(s) ==
    /\ session[s].at # NoValue /\ ~Exists(session[s].at)
    /\ Rollback(s)
    /\ UNCHANGED crashes

BreakDeadlock(s) ==
    /\ \E S \in SUBSET Sessions : s \in S /\ \A t \in S : \E u \in S : WaitsFor(t, u)
    /\ Rollback(s)
    /\ UNCHANGED crashes

Crash(s) ==
    /\ session[s].pc \notin {"idle", "done"}
    /\ crashes < MaxCrashes
    /\ crashes' = crashes + 1
    /\ Rollback(s)

-----------------------------------------------------------------------------
(* _deliver, shared by all sessions.                                       *)

(* One recipient: the provider is called, in-app by inserting a            *)
(* notification, and the recipient row updated.                            *)
DeliverTo(s, r) ==
    LET m == session[s].at IN
    /\ session[s].pc = "deliver" /\ Exists(m)
    /\ r \in Remaining(s)
    /\ \A t \in Sessions \ {s} : ~LocksRecipient(t, m, r)
    /\ \E result \in IF r \in Unreliable THEN {"sent", "failed"} ELSE {"sent"} :
          session' = [session EXCEPT ![s].wrote[r] = result]
    /\ UNCHANGED <<message, recipient, notified, crashes, contested, patched, cut>>

(* The schedule a dispatch has advanced since its last commit.  A          *)
(* recurring schedule keeps the status it has.                             *)
Advanced(a) ==
    IF a = NoValue THEN message
    ELSE [message EXCEPT ![a.of] =
            IF a.schedule = "pending"
            THEN [message[a.of] EXCEPT !.due = FALSE, !.left = a.left]
            ELSE [message[a.of] EXCEPT !.schedule = a.schedule]]

(* The verdict is written where it changes the session's copy, and the     *)
(* transaction commits.                                                    *)
FinishDelivery(s) ==
    LET m == session[s].at
        verdict == DeliveryVerdict(s)
        writes == verdict # session[s].copy[m].row.status
                  \/ verdict # Assumed(s)
    IN
    /\ session[s].pc = "deliver" /\ Exists(m)
    /\ Remaining(s) = {} /\ ~Blocked(s)
    /\ message' = [Advanced(session[s].advance) EXCEPT ![m].status = IF writes THEN verdict ELSE @]
    /\ recipient' = [recipient EXCEPT ![m] = [r \in Recipients |->
            IF session[s].wrote[r] # NoValue THEN session[s].wrote[r] ELSE @[r]]]
    /\ notified' = [notified EXCEPT ![m] = [r \in Recipients |->
            IF session[s].wrote[r] = "sent" THEN @[r] + 1 ELSE @[r]]]
    /\ patched' = patched \ {m}
    /\ session' = [session EXCEPT ![s] =
            IF s \in Clients THEN Done
            ELSE [session[s] EXCEPT !.pc = "advance", !.touched = FALSE, !.wrote = Unwritten,
                                    !.outcome = verdict, !.advance = NoValue]]
    /\ UNCHANGED <<crashes, contested, cut>>

-----------------------------------------------------------------------------
(* dispatch_due_schedules, as the job of some period runs it.              *)

(* A dispatch that skips messages already sent leaves a schedule behind    *)
(* whose worker died before advancing it.                                  *)
OpenDispatchUnsent(w) ==
    LET unsent == {m \in Due : message[m].status = "scheduled"} IN
    /\ session[w].pc = "idle"
    /\ unsent # {}
    /\ session' = [session EXCEPT ![w] =
            [Fresh EXCEPT !.pc = "next", !.kind = "dispatch", !.copy = [m \in unsent |-> Load(m)]]]
    /\ Overlap(w, unsent)
    /\ UNCHANGED <<message, recipient, notified, crashes, patched, cut>>

OpenDispatch(w) ==
    /\ session[w].pc = "idle"
    /\ Due # {}
    /\ session' = [session EXCEPT ![w] =
            [Fresh EXCEPT !.pc = "next", !.kind = "dispatch", !.copy = [m \in Due |-> Load(m)]]]
    /\ Overlap(w, Due)
    /\ UNCHANGED <<message, recipient, notified, crashes, patched, cut>>

NextMessage(w) ==
    /\ session[w].pc = "next"
    /\ \E m \in InHand(w) : session' = [session EXCEPT ![w].pc = "touch", ![w].at = m]
    /\ UNCHANGED <<message, recipient, notified, crashes, contested, patched, cut>>

(* The first flush writes the message as sent and keeps its row locked.    *)
TouchMessage(w) ==
    /\ session[w].pc = "touch" /\ Exists(session[w].at)
    /\ ~Blocked(w)
    /\ session' = [session EXCEPT ![w].pc = "deliver", ![w].touched = TRUE]
    /\ UNCHANGED <<message, recipient, notified, crashes, contested, patched, cut>>

(* After the commit of _deliver: a recurring schedule moves on, a one-shot *)
(* schedule is completed or has failed.  Committed with what comes next.   *)
AdvanceSchedule(w) ==
    LET m == session[w].at
        left == session[w].copy[m].row.left
    IN
    /\ session[w].pc = "advance" /\ Exists(m)
    /\ ~Blocked(w)
    /\ session' = [session EXCEPT ![w] =
            [session[w] EXCEPT !.pc = "next", !.at = NoValue,
                      !.copy = [k \in InHand(w) \ {m} |-> session[w].copy[k]],
                      !.advance = [of |-> m,
                                   left |-> IF left > 0 THEN left - 1 ELSE 0,
                                   schedule |-> IF left > 0 THEN "pending"
                                                ELSE IF session[w].outcome = "failed" THEN "failed"
                                                ELSE "completed"]]]
    /\ UNCHANGED <<message, recipient, notified, crashes, contested, patched, cut>>

FinishDispatch(w) ==
    /\ session[w].pc = "next" /\ InHand(w) = {}
    /\ message' = Advanced(session[w].advance)
    /\ session' = [session EXCEPT ![w] = Fresh]
    /\ UNCHANGED <<recipient, notified, crashes, contested, patched, cut>>

-----------------------------------------------------------------------------
(* Requests.                                                               *)

(* send_message with a time to come.                                       *)
Schedule(c, m) ==
    /\ session[c].pc = "idle" /\ message[m].status = "none"
    /\ message' = [message EXCEPT ![m].status = "scheduled", ![m].schedule = "pending"]
    /\ session' = [session EXCEPT ![c] = Done]
    /\ UNCHANGED <<recipient, notified, crashes, contested, patched, cut>>

(* send_message without one: the message is committed as sent first.       *)
Send(c, m) ==
    /\ session[c].pc = "idle" /\ message[m].status = "none"
    /\ message' = [message EXCEPT ![m].status = "sent"]
    /\ session' = [session EXCEPT ![c] =
            [Fresh EXCEPT !.pc = "deliver", !.kind = "send", !.at = m,
                          !.copy = [k \in {m} |-> [row |-> message'[m], recipients |-> recipient[m]]]]]
    /\ UNCHANGED <<recipient, notified, crashes, contested, patched, cut>>

(* get_message of send_scheduled_now, retry_delivery and update_message.   *)
OpenRequest(c, kind, m) ==
    /\ session[c].pc = "idle" /\ Exists(m)
    /\ session' = [session EXCEPT ![c] =
            [Fresh EXCEPT !.pc = "opened", !.kind = kind, !.at = m, !.copy = [k \in {m} |-> Load(m)]]]
    /\ Overlap(c, {m})
    /\ UNCHANGED <<message, recipient, notified, crashes, patched, cut>>

(* send_scheduled_now, to its first commit.                                *)
SendNow(c) ==
    LET m == session[c].at
        copy == session[c].copy[m].row
    IN
    /\ session[c].pc = "opened" /\ session[c].kind = "send_now" /\ Exists(m)
    /\ ~Blocked(c)
    /\ message' = [message EXCEPT ![m] =
            [message[m] EXCEPT
                !.status = IF copy.status # "sent" THEN "sent" ELSE message[m].status,
                !.schedule = IF copy.schedule \notin {"none", "completed"} THEN "completed"
                             ELSE message[m].schedule]]
    /\ session' = [session EXCEPT ![c].pc = "deliver", ![c].copy[m].row.status = "sent"]
    /\ UNCHANGED <<recipient, notified, crashes, contested, patched, cut>>

(* retry_delivery, to its first commit.                                    *)
RetryFailed(c) ==
    LET m == session[c].at
        reset(statuses, R) == [r \in Recipients |-> IF r \in R THEN "pending" ELSE statuses[r]]
    IN
    /\ session[c].pc = "opened" /\ session[c].kind = "retry" /\ Exists(m)
    /\ ~Blocked(c)
    /\ recipient' = [recipient EXCEPT ![m] = reset(@, Resets(c))]
    /\ session' = [session EXCEPT ![c].pc = "deliver", ![c].copy[m].recipients = reset(@, Failed(m))]
    /\ UNCHANGED <<message, notified, crashes, contested, patched, cut>>

(* update_message: the status becomes what the client says, where it is    *)
(* not the copy's; a PATCH of other columns keeps it.                      *)
UpdateMessage(c, status) ==
    LET m == session[c].at
        writes == status # session[c].copy[m].row.status
    IN
    /\ session[c].pc = "opened" /\ session[c].kind = "patch" /\ Exists(m)
    /\ ~Blocked(c)
    /\ message' = [message EXCEPT ![m].status = IF writes THEN status ELSE @]
    /\ patched' = IF writes THEN patched \cup {m} ELSE patched
    /\ session' = [session EXCEPT ![c] = Done]
    /\ UNCHANGED <<recipient, notified, crashes, contested, cut>>

(* delete_message, with its recipients and its schedule.                   *)
DeleteMessage(c, m) ==
    /\ session[c].pc = "idle" /\ Exists(m)
    /\ \A t \in Sessions : /\ ~LocksMessage(t, m) /\ ~LocksSchedule(t, m)
                           /\ \A r \in Recipients : ~LocksRecipient(t, m, r)
    /\ message' = [message EXCEPT ![m] = Row(m, "deleted", "none")]
    /\ recipient' = [recipient EXCEPT ![m] = [r \in Recipients |-> "pending"]]
    /\ notified' = [notified EXCEPT ![m] = [r \in Recipients |-> 0]]
    /\ session' = [session EXCEPT ![c] = Done]
    /\ UNCHANGED <<crashes, contested, patched, cut>>

(* mark_as_read: the inbox shows a recipient its rows of any status.       *)
MarkAsRead(c, m, r) ==
    /\ session[c].pc = "idle" /\ Exists(m) /\ recipient[m][r] # "read"
    /\ \A t \in Sessions : ~LocksRecipient(t, m, r)
    /\ recipient' = [recipient EXCEPT ![m][r] = "read"]
    /\ session' = [session EXCEPT ![c] = Done]
    /\ UNCHANGED <<message, notified, crashes, contested, patched, cut>>

(* The scheduled time comes.                                               *)
ComeDue(m) ==
    /\ message[m].schedule = "pending" /\ ~message[m].due
    /\ message' = [message EXCEPT ![m].due = TRUE]
    /\ UNCHANGED <<recipient, notified, session, crashes, contested, patched, cut>>

-----------------------------------------------------------------------------
Patch(c) == session[c].at # NoValue /\
    \E status \in Given \cup {session[c].copy[session[c].at].row.status} : UpdateMessage(c, status)

Step(s) ==
    \/ \E r \in Recipients : DeliverTo(s, r)
    \/ FinishDelivery(s)
    \/ MeetDeleted(s) \/ BreakDeadlock(s)
    \/ s \in Workers /\ (\/ OpenDispatch(s) \/ NextMessage(s) \/ TouchMessage(s)
                         \/ AdvanceSchedule(s) \/ FinishDispatch(s))
    \/ s \in Clients /\ (SendNow(s) \/ RetryFailed(s) \/ Patch(s))

Ask(c, m) == \/ Schedule(c, m) \/ Send(c, m) \/ DeleteMessage(c, m)
             \/ \E r \in Recipients : MarkAsRead(c, m, r)
             \/ \E kind \in {"send_now", "retry", "patch"} : OpenRequest(c, kind, m)

MailNext ==
    \/ \E s \in Sessions : Step(s) \/ Crash(s)
    \/ \E c \in Clients, m \in Messages : Ask(c, m)
    \/ \E m \in Messages : ComeDue(m)

MailSpec == MailInit /\ [][MailNext]_mailVars

(* A job is enqueued every five minutes and claimed by some worker, a      *)
(* request that has begun goes on, and time passes.                        *)
FairSpec ==
    /\ MailSpec
    /\ \A s \in Sessions : WF_mailVars(Step(s))
    /\ \A m \in Messages : WF_mailVars(ComeDue(m))

-----------------------------------------------------------------------------
(* A recipient is notified of a message once, whichever of dispatch, send  *)
(* now and retry gets to it, through failures, crashes, deadlocks and      *)
(* schedules that are dispatched again, unless two sessions had the        *)
(* message in hand at one time (dispatch_due_schedules: "a worker restart  *)
(* or duplicate job execution cannot double-deliver").                     *)
NotifiedOnce ==
    \A m \in Messages \ contested, r \in Recipients : Exists(m) =>
        /\ notified[m][r] <= 1
        /\ recipient[m][r] = "sent" => notified[m][r] = 1
        /\ recipient[m][r] \in {"pending", "failed"} => notified[m][r] = 0

(* The status of a message nobody is working on tells what became of its   *)
(* recipients, unless sessions overlapped on it, one died after it had     *)
(* committed the message as sent, or a client gave it the status it has: a *)
(* delivery after that, by dispatch, send now or retry, puts it right.     *)
StatusTells ==
    \A m \in Messages \ (contested \cup cut \cup patched) :
        (\A s \in Sessions : m \notin InHand(s)) =>
            LET have(statuses) == \E r \in Recipients : recipient[m][r] \in statuses IN
            CASE message[m].status = "scheduled" -> ~have({"sent", "failed"})
              [] message[m].status = "sent"      -> ~have({"pending", "failed"})
              [] message[m].status = "failed"    -> ~have({"pending", "sent"})
              [] message[m].status = "partial"   -> ~have({"pending"})
              [] OTHER                           -> TRUE

(* A schedule that is due is dispatched and nobody is left waiting,        *)
(* whatever workers die, lock each other out or run at the same time,      *)
(* unless a request died after it had taken the message over.              *)
DueIsDispatched ==
    \A m \in Messages :
        m \in Due ~> \/ m \notin Due /\ \A r \in Recipients : recipient[m][r] # "pending"
                     \/ m \in cut \/ ~Exists(m)
=============================================================================
