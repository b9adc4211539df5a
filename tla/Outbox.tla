------------------------------- MODULE Outbox -------------------------------
(***************************************************************************)
(* The transactional outbox: services that write an event in the           *)
(* transaction of the change it announces, and the workers that deliver    *)
(* the events.                                                             *)
(*                                                                         *)
(* A worker claims, delivers and settles a whole batch in one transaction: *)
(* until it commits, its claims are invisible, their rows locked, and all  *)
(* of it is undone if the worker dies.                                     *)
(***************************************************************************)
EXTENDS Integers, FiniteSets

CONSTANTS
    Events,         \* event ids
    Producers,      \* service calls that publish; each runs at most once
    EventOf,        \* the (deterministic) event id a call publishes
    Workers,
    Age,            \* place of an event in created_at order
    BatchSize,
    MaxAttempts,
    Unroutable,     \* events for a user that does not exist
    InAppLast,      \* whether a process may come to deliver in-app last
    MaxCrashes,     \* bound on worker deaths
    None

ASSUME OutboxAssumption ==
    /\ IsFiniteSet(Events) /\ IsFiniteSet(Workers)
    /\ EventOf \in [Producers -> Events]
    /\ Age \in [Events -> Nat]
    /\ BatchSize \in Nat \ {0} /\ MaxAttempts \in Nat \ {0}
    /\ Unroutable \subseteq Events
    /\ InAppLast \subseteq BOOLEAN /\ InAppLast # {}
    /\ MaxCrashes \in Nat
    /\ None \notin Events

VARIABLES
    rows,       \* committed outbox_events rows
    notified,   \* committed in-app notifications of each event
    unread,     \* events with an unread notification
    producer,   \* where each publishing call is
    worker,     \* what each worker is doing
    staged,     \* what its transaction has done to the events it claimed
    crashes

vars == <<rows, notified, unread, producer, worker, staged, crashes>>
published == <<rows, notified, unread>>

(* The events a worker's transaction has claimed and settled.              *)
Settled(w) == {e \in Events : staged[w][e] # "none"}
Nothing    == [e \in Events |-> "none"]

Init ==
    /\ rows = [e \in Events |-> [status |-> "none", attempts |-> 0, due |-> TRUE]]
    /\ notified = [e \in Events |-> 0]
    /\ unread = {}
    /\ producer = [p \in Producers |-> "idle"]
    /\ worker \in [Workers -> [pc : {"polling"}, event : {None}, inAppLast : InAppLast]]
    /\ staged = [w \in Workers |-> Nothing]
    /\ crashes = 0

-----------------------------------------------------------------------------
(* Publishing.  enqueue first looks for a committed row with the event id. *)
Enqueue(p) ==
    /\ producer[p] = "idle"
    /\ producer' = [producer EXCEPT ![p] =
            IF rows[EventOf[p]].status = "none" THEN "insert" ELSE "skip"]
    /\ UNCHANGED <<published, worker, staged, crashes>>

(* The INSERT waits for an uncommitted row with the same id.  When that    *)
(* one committed, the flush fails; the caller swallows the error, but its  *)
(* session is of no more use.                                              *)
InsertEvent(p) ==
    /\ producer[p] = "insert"
    /\ \A q \in Producers : ~(producer[q] = "inserted" /\ EventOf[q] = EventOf[p])
    /\ producer' = [producer EXCEPT ![p] =
            IF rows[EventOf[p]].status = "none" THEN "inserted" ELSE "poisoned"]
    /\ UNCHANGED <<published, worker, staged, crashes>>

(* Broken variant: the event is written after the change has committed.    *)
CommitThenPublish(p) ==
    /\ producer[p] \in {"skip", "inserted"}
    /\ producer' = [producer EXCEPT ![p] = "committed"]
    /\ rows' \in {rows, [rows EXCEPT ![EventOf[p]].status =
                            IF @ = "none" THEN "pending" ELSE @]}
    /\ UNCHANGED <<notified, unread, worker, staged, crashes>>

(* The caller's transaction commits the change, and the event with it.     *)
CommitChange(p) ==
    /\ producer[p] \in {"skip", "inserted"}
    /\ producer' = [producer EXCEPT ![p] = "committed"]
    /\ rows' = IF producer[p] = "skip" THEN rows
               ELSE [rows EXCEPT ![EventOf[p]].status = "pending"]
    /\ UNCHANGED <<notified, unread, worker, staged, crashes>>

(* The commit of a poisoned session fails and the change is rolled back;   *)
(* so it is when the request dies.                                         *)
RollBackChange(p) ==
    /\ producer[p] \in {"insert", "skip", "inserted", "poisoned"}
    /\ producer' = [producer EXCEPT ![p] = "rolled_back"]
    /\ UNCHANGED <<published, worker, staged, crashes>>

-----------------------------------------------------------------------------
(* Delivering.                                                             *)

Candidates(w) == {e \in Events \ Settled(w) : rows[e].status = "pending" /\ rows[e].due}

Full(w) == Cardinality(Settled(w)) >= BatchSize

(* claim_next, the subquery: the oldest due event.  It does not see the    *)
(* uncommitted claims of other workers.                                    *)
PickEvent(w) ==
    /\ worker[w].pc = "polling"
    /\ ~Full(w)
    /\ \E e \in Candidates(w) :
          /\ \A f \in Candidates(w) : Age[e] <= Age[f]
          /\ worker' = [worker EXCEPT ![w].pc = "claiming", ![w].event = e]
    /\ UNCHANGED <<published, producer, staged, crashes>>

(* The rows locked by the transaction of w.                                *)
Locked(w) == Settled(w) \cup (IF worker[w].pc = "delivering" THEN {worker[w].event} ELSE {})

WaitsFor(w, v) == v # w /\ worker[w].pc = "claiming" /\ worker[w].event \in Locked(v)

(* Broken variant: the status is not checked again on the locked row.      *)
ClaimUnchecked(w) ==
    /\ worker[w].pc = "claiming"
    /\ \A v \in Workers : ~WaitsFor(w, v)
    /\ worker' = [worker EXCEPT ![w].pc = "delivering"]
    /\ UNCHANGED <<published, producer, staged, crashes>>

(* claim_next, the UPDATE: it waits for the row lock and checks again that *)
(* the event is pending; the loser's poll ends there.                      *)
ClaimEvent(w) ==
    LET e == worker[w].event IN
    /\ worker[w].pc = "claiming"
    /\ \A v \in Workers : ~WaitsFor(w, v)
    /\ worker' = IF rows[e].status = "pending"
                 THEN [worker EXCEPT ![w].pc = "delivering"]
                 ELSE [worker EXCEPT ![w].pc = "ending", ![w].event = None]
    /\ UNCHANGED <<published, producer, staged, crashes>>

(* The event is settled in the transaction and the loop goes on.           *)
Stage(w, result) ==
    /\ staged' = [staged EXCEPT ![w][worker[w].event] = result]
    /\ worker' = [worker EXCEPT ![w].pc = "polling", ![w].event = None]

(* The handlers ran: the notification is written unless an unread one is   *)
(* there, and the row is completed.                                        *)
Deliver(w) ==
    LET e == worker[w].event IN
    /\ worker[w].pc = "delivering"
    /\ e \notin Unroutable
    /\ Stage(w, IF e \in unread THEN "repeated" ELSE "completed")
    /\ UNCHANGED <<published, producer, crashes>>

(* Broken variant: the handler's savepoint is not rolled back.             *)
DeliverFailsKeepingWrites(w) ==
    LET e == worker[w].event IN
    /\ worker[w].pc = "delivering"
    /\ e \in Unroutable => ~worker[w].inAppLast
    /\ \/ Stage(w, "failed") \/ Stage(w, "failed_noted")
    /\ UNCHANGED <<published, producer, crashes>>

(* A handler raised: its savepoint is rolled back and fail() is called.    *)
(* The in-app insert for a user that does not exist fails and its error is *)
(* swallowed; the query for the next channel then raises.                  *)
DeliverFails(w) ==
    LET e == worker[w].event IN
    /\ worker[w].pc = "delivering"
    /\ e \in Unroutable => ~worker[w].inAppLast
    /\ Stage(w, "failed")
    /\ UNCHANGED <<published, producer, crashes>>

(* The transaction of w is rolled back: its batch is as if never claimed.  *)
RollBackBatch(w) ==
    /\ staged' = [staged EXCEPT ![w] = Nothing]
    /\ UNCHANGED <<published, producer>>

(* The swallowed insert error was the last channel's: the handler returns, *)
(* and complete() and fail() raise on the unusable session.                *)
DeliverPoisoned(w) ==
    LET e == worker[w].event IN
    /\ worker[w].pc = "delivering"
    /\ e \in Unroutable
    /\ worker[w].inAppLast
    /\ worker' = [worker EXCEPT ![w].pc = "polling", ![w].event = None]
    /\ RollBackBatch(w)
    /\ UNCHANGED crashes

(* Broken variant: a failure does not count.                               *)
AfterFailureUncounted(attempts) ==
    [status |-> "pending", attempts |-> attempts - 1, due |-> FALSE]

(* fail: a failed row is queued again with a delay, or dead-lettered.      *)
AfterFailure(attempts) ==
    [status |-> IF attempts >= MaxAttempts THEN "dead_letter" ELSE "pending",
     attempts |-> attempts, due |-> attempts >= MaxAttempts]

(* The batch is full, nothing is left to claim or a claim was lost: the    *)
(* transaction commits.                                                    *)
CommitBatch(w) ==
    /\ \/ worker[w].pc = "polling" /\ Settled(w) # {} /\ (Full(w) \/ Candidates(w) = {})
       \/ worker[w].pc = "ending"
    /\ rows' = [e \in Events |->
            CASE staged[w][e] \in {"completed", "repeated"} ->
                     [rows[e] EXCEPT !.status = "completed", !.attempts = @ + 1]
              [] staged[w][e] \in {"failed", "failed_noted"} ->
                     AfterFailure(rows[e].attempts + 1)
              [] OTHER -> rows[e]]
    /\ LET noted == {e \in Events : staged[w][e] \in {"completed", "failed_noted"}} IN
          /\ notified' = [e \in Events |-> notified[e] + (IF e \in noted THEN 1 ELSE 0)]
          /\ unread' = unread \cup noted
    /\ staged' = [staged EXCEPT ![w] = Nothing]
    /\ worker' = [worker EXCEPT ![w].pc = "polling"]
    /\ UNCHANGED <<producer, crashes>>

(* The worker dies or is shut down in the middle of a batch; its successor *)
(* iterates over the channels in an order of its own.                      *)
Crash(w) ==
    /\ crashes < MaxCrashes
    /\ worker[w].pc # "polling" \/ Settled(w) # {}
    /\ crashes' = crashes + 1
    /\ \E last \in InAppLast :
          worker' = [worker EXCEPT ![w] = [pc |-> "polling", event |-> None, inAppLast |-> last]]
    /\ RollBackBatch(w)

(* Workers that wait for one another: the database aborts one of them.     *)
BreakDeadlock(w) ==
    /\ \E S \in SUBSET Workers :
          /\ w \in S
          /\ \A v \in S : \E u \in S : WaitsFor(v, u)
    /\ worker' = [worker EXCEPT ![w].pc = "polling", ![w].event = None]
    /\ RollBackBatch(w)
    /\ UNCHANGED crashes

-----------------------------------------------------------------------------
(* The delay of a failed event is over.                                    *)
ComeDue(e) ==
    /\ ~rows[e].due
    /\ rows' = [rows EXCEPT ![e].due = TRUE]
    /\ UNCHANGED <<notified, unread, producer, worker, staged, crashes>>

(* The recipient reads the notification.                                   *)
MarkRead(e) ==
    /\ e \in unread
    /\ unread' = unread \ {e}
    /\ UNCHANGED <<rows, notified, producer, worker, staged, crashes>>

Publish(p) == Enqueue(p) \/ InsertEvent(p) \/ CommitChange(p) \/ RollBackChange(p)

Work(w) == \/ PickEvent(w) \/ ClaimEvent(w)
           \/ Deliver(w) \/ DeliverFails(w) \/ DeliverPoisoned(w)
           \/ CommitBatch(w)
           \/ BreakDeadlock(w)

Next ==
    \/ \E p \in Producers : Publish(p)
    \/ \E w \in Workers : Work(w) \/ Crash(w)
    \/ \E e \in Events : ComeDue(e) \/ MarkRead(e)

Spec == Init /\ [][Next]_vars

(* The worker loops poll for ever, and delays pass.  Row locks are granted *)
(* in the order of the waits: a claim that is let in again and again gets  *)
(* its turn.                                                               *)
FairSpec ==
    /\ Spec
    /\ \A w \in Workers : WF_vars(Work(w)) /\ SF_vars(ClaimEvent(w))
    /\ \A e \in Events : WF_vars(ComeDue(e))
-----------------------------------------------------------------------------
Results == {"none", "completed", "repeated", "failed", "failed_noted"}

(* Types of the variables; no event is ever tried more often than allowed. *)
TypeOK ==
    /\ rows \in [Events -> [status : {"none", "pending", "completed", "dead_letter"},
                            attempts : 0..MaxAttempts, due : BOOLEAN]]
    /\ notified \in [Events -> Nat]
    /\ unread \subseteq Events
    /\ producer \in [Producers -> {"idle", "insert", "skip", "inserted", "poisoned",
                                   "committed", "rolled_back"}]
    /\ worker \in [Workers -> [pc : {"polling", "claiming", "delivering", "ending"},
                               event : Events \cup {None}, inAppLast : BOOLEAN]]
    /\ staged \in [Workers -> [Events -> Results]]
    /\ crashes \in 0..MaxCrashes

(* An event is in the outbox if and only if a change that publishes it has *)
(* committed: none is lost with its request, none announces a change that  *)
(* was rolled back (outbox.py, "Reliable persistence").                    *)
EventIffChange ==
    \A e \in Events :
        rows[e].status # "none" <=>
            \E p \in Producers : producer[p] = "committed" /\ EventOf[p] = e

(* An event has been notified of once when its row is completed and never  *)
(* before, whatever fails, dies or is read in between: the notification    *)
(* and the completion are one commit.                                      *)
NotifiedIffCompleted ==
    \A e \in Events : notified[e] = (IF rows[e].status = "completed" THEN 1 ELSE 0)

(* The outbox implements the abstract service.  A delivery counts as an    *)
(* attempt too.                                                            *)
Promise(status) == CASE status = "none"        -> "unknown"
                     [] status = "pending"     -> "owed"
                     [] status = "completed"   -> "delivered"
                     [] status = "dead_letter" -> "given_up"

Failures(status, attempts) == IF status = "completed" THEN attempts - 1 ELSE attempts

Durable == INSTANCE DurableEvents WITH
    state    <- [e \in Events |-> Promise(rows[e].status)],
    failures <- [e \in Events |-> Failures(rows[e].status, rows[e].attempts)],
    told     <- notified

ImplementsDurable == Durable!Spec

(* Every event that was published is settled in the end: delivered, or     *)
(* dead-lettered after MaxAttempts failures ("never dropped").             *)
EveryEventSettles ==
    \A e \in Events : rows[e].status = "pending" ~> rows[e].status \in {"completed", "dead_letter"}

(* Once no process delivers in-app last, every event that was published is *)
(* settled: whatever poisoned polls, crashes, deadlocks of two batches and *)
(* failures came before, no event is starved.                              *)
SettlesUnlessInAppLast ==
    <>[](\A w \in Workers : ~worker[w].inAppLast) => EveryEventSettles

(* A service call whose only mistake is to publish an event that another   *)
(* call publishes too keeps a usable session (enqueue: "the pre-check      *)
(* avoids poisoning the caller's transaction").                            *)
DuplicatesAreHarmless == \A p \in Producers : producer[p] # "poisoned"

=============================================================================
