---------------------------- MODULE Outbox_proofs ----------------------------
(***************************************************************************)
(* Proofs about Outbox for every set of events, producers and workers, all *)
(* batch sizes and any number of attempts and crashes.                     *)
(*                                                                         *)
(* The second half proves, of Cases, that a timeline accounts for its case *)
(* and that a finding is closed and reopened with the case it became.      *)
(***************************************************************************)
EXTENDS Outbox, Cases, FiniteSetTheorems, SequenceTheorems, TLAPS

-----------------------------------------------------------------------------
OutboxRow == [status : {"none", "pending", "completed", "dead_letter"},
        attempts : 0..MaxAttempts, due : BOOLEAN]

WorkerState == [pc : {"polling", "claiming", "delivering", "ending"},
                event : Events \cup {None}, inAppLast : BOOLEAN]

(* The inductive invariant.                                                *)

(* A row has failed less often than allowed while it is pending.           *)
RowOK(e) ==
    /\ rows[e].status = "none" => rows[e].attempts = 0
    /\ rows[e].status = "pending" => rows[e].attempts < MaxAttempts

(* What a producer has seen or inserted is still so.                       *)
ProducerOK(p) ==
    /\ producer[p] = "inserted" => rows[EventOf[p]].status = "none"
    /\ producer[p] \in {"skip", "committed"} => rows[EventOf[p]].status # "none"

(* The unique index on event_id.                                           *)
InsertsExclusive ==
    \A p, q \in Producers :
        p # q /\ producer[p] = "inserted" /\ producer[q] = "inserted"
            => EventOf[p] # EventOf[q]

(* An event that a transaction has claimed stays pending, and is claimed   *)
(* by that transaction only.                                               *)
ClaimsOK ==
    /\ \A w \in Workers : \A e \in Locked(w) : rows[e].status = "pending"
    /\ \A v, w \in Workers : v # w => Locked(v) \cap Locked(w) = {}

(* A worker is about an event it has not settled, and what it has staged   *)
(* is what a pending event may come to.                                    *)
WorkerOK(w) ==
    /\ worker[w].pc \in {"claiming", "delivering"} => worker[w].event \in Events \ Settled(w)
    /\ \A e \in Events : staged[w][e] \in {"none", "completed", "failed"}

OInv ==
    /\ TypeOK
    /\ \A e \in Events : RowOK(e)
    /\ \A p \in Producers : ProducerOK(p)
    /\ InsertsExclusive
    /\ EventIffChange
    /\ ClaimsOK
    /\ \A w \in Workers : WorkerOK(w)
    /\ \A e \in unread : rows[e].status = "completed"
    /\ NotifiedIffCompleted

-----------------------------------------------------------------------------
LEMMA InitEstablishes == Init => OInv
<1> SUFFICES ASSUME Init PROVE OInv
  OBVIOUS
<1> USE OutboxAssumption
<1>1. TypeOK
  BY DEF Init, TypeOK, Nothing, Results
<1>2. \A e \in Events : RowOK(e)
  BY DEF Init, RowOK
<1>3. (\A p \in Producers : ProducerOK(p)) /\ InsertsExclusive
  BY DEF Init, ProducerOK, InsertsExclusive
<1>4. EventIffChange /\ NotifiedIffCompleted
  BY DEF Init, EventIffChange, NotifiedIffCompleted
<1>5. \A w \in Workers : Settled(w) = {} /\ Locked(w) = {} /\ WorkerOK(w)
  BY DEF Init, Settled, Locked, Nothing, WorkerOK
<1>6. ClaimsOK
  BY <1>5 DEF ClaimsOK
<1>7. \A e \in unread : rows[e].status = "completed"
  BY DEF Init
<1> QED
  BY <1>1, <1>2, <1>3, <1>4, <1>5, <1>6, <1>7 DEF OInv

(* A step of the producers.                                                *)
LEMMA PublishPreserves ==
    ASSUME OInv, NEW p \in Producers, Publish(p)
    PROVE  OInv'
<1> USE OutboxAssumption
<1>1. CASE Enqueue(p) \/ InsertEvent(p) \/ RollBackChange(p)
  <2>0. /\ UNCHANGED <<rows, notified, unread, worker, staged, crashes>>
        /\ \E s \in {"insert", "skip", "inserted", "poisoned", "rolled_back"} :
              producer' = [producer EXCEPT ![p] = s]
    BY <1>1 DEF Enqueue, InsertEvent, RollBackChange, published
  <2>1. producer' \in [Producers -> {"idle", "insert", "skip", "inserted", "poisoned",
                                     "committed", "rolled_back"}]
    BY <2>0 DEF OInv, TypeOK
  <2>2. TypeOK'
    BY <2>0, <2>1 DEF OInv, TypeOK
  <2>3. (\A q \in Producers : ProducerOK(q))' /\ InsertsExclusive'
    BY <1>1, <2>0, <2>1 DEF OInv, TypeOK, ProducerOK, InsertsExclusive,
                            Enqueue, InsertEvent, RollBackChange
  <2>4. producer[p] # "committed" /\ producer'[p] # "committed"
    BY <1>1, <2>0 DEF OInv, TypeOK, Enqueue, InsertEvent, RollBackChange
  <2>5. EventIffChange'
    BY <2>0, <2>4 DEF OInv, TypeOK, EventIffChange
  <2>6. (\A e \in Events : RowOK(e))' /\ NotifiedIffCompleted'
        /\ (\A e \in unread : rows[e].status = "completed")'
    BY <2>0 DEF OInv, RowOK, NotifiedIffCompleted
  <2>7. ClaimsOK' /\ (\A w \in Workers : WorkerOK(w))'
    BY <2>0 DEF OInv, ClaimsOK, WorkerOK, Locked, Settled
  <2> QED
    BY <2>2, <2>3, <2>5, <2>6, <2>7 DEF OInv
<1>2. CASE CommitChange(p)
  <2> DEFINE ev == EventOf[p]
  <2>0. /\ ev \in Events
        /\ producer[p] \in {"skip", "inserted"}
        /\ producer' = [producer EXCEPT ![p] = "committed"]
        /\ UNCHANGED <<notified, unread, worker, staged, crashes>>
        /\ producer[p] = "skip" => rows' = rows
        /\ producer[p] = "inserted" => rows' = [rows EXCEPT ![ev].status = "pending"]
    BY <1>2 DEF CommitChange
  <2>1. /\ \A e \in Events : /\ rows'[e].attempts = rows[e].attempts
                             /\ rows'[e].due = rows[e].due
                             /\ e # ev => rows'[e].status = rows[e].status
        /\ rows[ev].status = "none" => producer[p] = "inserted" /\ rows'[ev].status = "pending"
        /\ rows[ev].status # "none" => producer[p] = "skip" /\ rows'[ev].status = rows[ev].status
    BY <2>0 DEF OInv, TypeOK, ProducerOK
  <2>2. TypeOK'
    <3>1. rows' \in [Events -> OutboxRow]
      <4>1. rows \in [Events -> OutboxRow]
        BY DEF OInv, TypeOK, OutboxRow
      <4>2. [rows[ev] EXCEPT !.status = "pending"] \in OutboxRow
        BY <4>1, <2>0 DEF OutboxRow
      <4> QED
        BY <4>1, <4>2, <2>0
    <3>2. producer' \in [Producers -> {"idle", "insert", "skip", "inserted", "poisoned",
                                       "committed", "rolled_back"}]
      BY <2>0 DEF OInv, TypeOK
    <3> QED
      BY <3>1, <3>2, <2>0 DEF OInv, TypeOK, OutboxRow
  <2>3. (\A e \in Events : RowOK(e))'
    BY <2>1 DEF OInv, RowOK
  <2>a. /\ \A q \in Producers : q # p => producer'[q] = producer[q]
        /\ producer'[p] = "committed" /\ producer[p] # "committed"
        /\ rows'[ev].status # "none"
        /\ \A e \in Events : rows'[e].status = "none" <=> e # ev /\ rows[e].status = "none"
    BY <2>0, <2>1 DEF OInv, TypeOK
  <2>4. (\A q \in Producers : ProducerOK(q))' /\ InsertsExclusive'
    <3>1. ASSUME NEW q \in Producers PROVE ProducerOK(q)'
      <4>0. EventOf[q] \in Events /\ ProducerOK(q)
        BY DEF OInv
      <4>1. CASE q = p
        BY <4>1, <2>a DEF ProducerOK
      <4>2. CASE q # p
        <5>1. producer[q] = "inserted" => EventOf[q] # ev
          BY <2>0, <2>a, <4>0, <4>2, <2>1 DEF OInv, InsertsExclusive, ProducerOK
        <5> QED
          BY <5>1, <4>0, <4>2, <2>a DEF ProducerOK
      <4> QED
        BY <4>1, <4>2
    <3>2. InsertsExclusive'
      BY <2>a DEF OInv, InsertsExclusive
    <3> QED
      BY <3>1, <3>2
  <2>5. EventIffChange'
    <3> SUFFICES ASSUME NEW e \in Events
                 PROVE  rows'[e].status # "none" <=>
                            \E q \in Producers : producer'[q] = "committed" /\ EventOf[q] = e
      BY DEF EventIffChange
    <3>1. CASE e = ev
      BY <3>1, <2>a
    <3>2. CASE e # ev
      BY <3>2, <2>a DEF OInv, EventIffChange
    <3> QED
      BY <3>1, <3>2
  <2>6. NotifiedIffCompleted' /\ (\A e \in unread : rows[e].status = "completed")'
    <3>1. \A e \in Events : rows'[e].status = "completed" <=> rows[e].status = "completed"
      BY <2>1
    <3>2. unread' = unread /\ notified' = notified /\ unread \subseteq Events
      BY <2>0 DEF OInv, TypeOK
    <3> QED
      BY <3>1, <3>2 DEF OInv, NotifiedIffCompleted
  <2>7. (\A w \in Workers : WorkerOK(w))'
    BY <2>0 DEF OInv, WorkerOK, Settled
  <2>8. \A w \in Workers : Locked(w)' = Locked(w) /\ Locked(w) \subseteq Events
    BY <2>0 DEF OInv, WorkerOK, Locked, Settled
  <2>9. ClaimsOK'
    BY <2>1, <2>8 DEF OInv, ClaimsOK
  <2> QED
    BY <2>2, <2>3, <2>4, <2>5, <2>6, <2>7, <2>9 DEF OInv
<1> QED
  BY <1>1, <1>2 DEF Publish

-----------------------------------------------------------------------------
(* Working on a batch.  The events that worker state m and the staged      *)
(* results S keep locked.                                                  *)
LockedBy(m, S) == {e \in Events : S[e] # "none"}
                    \cup (IF m.pc = "delivering" THEN {m.event} ELSE {})

(* A step of a worker that commits nothing.                                *)
LEMMA WorkerStep ==
    ASSUME OInv, NEW w \in Workers,
           UNCHANGED <<published, producer>>, crashes' \in 0..MaxCrashes,
           NEW m \in WorkerState, worker' = [worker EXCEPT ![w] = m],
           NEW S \in [Events -> {"none", "completed", "failed"}],
           staged' = [staged EXCEPT ![w] = S],
           m.pc \in {"claiming", "delivering"} => m.event \in Events /\ S[m.event] = "none",
           \A e \in LockedBy(m, S) :
                /\ rows[e].status = "pending"
                /\ \A v \in Workers \ {w} : e \notin Locked(v)
    PROVE  OInv'
<1>0. /\ worker \in [Workers -> WorkerState]
      /\ staged \in [Workers -> [Events -> Results]]
      /\ \A v \in Workers : v # w => worker'[v] = worker[v] /\ staged'[v] = staged[v]
      /\ worker'[w] = m /\ staged'[w] = S
  BY DEF OInv, TypeOK, WorkerState
<1>1. TypeOK'
  <2>1. S \in [Events -> Results]
    BY DEF Results
  <2>2. worker' \in [Workers -> WorkerState] /\ staged' \in [Workers -> [Events -> Results]]
    BY <1>0, <2>1
  <2> QED
    BY <2>2 DEF OInv, TypeOK, WorkerState, published
<1>2. /\ (\A e \in Events : RowOK(e))' /\ (\A p \in Producers : ProducerOK(p))'
      /\ InsertsExclusive' /\ EventIffChange' /\ NotifiedIffCompleted'
      /\ (\A e \in unread : rows[e].status = "completed")'
  BY DEF OInv, published, RowOK, ProducerOK, InsertsExclusive, EventIffChange, NotifiedIffCompleted
<1>3. /\ Locked(w)' = LockedBy(m, S)
      /\ \A v \in Workers : v # w => Locked(v)' = Locked(v)
  BY <1>0 DEF Locked, LockedBy, Settled
<1>4. ClaimsOK'
  <2>1. ASSUME NEW v \in Workers, NEW e \in Locked(v)' PROVE rows'[e].status = "pending"
    BY <2>1, <1>3 DEF OInv, ClaimsOK, published
  <2>2. ASSUME NEW u \in Workers, NEW v \in Workers, u # v
        PROVE  Locked(u)' \cap Locked(v)' = {}
    <3>1. CASE u = w
      BY <3>1, <2>2, <1>3
    <3>2. CASE v = w
      BY <3>2, <2>2, <1>3
    <3>3. CASE u # w /\ v # w
      BY <3>3, <2>2, <1>3 DEF OInv, ClaimsOK
    <3> QED
      BY <3>1, <3>2, <3>3
  <2> QED
    BY <2>1, <2>2 DEF ClaimsOK
<1>5. ASSUME NEW v \in Workers PROVE WorkerOK(v)'
  <2>1. CASE v = w
    BY <2>1, <1>0 DEF WorkerOK, Settled
  <2>2. CASE v # w
    BY <2>2, <1>0 DEF OInv, WorkerOK, Settled
  <2> QED
    BY <2>1, <2>2
<1> QED
  BY <1>1, <1>2, <1>4, <1>5 DEF OInv

(* What the updates of a worker amount to.                                 *)
LEMMA WorkerUpdate ==
    ASSUME worker \in [Workers -> WorkerState], NEW w \in Workers,
           NEW pc \in {"polling", "claiming", "delivering", "ending"},
           NEW event \in Events \cup {None}
    PROVE  LET m == [pc |-> pc, event |-> event, inAppLast |-> worker[w].inAppLast] IN
           /\ m \in WorkerState
           /\ [worker EXCEPT ![w].pc = pc, ![w].event = event] = [worker EXCEPT ![w] = m]
           /\ event = worker[w].event => [worker EXCEPT ![w].pc = pc] = [worker EXCEPT ![w] = m]
<1> DEFINE m == [pc |-> pc, event |-> event, inAppLast |-> worker[w].inAppLast]
<1>1. worker[w] \in WorkerState
  OBVIOUS
<1>2. m \in WorkerState
  BY <1>1 DEF WorkerState
<1>3. ASSUME NEW r \in WorkerState
      PROVE  /\ [r EXCEPT !.pc = pc, !.event = event]
                    = [pc |-> pc, event |-> event, inAppLast |-> r.inAppLast]
             /\ [r EXCEPT !.pc = pc]
                    = [pc |-> pc, event |-> r.event, inAppLast |-> r.inAppLast]
  <2>1. r = [pc |-> r.pc, event |-> r.event, inAppLast |-> r.inAppLast]
    BY DEF WorkerState
  <2> DEFINE a == r.pc  b == r.event  c == r.inAppLast
             s == [pc |-> a, event |-> b, inAppLast |-> c]
  <2>2. r = s
    BY <2>1
  <2>3. [s EXCEPT !.pc = pc] = [pc |-> pc, event |-> b, inAppLast |-> c]
    OBVIOUS
  <2> DEFINE t == [pc |-> pc, event |-> b, inAppLast |-> c]
  <2>4. [s EXCEPT !.pc = pc, !.event = event] = [pc |-> pc, event |-> event, inAppLast |-> c]
    <3>1. [s EXCEPT !.pc = pc, !.event = event] = [[s EXCEPT !.pc = pc] EXCEPT !.event = event]
      OBVIOUS
    <3>2. [t EXCEPT !.event = event] = [pc |-> pc, event |-> event, inAppLast |-> c]
      OBVIOUS
    <3> QED
      BY <2>3, <3>1, <3>2
  <2> QED
    BY <2>2, <2>3, <2>4
<1>4. [worker EXCEPT ![w].pc = pc, ![w].event = event] = [worker EXCEPT ![w] = m]
  <2>1. [worker EXCEPT ![w].pc = pc, ![w].event = event]
            = [worker EXCEPT ![w] = [worker[w] EXCEPT !.pc = pc, !.event = event]]
    OBVIOUS
  <2> QED
    BY <1>1, <1>3, <2>1
<1>5. event = worker[w].event => [worker EXCEPT ![w].pc = pc] = [worker EXCEPT ![w] = m]
  <2>1. [worker EXCEPT ![w].pc = pc] = [worker EXCEPT ![w] = [worker[w] EXCEPT !.pc = pc]]
    OBVIOUS
  <2> QED
    BY <1>1, <1>3, <2>1
<1> QED
  BY <1>2, <1>4, <1>5

(* Picking and claiming: nothing is staged yet.                            *)
LEMMA ClaimPreserves ==
    ASSUME OInv, NEW w \in Workers, PickEvent(w) \/ ClaimEvent(w)
    PROVE  OInv'
<1> USE OutboxAssumption
<1>0. /\ worker[w] \in WorkerState /\ worker \in [Workers -> WorkerState]
      /\ staged \in [Workers -> [Events -> Results]]
      /\ staged[w] \in [Events -> {"none", "completed", "failed"}]
      /\ crashes \in 0..MaxCrashes
  BY DEF OInv, TypeOK, WorkerState, WorkerOK
<1>1. \A e \in {f \in Events : staged[w][f] # "none"} :
          /\ rows[e].status = "pending"
          /\ \A v \in Workers \ {w} : e \notin Locked(v)
  BY DEF OInv, ClaimsOK, Locked, Settled
<1>2. /\ UNCHANGED <<published, producer>> /\ crashes' \in 0..MaxCrashes
      /\ staged' = [staged EXCEPT ![w] = staged[w]]
  BY <1>0 DEF PickEvent, ClaimEvent
<1>3. CASE PickEvent(w)
  <2>1. PICK e \in Candidates(w) :
            worker' = [worker EXCEPT ![w].pc = "claiming", ![w].event = e]
    BY <1>3 DEF PickEvent
  <2> DEFINE m == [pc |-> "claiming", event |-> e, inAppLast |-> worker[w].inAppLast]
  <2>2. e \in Events /\ staged[w][e] = "none"
    BY DEF Candidates, Settled
  <2>3. m \in WorkerState /\ worker' = [worker EXCEPT ![w] = m]
    BY <1>0, <2>1, <2>2, WorkerUpdate
  <2>4. LockedBy(m, staged[w]) = {f \in Events : staged[w][f] # "none"}
    BY DEF LockedBy
  <2> QED
    BY <1>0, <1>1, <1>2, <2>2, <2>3, <2>4, WorkerStep
<1>4. CASE ClaimEvent(w)
  <2> DEFINE e == worker[w].event
  <2>1. worker[w].pc = "claiming" /\ e \in Events /\ staged[w][e] = "none"
    BY <1>4 DEF ClaimEvent, OInv, WorkerOK, Settled
  <2>2. CASE rows[e].status = "pending"
    <3> DEFINE m == [pc |-> "delivering", event |-> e, inAppLast |-> worker[w].inAppLast]
    <3>1. m \in WorkerState /\ worker' = [worker EXCEPT ![w] = m]
      BY <1>0, <1>4, <2>1, <2>2, WorkerUpdate DEF ClaimEvent
    <3>2. \A v \in Workers \ {w} : e \notin Locked(v)
      BY <1>4, <2>1 DEF ClaimEvent, WaitsFor
    <3>3. \A f \in LockedBy(m, staged[w]) :
              f = e \/ f \in {g \in Events : staged[w][g] # "none"}
      BY DEF LockedBy
    <3>4. \A f \in LockedBy(m, staged[w]) :
              /\ rows[f].status = "pending"
              /\ \A v \in Workers \ {w} : f \notin Locked(v)
      BY <1>1, <2>2, <3>2, <3>3
    <3> HIDE DEF m
    <3>5. m.event = e
      BY DEF m
    <3> QED
      BY <1>0, <1>2, <2>1, <3>1, <3>4, <3>5, WorkerStep
  <2>3. CASE rows[e].status # "pending"
    <3> DEFINE m == [pc |-> "ending", event |-> None, inAppLast |-> worker[w].inAppLast]
    <3>1. m \in WorkerState /\ worker' = [worker EXCEPT ![w] = m]
      BY <1>0, <1>4, <2>1, <2>3, WorkerUpdate DEF ClaimEvent
    <3>2. LockedBy(m, staged[w]) = {f \in Events : staged[w][f] # "none"}
      BY DEF LockedBy
    <3> QED
      BY <1>0, <1>1, <1>2, <3>1, <3>2, WorkerStep
  <2> QED
    BY <2>2, <2>3
<1> QED
  BY <1>3, <1>4

(* Delivering: the event is pending, so no unread notification is there.   *)
LEMMA DeliverPreserves ==
    ASSUME OInv, NEW w \in Workers, Deliver(w) \/ DeliverFails(w)
    PROVE  OInv'
<1> USE OutboxAssumption
<1> DEFINE e == worker[w].event
           m == [pc |-> "polling", event |-> None, inAppLast |-> worker[w].inAppLast]
<1>0. /\ worker[w] \in WorkerState /\ worker \in [Workers -> WorkerState]
      /\ staged \in [Workers -> [Events -> Results]]
      /\ staged[w] \in [Events -> {"none", "completed", "failed"}]
      /\ crashes \in 0..MaxCrashes
  BY DEF OInv, TypeOK, WorkerState, WorkerOK
<1>1. worker[w].pc = "delivering" /\ e \in Events /\ e \in Locked(w)
  BY DEF Deliver, DeliverFails, OInv, WorkerOK, Locked
<1>2. rows[e].status = "pending" /\ e \notin unread
  BY <1>1 DEF OInv, ClaimsOK
<1>3. PICK r \in {"completed", "failed"} : Stage(w, r)
  BY <1>2 DEF Deliver, DeliverFails
<1> DEFINE S == [staged[w] EXCEPT ![e] = r]
<1>4. S \in [Events -> {"none", "completed", "failed"}]
  BY <1>0
<1>5. m \in WorkerState /\ worker' = [worker EXCEPT ![w] = m] /\ staged' = [staged EXCEPT ![w] = S]
  BY <1>0, <1>1, <1>3 DEF Stage, WorkerState
<1>6. \A f \in LockedBy(m, S) : f \in Locked(w)
  BY <1>0, <1>1 DEF LockedBy, Locked, Settled
<1>7. \A f \in Locked(w) :
          /\ rows[f].status = "pending"
          /\ \A v \in Workers \ {w} : f \notin Locked(v)
  BY DEF OInv, ClaimsOK
<1>8. UNCHANGED <<published, producer>> /\ crashes' \in 0..MaxCrashes
  BY <1>0 DEF Deliver, DeliverFails
<1> HIDE DEF S, m
<1>9. m.pc = "polling"
  BY DEF m
<1> QED
  BY <1>4, <1>5, <1>6, <1>7, <1>8, <1>9, WorkerStep

(* A batch that is rolled back.                                            *)
LEMMA RollBackPreserves ==
    ASSUME OInv, NEW w \in Workers,
           DeliverPoisoned(w) \/ BreakDeadlock(w) \/ Crash(w)
    PROVE  OInv'
<1> USE OutboxAssumption
<1>0. /\ worker[w] \in WorkerState /\ worker \in [Workers -> WorkerState]
      /\ crashes \in 0..MaxCrashes
  BY DEF OInv, TypeOK, WorkerState
<1>1. \E last \in BOOLEAN :
          worker' = [worker EXCEPT ![w] = [pc |-> "polling", event |-> None, inAppLast |-> last]]
  <2>1. CASE Crash(w)
    BY <2>1 DEF Crash
  <2>2. CASE DeliverPoisoned(w) \/ BreakDeadlock(w)
    <3>1. worker' = [worker EXCEPT ![w].pc = "polling", ![w].event = None]
      BY <2>2 DEF DeliverPoisoned, BreakDeadlock
    <3>2. worker' = [worker EXCEPT ![w] = [pc |-> "polling", event |-> None,
                                           inAppLast |-> worker[w].inAppLast]]
      BY <1>0, <3>1, WorkerUpdate
    <3>3. worker[w].inAppLast \in BOOLEAN
      BY <1>0 DEF WorkerState
    <3> QED
      BY <3>2, <3>3
  <2> QED
    BY <2>1, <2>2
<1>2. PICK last \in BOOLEAN :
          worker' = [worker EXCEPT ![w] = [pc |-> "polling", event |-> None, inAppLast |-> last]]
  BY <1>1
<1> DEFINE m == [pc |-> "polling", event |-> None, inAppLast |-> last]
<1>3. m \in WorkerState
  BY DEF WorkerState
<1>4. /\ UNCHANGED <<published, producer>> /\ crashes' \in 0..MaxCrashes
      /\ staged' = [staged EXCEPT ![w] = Nothing]
  BY <1>0 DEF Crash, DeliverPoisoned, BreakDeadlock, RollBackBatch
<1>5. Nothing \in [Events -> {"none", "completed", "failed"}] /\ LockedBy(m, Nothing) = {}
  BY DEF Nothing, LockedBy
<1> QED
  BY <1>2, <1>3, <1>4, <1>5, WorkerStep

-----------------------------------------------------------------------------
(* Committing a batch.  The events it delivers and those it fails.         *)
Delivered(w) == {e \in Events : staged[w][e] = "completed"}
Failed(w)    == {e \in Events : staged[w][e] = "failed"}

(* All the events of a batch are pending, and each of them is settled in   *)
(* one way; no other row changes.                                          *)
LEMMA BatchEffect ==
    ASSUME OInv, NEW w \in Workers, CommitBatch(w)
    PROVE  /\ Delivered(w) \cap Failed(w) = {}
           /\ \A e \in Delivered(w) \cup Failed(w) :
                  /\ e \in Events /\ e \in Locked(w)
                  /\ rows[e].status = "pending" /\ rows[e].attempts < MaxAttempts
           /\ rows' \in [Events -> OutboxRow]
           /\ \A e \in Delivered(w) :
                  rows'[e].status = "completed" /\ rows'[e].attempts = rows[e].attempts + 1
           /\ \A e \in Failed(w) :
                  /\ rows'[e].attempts = rows[e].attempts + 1
                  /\ rows'[e].status = IF rows[e].attempts + 1 = MaxAttempts
                                       THEN "dead_letter" ELSE "pending"
           /\ \A e \in Events \ (Delivered(w) \cup Failed(w)) : rows'[e] = rows[e]
           /\ notified' = [e \in Events |-> notified[e] + (IF e \in Delivered(w) THEN 1 ELSE 0)]
           /\ unread' = unread \cup Delivered(w)
<1> USE OutboxAssumption
<1>0. /\ rows \in [Events -> OutboxRow]
      /\ \A e \in Events : staged[w][e] \in {"none", "completed", "failed"}
  BY DEF OInv, TypeOK, OutboxRow, WorkerOK
<1>1. Delivered(w) \cap Failed(w) = {}
  BY DEF Delivered, Failed
<1>2. \A e \in Delivered(w) \cup Failed(w) :
          /\ e \in Events /\ e \in Locked(w)
          /\ rows[e].status = "pending" /\ rows[e].attempts < MaxAttempts
  BY DEF Delivered, Failed, Locked, Settled, OInv, ClaimsOK, RowOK
<1>3. rows' = [e \in Events |->
                  CASE staged[w][e] \in {"completed", "repeated"} ->
                           [rows[e] EXCEPT !.status = "completed", !.attempts = @ + 1]
                    [] staged[w][e] \in {"failed", "failed_noted"} ->
                           AfterFailure(rows[e].attempts + 1)
                    [] OTHER -> rows[e]]
  BY DEF CommitBatch
<1>4. ASSUME NEW e \in Delivered(w)
      PROVE  rows'[e] = [status |-> "completed", attempts |-> rows[e].attempts + 1,
                         due |-> rows[e].due]
  <2>1. e \in Events /\ staged[w][e] = "completed" /\ rows[e] \in OutboxRow
    BY <1>0 DEF Delivered
  <2>2. rows'[e] = [rows[e] EXCEPT !.status = "completed", !.attempts = @ + 1]
    BY <1>3, <2>1
  <2> DEFINE r == rows[e]
  <2>3. [r EXCEPT !.status = "completed", !.attempts = @ + 1]
            = [status |-> "completed", attempts |-> r.attempts + 1, due |-> r.due]
    <3> HIDE DEF r
    <3>1. r = [status |-> r.status, attempts |-> r.attempts, due |-> r.due]
      BY <2>1 DEF OutboxRow, r
    <3> DEFINE a == r.status  b == r.attempts  c == r.due
               s == [status |-> a, attempts |-> b, due |-> c]
               t == [status |-> "completed", attempts |-> b, due |-> c]
    <3>2. [s EXCEPT !.status = "completed"] = t
      OBVIOUS
    <3>3. [t EXCEPT !.attempts = b + 1] = [status |-> "completed", attempts |-> b + 1, due |-> c]
      OBVIOUS
    <3>4. [r EXCEPT !.status = "completed", !.attempts = @ + 1]
            = [[r EXCEPT !.status = "completed"] EXCEPT !.attempts = r.attempts + 1]
      BY <3>1
    <3> QED
      BY <3>1, <3>2, <3>3, <3>4
  <2> QED
    BY <2>2, <2>3
<1>5. ASSUME NEW e \in Failed(w)
      PROVE  rows'[e] = AfterFailure(rows[e].attempts + 1)
  BY <1>3 DEF Failed
<1>6. ASSUME NEW e \in Events \ (Delivered(w) \cup Failed(w))
      PROVE  rows'[e] = rows[e]
  <2>1. staged[w][e] = "none"
    BY <1>0 DEF Delivered, Failed
  <2> QED
    BY <1>3, <2>1
<1>7. ASSUME NEW e \in Delivered(w) \cup Failed(w)
      PROVE  /\ rows[e].attempts + 1 \in 0..MaxAttempts /\ rows[e].due \in BOOLEAN
             /\ rows[e].attempts + 1 >= MaxAttempts <=> rows[e].attempts + 1 = MaxAttempts
  <2>1. rows[e].attempts \in 0..MaxAttempts /\ rows[e].due \in BOOLEAN
    BY <1>0, <1>2 DEF OutboxRow
  <2>2. rows[e].attempts < MaxAttempts
    BY <1>2
  <2> DEFINE n == rows[e].attempts
  <2> HIDE DEF n
  <2>3. n \in 0..MaxAttempts /\ n < MaxAttempts
    BY <2>1, <2>2 DEF n
  <2>4. n + 1 \in 0..MaxAttempts /\ (n + 1 >= MaxAttempts <=> n + 1 = MaxAttempts)
    BY <2>3
  <2> QED
    BY <2>1, <2>4 DEF n
<1>7a. ASSUME NEW e \in Failed(w)
       PROVE  rows'[e] = [status |-> IF rows[e].attempts + 1 = MaxAttempts
                                     THEN "dead_letter" ELSE "pending",
                          attempts |-> rows[e].attempts + 1,
                          due |-> rows[e].attempts + 1 >= MaxAttempts]
  BY <1>5, <1>7 DEF AfterFailure
<1>8. \A e \in Events : rows'[e] \in OutboxRow
  <2> TAKE e \in Events
  <2>1. CASE e \in Delivered(w)
    <3> DEFINE n == rows[e].attempts + 1
               d == rows[e].due
    <3>1. rows'[e] = [status |-> "completed", attempts |-> n, due |-> d]
      BY <2>1, <1>4
    <3>2. n \in 0..MaxAttempts /\ d \in BOOLEAN
      BY <2>1, <1>7
    <3> HIDE DEF n, d
    <3> QED
      BY <3>1, <3>2 DEF OutboxRow
  <2>2. CASE e \in Failed(w)
    <3> DEFINE n == rows[e].attempts + 1
    <3> HIDE DEF n
    <3>1. n \in 0..MaxAttempts
      BY <2>2, <1>7 DEF n
    <3>2. rows'[e] = [status |-> IF n = MaxAttempts THEN "dead_letter" ELSE "pending",
                      attempts |-> n, due |-> n >= MaxAttempts]
      BY <2>2, <1>7a DEF n
    <3>3. (n >= MaxAttempts) \in BOOLEAN
      OBVIOUS
    <3> QED
      BY <3>1, <3>2, <3>3 DEF OutboxRow
  <2>3. CASE e \notin Delivered(w) \cup Failed(w)
    BY <2>3, <1>0, <1>6
  <2> QED
    BY <2>1, <2>2, <2>3
<1>9. rows' \in [Events -> OutboxRow]
  BY <1>3, <1>8
<1>10. \A e \in Failed(w) :
           /\ rows'[e].attempts = rows[e].attempts + 1
           /\ rows'[e].status = IF rows[e].attempts + 1 = MaxAttempts
                                THEN "dead_letter" ELSE "pending"
  <2> TAKE e \in Failed(w)
  <2> DEFINE n == rows[e].attempts + 1
             st == IF n = MaxAttempts THEN "dead_letter" ELSE "pending"
             d == n >= MaxAttempts
  <2>1. rows'[e] = [status |-> st, attempts |-> n, due |-> d]
    BY <1>7a
  <2> HIDE DEF n, st, d
  <2>2. rows'[e].status = st /\ rows'[e].attempts = n
    BY <2>1
  <2> QED
    BY <2>2 DEF n, st
<1>11. \A e \in Events : staged[w][e] \in {"completed", "failed_noted"} <=> e \in Delivered(w)
  BY <1>0 DEF Delivered
<1>12. /\ notified' = [e \in Events |-> notified[e] + (IF e \in Delivered(w) THEN 1 ELSE 0)]
       /\ unread' = unread \cup Delivered(w)
  <2> DEFINE noted == {e \in Events : staged[w][e] \in {"completed", "failed_noted"}}
  <2>1. noted = Delivered(w)
    BY <1>11 DEF Delivered
  <2>2. /\ notified' = [e \in Events |-> notified[e] + (IF e \in noted THEN 1 ELSE 0)]
        /\ unread' = unread \cup noted
    BY DEF CommitBatch
  <2> QED
    BY <2>1, <2>2
<1>13. \A e \in Delivered(w) :
           rows'[e].status = "completed" /\ rows'[e].attempts = rows[e].attempts + 1
  <2> TAKE e \in Delivered(w)
  <2> DEFINE n == rows[e].attempts + 1
             d == rows[e].due
  <2>1. rows'[e] = [status |-> "completed", attempts |-> n, due |-> d]
    BY <1>4
  <2> HIDE DEF n, d
  <2>2. rows'[e].status = "completed" /\ rows'[e].attempts = n
    BY <2>1
  <2> QED
    BY <2>2 DEF n
<1>14. \A e \in Events \ (Delivered(w) \cup Failed(w)) : rows'[e] = rows[e]
  BY <1>6
<1> QED
  BY <1>1, <1>2, <1>9, <1>10, <1>12, <1>13, <1>14

LEMMA CommitPreserves ==
    ASSUME OInv, NEW w \in Workers, CommitBatch(w)
    PROVE  OInv'
<1> USE OutboxAssumption
<1> DEFINE D == Delivered(w)
           F == Failed(w)
<1>1. /\ D \cap F = {}
      /\ \A e \in D \cup F : e \in Events /\ e \in Locked(w) /\ rows[e].status = "pending"
      /\ rows' \in [Events -> OutboxRow]
      /\ \A e \in D : rows'[e].status = "completed"
      /\ \A e \in F : rows'[e].status = IF rows[e].attempts + 1 = MaxAttempts
                                        THEN "dead_letter" ELSE "pending"
      /\ \A e \in Events \ (D \cup F) : rows'[e] = rows[e]
      /\ notified' = [e \in Events |-> notified[e] + (IF e \in D THEN 1 ELSE 0)]
      /\ unread' = unread \cup D
  BY BatchEffect
<1>2. /\ \A e \in F : rows'[e].attempts = rows[e].attempts + 1 /\ rows[e].attempts < MaxAttempts
      /\ \A e \in F : rows[e].attempts \in Nat
  BY BatchEffect DEF OInv, TypeOK
<1>3. /\ worker \in [Workers -> WorkerState] /\ worker[w] \in WorkerState
      /\ worker' = [worker EXCEPT ![w].pc = "polling"] /\ staged' = [staged EXCEPT ![w] = Nothing]
      /\ staged \in [Workers -> [Events -> Results]]
      /\ producer' = producer /\ crashes' = crashes
  BY DEF CommitBatch, OInv, TypeOK, WorkerState
<1> HIDE DEF D, F
<1>4. worker' \in [Workers -> WorkerState]
  <2>1. worker[w].event \in Events \cup {None}
    BY <1>3 DEF WorkerState
  <2> DEFINE m == [pc |-> "polling", event |-> worker[w].event, inAppLast |-> worker[w].inAppLast]
  <2>2. m \in WorkerState /\ [worker EXCEPT ![w].pc = "polling"] = [worker EXCEPT ![w] = m]
    BY <1>3, <2>1, WorkerUpdate
  <2> HIDE DEF m
  <2> QED
    BY <1>3, <2>2
<1>5. /\ staged'[w] = Nothing /\ worker'[w].pc = "polling"
      /\ \A v \in Workers : v # w => worker'[v] = worker[v] /\ staged'[v] = staged[v]
  BY <1>3 DEF WorkerState
<1>6. TypeOK'
  <2>1. staged' \in [Workers -> [Events -> Results]]
    BY <1>3 DEF Nothing, Results
  <2>2. notified' \in [Events -> Nat]
    BY <1>1 DEF OInv, TypeOK
  <2>3. unread' \subseteq Events
    BY <1>1 DEF OInv, TypeOK
  <2> QED
    BY <1>1, <1>3, <1>4, <2>1, <2>2, <2>3 DEF OInv, TypeOK, OutboxRow, WorkerState
<1>7. \A e \in Events : /\ rows'[e].status = "none" <=> rows[e].status = "none"
                        /\ rows'[e].status = "completed" <=> rows[e].status = "completed" \/ e \in D
  BY <1>1
<1>8. ASSUME NEW e \in Events PROVE RowOK(e)'
  <2>1. CASE e \in D
    BY <2>1, <1>1 DEF RowOK
  <2>2. CASE e \in F
    <3> DEFINE n == rows[e].attempts
    <3>1. n < MaxAttempts /\ n \in Nat /\ rows'[e].attempts = n + 1
      BY <2>2, <1>2
    <3>2. rows'[e].status = IF n + 1 = MaxAttempts THEN "dead_letter" ELSE "pending"
      BY <2>2, <1>1
    <3> HIDE DEF n
    <3>3. n + 1 # MaxAttempts => n + 1 < MaxAttempts
      BY <3>1
    <3> QED
      BY <3>1, <3>2, <3>3 DEF RowOK
  <2>3. CASE e \notin D \cup F
    BY <2>3, <1>1 DEF OInv, RowOK
  <2> QED
    BY <2>1, <2>2, <2>3
<1>9. (\A p \in Producers : ProducerOK(p))' /\ InsertsExclusive'
  BY <1>3, <1>7 DEF OInv, ProducerOK, InsertsExclusive
<1>10. EventIffChange'
  BY <1>3, <1>7 DEF OInv, EventIffChange
<1>11. /\ Locked(w)' = {}
       /\ \A v \in Workers : v # w => Locked(v)' = Locked(v)
  BY <1>5 DEF Locked, Settled, Nothing
<1>12. ClaimsOK'
  <2>1. ASSUME NEW v \in Workers, NEW e \in Locked(v)' PROVE rows'[e].status = "pending"
    <3>1. v # w /\ e \in Locked(v) /\ rows[e].status = "pending"
      BY <2>1, <1>11 DEF OInv, ClaimsOK
    <3>2. e \notin D \cup F
      BY <3>1, <1>1 DEF OInv, ClaimsOK
    <3>3. e \in Events
      BY <3>1 DEF OInv, WorkerOK, Locked, Settled
    <3> QED
      BY <3>1, <3>2, <3>3, <1>1
  <2>2. ASSUME NEW u \in Workers, NEW v \in Workers, u # v
        PROVE  Locked(u)' \cap Locked(v)' = {}
    BY <2>2, <1>11 DEF OInv, ClaimsOK
  <2> QED
    BY <2>1, <2>2 DEF ClaimsOK
<1>13. ASSUME NEW v \in Workers PROVE WorkerOK(v)'
  BY <1>5 DEF OInv, WorkerOK, Settled, Nothing
<1>14. \A e \in unread' : rows'[e].status = "completed"
  BY <1>1, <1>7 DEF OInv, TypeOK
<1>15. NotifiedIffCompleted'
  <2> SUFFICES ASSUME NEW e \in Events
               PROVE  notified'[e] = IF rows'[e].status = "completed" THEN 1 ELSE 0
    BY DEF NotifiedIffCompleted
  <2>1. notified'[e] = notified[e] + (IF e \in D THEN 1 ELSE 0)
    BY <1>1
  <2>2. notified[e] = IF rows[e].status = "completed" THEN 1 ELSE 0
    BY DEF OInv, NotifiedIffCompleted
  <2>3. CASE e \in D
    <3>1. rows[e].status = "pending" /\ rows'[e].status = "completed"
      BY <2>3, <1>1
    <3> QED
      BY <2>1, <2>2, <2>3, <3>1
  <2>4. CASE e \notin D
    <3>1. rows'[e].status = "completed" <=> rows[e].status = "completed"
      BY <2>4, <1>7
    <3> QED
      BY <2>1, <2>2, <2>4, <3>1
  <2> QED
    BY <2>3, <2>4
<1> QED
  BY <1>6, <1>8, <1>9, <1>10, <1>12, <1>13, <1>14, <1>15 DEF OInv

-----------------------------------------------------------------------------
(* A delay that ends changes nothing but due; reading, nothing of the rows. *)
LEMMA DelayOnly ==
    ASSUME OInv, NEW e \in Events, ComeDue(e) \/ MarkRead(e)
    PROVE  /\ rows' \in [Events -> OutboxRow]
           /\ \A f \in Events : rows'[f].status = rows[f].status /\ rows'[f].attempts = rows[f].attempts
           /\ unread' \subseteq unread
           /\ UNCHANGED <<notified, producer, worker, staged, crashes>>
<1>1. rows \in [Events -> OutboxRow] /\ unread \subseteq Events
  BY DEF OInv, TypeOK, OutboxRow
<1>2. CASE ComeDue(e)
  <2>1. rows' = [rows EXCEPT ![e].due = TRUE]
    BY <1>2 DEF ComeDue
  <2>2. rows'[e] = [rows[e] EXCEPT !.due = TRUE] /\ \A f \in Events : f # e => rows'[f] = rows[f]
    BY <1>1, <2>1
  <2>3. rows'[e] \in OutboxRow /\ rows'[e].status = rows[e].status /\ rows'[e].attempts = rows[e].attempts
    <3> DEFINE r == rows[e]
    <3>1. r \in OutboxRow /\ rows'[e] = [r EXCEPT !.due = TRUE]
      BY <1>1, <2>2
    <3> HIDE DEF r
    <3>2. [r EXCEPT !.due = TRUE] = [status |-> r.status, attempts |-> r.attempts, due |-> TRUE]
      BY <3>1 DEF OutboxRow
    <3>3. r.status \in {"none", "pending", "completed", "dead_letter"} /\ r.attempts \in 0..MaxAttempts
      BY <3>1 DEF OutboxRow
    <3>4. rows'[e] \in OutboxRow /\ rows'[e].status = r.status /\ rows'[e].attempts = r.attempts
      BY <3>1, <3>2, <3>3 DEF OutboxRow
    <3> QED
      BY <3>4 DEF r
  <2> QED
    BY <1>1, <1>2, <2>1, <2>2, <2>3 DEF ComeDue
<1>3. CASE MarkRead(e)
  BY <1>1, <1>3 DEF MarkRead
<1> QED
  BY <1>2, <1>3

LEMMA EnvironmentPreserves ==
    ASSUME OInv, NEW e \in Events, ComeDue(e) \/ MarkRead(e)
    PROVE  OInv'
<1>1. /\ rows' \in [Events -> OutboxRow]
      /\ \A f \in Events : rows'[f].status = rows[f].status /\ rows'[f].attempts = rows[f].attempts
      /\ unread' \subseteq unread
      /\ UNCHANGED <<notified, producer, worker, staged, crashes>>
  BY DelayOnly
<1>2. TypeOK'
  BY <1>1 DEF OInv, TypeOK, OutboxRow
<1>3. \A v \in Workers : Locked(v)' = Locked(v) /\ Locked(v) \subseteq Events
  BY <1>1 DEF OInv, WorkerOK, Locked, Settled
<1>4. ClaimsOK'
  BY <1>1, <1>3 DEF OInv, ClaimsOK
<1>5. (\A w \in Workers : WorkerOK(w))'
  BY <1>1 DEF OInv, WorkerOK, Settled
<1>6. /\ (\A f \in Events : RowOK(f))' /\ (\A p \in Producers : ProducerOK(p))'
      /\ InsertsExclusive'
  BY <1>1, OutboxAssumption DEF OInv, RowOK, ProducerOK, InsertsExclusive
<1>7. EventIffChange' /\ NotifiedIffCompleted'
  BY <1>1 DEF OInv, EventIffChange, NotifiedIffCompleted
<1>8. \A f \in unread' : rows'[f].status = "completed"
  BY <1>1 DEF OInv, TypeOK
<1> QED
  BY <1>2, <1>4, <1>5, <1>6, <1>7, <1>8 DEF OInv

LEMMA NextPreserves == OInv /\ [Next]_vars => OInv'
<1> SUFFICES ASSUME OInv, [Next]_vars PROVE OInv'
  OBVIOUS
<1>1. ASSUME NEW p \in Producers, Publish(p) PROVE OInv'
  BY <1>1, PublishPreserves
<1>2. ASSUME NEW w \in Workers, Work(w) \/ Crash(w) PROVE OInv'
  BY <1>2, ClaimPreserves, DeliverPreserves, RollBackPreserves, CommitPreserves DEF Work
<1>3. ASSUME NEW e \in Events, ComeDue(e) \/ MarkRead(e) PROVE OInv'
  BY <1>3, EnvironmentPreserves
<1>4. CASE UNCHANGED vars
  BY <1>4 DEF vars, OInv, TypeOK, RowOK, ProducerOK, InsertsExclusive, EventIffChange, ClaimsOK,
              Locked, Settled, WorkerOK, NotifiedIffCompleted
<1> QED
  BY <1>1, <1>2, <1>3, <1>4 DEF Next

(* OInv holds in every reachable state.                                    *)
THEOREM Invariance == Spec => []OInv
<1> QED
  BY InitEstablishes, NextPreserves, PTL DEF Spec

(* Types of the variables; no event is ever tried more often than allowed. *)
THEOREM TypeCorrect == Spec => []TypeOK
<1>1. OInv => TypeOK
  BY DEF OInv
<1> QED
  BY <1>1, Invariance, PTL

(* The outbox holds an event if and only if a change that publishes it has *)
(* committed, whichever calls publish the same event at the same time.     *)
THEOREM EventsFollowChanges == Spec => []EventIffChange
<1>1. OInv => EventIffChange
  BY DEF OInv
<1> QED
  BY <1>1, Invariance, PTL

(* Recipients are notified once of an event, when its row is completed,    *)
(* for any number of workers, crashes, deadlocks and failures.             *)
THEOREM NotifiedOnce == Spec => []NotifiedIffCompleted
<1>1. OInv => NotifiedIffCompleted
  BY DEF OInv
<1> QED
  BY <1>1, Invariance, PTL

-----------------------------------------------------------------------------
(* The outbox implements DurableEvents: a change that commits a new event  *)
(* announces it, a batch that commits settles its events, and every other  *)
(* step is invisible.                                                      *)
LEMMA Promises ==
    /\ Promise("none") = "unknown" /\ Promise("pending") = "owed"
    /\ Promise("completed") = "delivered" /\ Promise("dead_letter") = "given_up"
    /\ \A s, n : Failures(s, n) = IF s = "completed" THEN n - 1 ELSE n
BY DEF Promise, Failures

LEMMA InitImplements == Init => Durable!Init
<1> SUFFICES ASSUME Init PROVE Durable!Init
  OBVIOUS
<1>1. \A e \in Events : rows[e].status = "none" /\ rows[e].attempts = 0
  BY DEF Init
<1>2. ASSUME NEW e \in Events
      PROVE  /\ Promise(rows[e].status) = "unknown"
             /\ Failures(rows[e].status, rows[e].attempts) = 0
  <2>1. Promise(rows[e].status) = "unknown"
    BY <1>1, Promises
  <2>2. Failures(rows[e].status, rows[e].attempts) = rows[e].attempts
    BY <1>1 DEF Failures
  <2> QED
    BY <1>1, <2>1, <2>2
<1>3. /\ [e \in Events |-> Promise(rows[e].status)] = [e \in Events |-> "unknown"]
      /\ [e \in Events |-> Failures(rows[e].status, rows[e].attempts)] = [e \in Events |-> 0]
  BY <1>2
<1>4. notified = [e \in Events |-> 0]
  BY DEF Init
<1> QED
  BY <1>3, <1>4 DEF Durable!Init

(* Steps that leave status and attempts of the rows alone are invisible.   *)
LEMMA Invisible ==
    ASSUME notified' = notified,
           \A e \in Events : rows'[e].status = rows[e].status /\ rows'[e].attempts = rows[e].attempts
    PROVE  UNCHANGED Durable!vars
BY DEF Durable!vars

LEMMA AnnounceImplements ==
    ASSUME OInv, NEW p \in Producers, CommitChange(p), producer[p] = "inserted"
    PROVE  Durable!Announce(EventOf[p])
<1> USE OutboxAssumption
<1> DEFINE ev == EventOf[p]
<1>1. /\ ev \in Events /\ notified' = notified
      /\ rows[ev].status = "none"
      /\ rows' = [rows EXCEPT ![ev].status = "pending"]
  BY DEF CommitChange, OInv, ProducerOK
<1>2. /\ rows'[ev].status = "pending" /\ rows'[ev].attempts = rows[ev].attempts
      /\ \A e \in Events : e # ev => rows'[e] = rows[e]
  BY <1>1 DEF OInv, TypeOK
<1> DEFINE st == [e \in Events |-> Promise(rows[e].status)]
           fa == [e \in Events |-> Failures(rows[e].status, rows[e].attempts)]
<1>3. st[ev] = "unknown"
  BY <1>1, Promises
<1>4. st' = [st EXCEPT ![ev] = "owed"]
  <2>1. ASSUME NEW e \in Events
        PROVE  st'[e] = IF e = ev THEN "owed" ELSE st[e]
    BY <1>2, Promises
  <2>2. st' = [e \in Events |-> Promise(rows'[e].status)]
    OBVIOUS
  <2>3. DOMAIN st' = Events /\ DOMAIN st = Events
    BY <2>2
  <2> HIDE DEF st
  <2>4. st = [e \in Events |-> st[e]] /\ st' = [e \in Events |-> st'[e]]
    BY <2>3 DEF st
  <2> QED
    BY <1>1, <2>1, <2>3, <2>4
<1>5. fa' = fa
  BY <1>1, <1>2, Promises
<1> QED
  BY <1>1, <1>3, <1>4, <1>5, Promises DEF Durable!Announce

LEMMA SettleImplements ==
    ASSUME OInv, NEW w \in Workers, CommitBatch(w)
    PROVE  Durable!Settle(Delivered(w), Failed(w))
<1> DEFINE D == Delivered(w)
           F == Failed(w)
           st == [e \in Events |-> Promise(rows[e].status)]
           fa == [e \in Events |-> Failures(rows[e].status, rows[e].attempts)]
<1>1. /\ D \cap F = {}
      /\ \A e \in D \cup F : e \in Events /\ rows[e].status = "pending"
      /\ \A e \in D : rows'[e].status = "completed" /\ rows'[e].attempts = rows[e].attempts + 1
      /\ \A e \in F : /\ rows'[e].attempts = rows[e].attempts + 1
                       /\ rows'[e].status = IF rows[e].attempts + 1 = MaxAttempts
                                            THEN "dead_letter" ELSE "pending"
      /\ \A e \in Events \ (D \cup F) : rows'[e] = rows[e]
      /\ notified' = [e \in Events |-> notified[e] + (IF e \in D THEN 1 ELSE 0)]
  BY BatchEffect
<1>2. \A e \in Events : rows[e].attempts \in Nat
  BY OutboxAssumption DEF OInv, TypeOK
<1> HIDE DEF D, F
<1>3. \A e \in D \cup F : st[e] = "owed" /\ fa[e] = rows[e].attempts
  BY <1>1, Promises
<1>4. fa' = [e \in Events |-> fa[e] + (IF e \in F THEN 1 ELSE 0)]
  <2> SUFFICES ASSUME NEW e \in Events
               PROVE  Failures(rows'[e].status, rows'[e].attempts)
                          = Failures(rows[e].status, rows[e].attempts)
                                + (IF e \in F THEN 1 ELSE 0)
    OBVIOUS
  <2> DEFINE n == rows[e].attempts
  <2>0. n \in Nat
    BY <1>2
  <2>1. CASE e \in D
    <3>1. rows[e].status = "pending" /\ rows'[e].status = "completed" /\ rows'[e].attempts = n + 1
      BY <2>1, <1>1
    <3>2. e \notin F
      BY <2>1, <1>1
    <3>3. /\ Failures(rows'[e].status, rows'[e].attempts) = rows'[e].attempts - 1
          /\ Failures(rows[e].status, rows[e].attempts) = n
      BY <3>1 DEF Failures
    <3> HIDE DEF n
    <3> QED
      BY <2>0, <3>1, <3>2, <3>3
  <2>2. CASE e \in F
    <3>1. rows[e].status = "pending" /\ rows'[e].status # "completed" /\ rows'[e].attempts = n + 1
      BY <2>2, <1>1
    <3> QED
      BY <2>2, <3>1, Promises
  <2>3. CASE e \notin D \cup F
    <3>1. Failures(rows[e].status, rows[e].attempts) \in Int
      BY <2>0, Promises
    <3> QED
      BY <2>3, <3>1, <1>1
  <2> QED
    BY <2>1, <2>2, <2>3
<1>5. st' = [e \in Events |-> IF e \in D THEN "delivered"
                             ELSE IF e \in F /\ fa[e] + 1 = MaxAttempts THEN "given_up"
                             ELSE st[e]]
  <2> SUFFICES ASSUME NEW e \in Events
               PROVE  Promise(rows'[e].status) = IF e \in D THEN "delivered"
                                          ELSE IF e \in F /\ fa[e] + 1 = MaxAttempts THEN "given_up"
                                          ELSE st[e]
    OBVIOUS
  <2>1. CASE e \in D
    BY <2>1, <1>1, Promises
  <2>2. CASE e \in F
    <3> DEFINE n == rows[e].attempts
    <3>1. e \notin D /\ fa[e] = n /\ st[e] = "owed"
      BY <2>2, <1>1, <1>3
    <3>2. rows'[e].status = IF n + 1 = MaxAttempts THEN "dead_letter" ELSE "pending"
      BY <2>2, <1>1
    <3>3. Promise(rows'[e].status) = IF n + 1 = MaxAttempts THEN "given_up" ELSE "owed"
      BY <3>2, Promises
    <3> HIDE DEF n, fa, st
    <3> QED
      BY <2>2, <3>1, <3>3
  <2>3. CASE e \notin D \cup F
    BY <2>3, <1>1
  <2> QED
    BY <2>1, <2>2, <2>3
<1> QED
  BY <1>1, <1>3, <1>4, <1>5, Promises DEF Durable!Settle, D, F

LEMMA StepImplements ==
    ASSUME OInv, [Next]_vars
    PROVE  [Durable!Next]_Durable!vars
<1> USE OutboxAssumption
<1>1. ASSUME NEW p \in Producers, Publish(p) PROVE [Durable!Next]_Durable!vars
  <2>1. CASE CommitChange(p) /\ producer[p] = "inserted"
    BY <2>1, AnnounceImplements DEF Durable!Next
  <2>2. CASE Enqueue(p) \/ InsertEvent(p) \/ RollBackChange(p)
             \/ (CommitChange(p) /\ producer[p] # "inserted")
    <3>1. rows' = rows /\ notified' = notified
      BY <2>2 DEF Enqueue, InsertEvent, RollBackChange, CommitChange, published
    <3> QED
      BY <3>1, Invisible
  <2> QED
    BY <1>1, <2>1, <2>2 DEF Publish
<1>2. ASSUME NEW w \in Workers, Work(w) \/ Crash(w) PROVE [Durable!Next]_Durable!vars
  <2>1. CASE CommitBatch(w)
    <3>1. Delivered(w) \in SUBSET Events /\ Failed(w) \in SUBSET Events
      BY DEF Delivered, Failed
    <3>2. Durable!Settle(Delivered(w), Failed(w))
      BY <2>1, SettleImplements
    <3>3. \E D, F \in SUBSET Events : Durable!Settle(D, F)
      BY <3>1, <3>2, Zenon
    <3> QED
      BY <3>3 DEF Durable!Next
  <2>2. CASE ~CommitBatch(w)
    <3>1. rows' = rows /\ notified' = notified
      BY <1>2, <2>2 DEF Work, PickEvent, ClaimEvent, Deliver, DeliverFails, DeliverPoisoned,
                        BreakDeadlock, Crash, RollBackBatch, published
    <3> QED
      BY <3>1, Invisible
  <2> QED
    BY <2>1, <2>2
<1>3. ASSUME NEW e \in Events, ComeDue(e) \/ MarkRead(e) PROVE [Durable!Next]_Durable!vars
  <2>1. notified' = notified
    BY <1>3 DEF ComeDue, MarkRead
  <2>2. \A f \in Events : rows'[f].status = rows[f].status /\ rows'[f].attempts = rows[f].attempts
    BY <1>3, DelayOnly
  <2> QED
    BY <2>1, <2>2, Invisible
<1>4. CASE UNCHANGED vars
  <2>1. rows' = rows /\ notified' = notified
    BY <1>4 DEF vars
  <2> QED
    BY <2>1, Invisible
<1> QED
  BY <1>1, <1>2, <1>3, <1>4 DEF Next

(* The outbox, with its transactions, row locks, crashes and deadlocks, is *)
(* an implementation of the abstract service: what is announced is owed    *)
(* until it is delivered, which tells once, or has failed MaxAttempts      *)
(* times.                                                                  *)
THEOREM OutboxImplementsDurable == Spec => ImplementsDurable
<1> QED
  BY InitImplements, StepImplements, Invariance, PTL DEF Spec, ImplementsDurable, Durable!Spec

(***************************************************************************)
(* Cases.                                                                  *)
(***************************************************************************)
(* CasesAssumption, as far as the proofs need it.                          *)
CasesGiven == Manual \subseteq {NoValue} /\ NoValue \notin Nat

CaseStatuses == {"open", "acknowledged", "in_progress", "waiting", "resolved", "closed"}

Entry == [type : {"created", "edited", "noted", "escalated"}]
         \cup [type : {"status"}, from : CaseStatuses, to : CaseStatuses]

CaseRow == [source : Rows \cup {NoValue}, status : CaseStatuses, escalated : BOOLEAN,
            version : Nat, events : Seq(Entry)]

FindingStatuses == {"open", "acknowledged", "resolved", "ignored"}

FindingRow == [status : FindingStatuses, via : {NoValue} \cup Nat]

CaseShapes ==
    /\ finding \in [Rules -> Seq(FindingRow)]
    /\ case \in Seq(CaseRow)
    /\ session = [c \in Sessions |-> session[c]]

(* Only a resolved finding was resolved by a case, unless sessions raced   *)
(* on it.                                                                  *)
FindingOK(r, n) ==
    LET f == finding[r][n] IN
    /\ f.via \in {NoValue} \cup DOMAIN case
    /\ f.via # NoValue /\ <<"finding", <<r, n>>>> \notin raced => f.status = "resolved"

CaseOK(i) ==
    /\ case[i].source \in Stored \cup {NoValue}
    /\ \A j \in DOMAIN case \ {i} : case[i].source # NoValue => case[j].source # case[i].source

(* What a session may be about to do to case s.id.                         *)
EditOK(s) ==
    /\ s.id \in DOMAIN case
    /\ s.event \in Entry /\ s.event.type \in {"status", "edited", "noted"}
    /\ s.event.type = "noted" => s.set = <<>>
    /\ s.event.type = "edited" => s.set.version \in Nat /\ s.set = [version |-> s.set.version]
    /\ s.event.type = "status" =>
          /\ s.set.version \in Nat /\ s.set = [status |-> s.event.to, version |-> s.set.version]
          /\ s.from = s.event.from /\ s.event.to \in NextStatus(s.from)

CaseRequestOK(s) ==
    /\ s.op \in {"idle", "create", "findings", "case", "escalate"}
    /\ s.op = "create" => s.source \in Stored \cup {NoValue}
    /\ s.op = "findings" => /\ DOMAIN s.changes \subseteq Stored /\ s.new \subseteq Rules
                            /\ \A x \in DOMAIN s.changes : s.changes[x] \in FindingStatuses
    /\ s.op = "escalate" => s.ids \subseteq DOMAIN case
    /\ s.op = "case" => EditOK(s)

(* What a session has read still holds of the rows nobody raced on.        *)
StillSo(s) ==
    /\ s.op = "findings" =>
          \A x \in DOMAIN s.changes :
              <<"finding", x>> \notin raced /\ s.changes[x] \in {"open", "acknowledged"} =>
                  Row(x).status \in Live(x[1])
    /\ s.op = "escalate" => \A i \in s.ids : <<"case", i>> \notin raced => ~case[i].escalated
    /\ s.op = "case" /\ <<"case", s.id>> \notin raced =>
          /\ s.event.type # "noted" => s.set.version = case[s.id].version + 1
          /\ s.event.type = "status" => s.from = case[s.id].status

(* What TimelineTells and LoopIsClosed say of one case.                    *)
Births(i) == {n \in DOMAIN case[i].events : case[i].events[n].type = "created"}
Edits(i)  == {n \in DOMAIN case[i].events : /\ case[i].events[n].type \in {"status", "edited"}
                                            /\ \E m \in Births(i) : m < n}
Alarms(i) == {n \in DOMAIN case[i].events : case[i].events[n].type = "escalated"}

Tells(i) ==
    /\ Births(i) # {}
    /\ LeadTo(i, Len(case[i].events) + 1, case[i].status)
    /\ \A n \in Moves(i) : /\ LeadTo(i, n, case[i].events[n].from)
                           /\ case[i].events[n].to \in NextStatus(case[i].events[n].from)
    /\ case[i].version = 1 + Cardinality(Edits(i))
    /\ Cardinality(Alarms(i)) = IF case[i].escalated THEN 1 ELSE 0

Closes(i) ==
    LET x == case[i].source IN
    x # NoValue => IF case[i].status \in Terminal THEN Row(x).status \notin Live(x[1])
                   ELSE Row(x).via # i

(* The inductive invariant.                                                *)
CaseInv ==
    /\ CaseShapes
    /\ \A r \in Rules : \A n \in DOMAIN finding[r] : FindingOK(r, n)
    /\ \A i \in DOMAIN case : CaseOK(i)
    /\ \A c \in Sessions : CaseRequestOK(session[c]) /\ StillSo(session[c])
    /\ \A i \in DOMAIN case : <<"case", i>> \notin raced => Tells(i)
    /\ \A i \in DOMAIN case :
          <<"case", i>> \notin raced /\ <<"finding", case[i].source>> \notin raced => Closes(i)

-----------------------------------------------------------------------------
(* One more entry of a timeline, and what it does to the status, the       *)
(* version and the alarm of its case.                                      *)
LEMMA OneMoreEntry ==
  ASSUME CaseShapes, NEW i \in DOMAIN case, i \in DOMAIN case', Tells(i), NEW e \in Entry,
         e.type # "created",
         case'[i].events = Append(case[i].events, e),
         IF e.type = "status"
         THEN case'[i].status = e.to /\ e.from = case[i].status /\ e.to \in NextStatus(e.from)
         ELSE case'[i].status = case[i].status,
         case'[i].version = IF e.type \in {"status", "edited"} THEN case[i].version + 1
                            ELSE case[i].version,
         IF e.type = "escalated" THEN ~case[i].escalated /\ case'[i].escalated
         ELSE case'[i].escalated = case[i].escalated
  PROVE  Tells(i)'
<1>1. PICK t, u : t = case[i].events /\ u = case'[i].events
  OBVIOUS
<1>2. /\ t \in Seq(Entry) /\ Len(t) \in Nat /\ Len(u) = Len(t) + 1
      /\ u[Len(t) + 1] = e /\ \A n \in 1 .. Len(t) : u[n] = t[n]
      /\ DOMAIN t = 1 .. Len(t) /\ DOMAIN u = DOMAIN t \cup {Len(t) + 1}
  <2>1. t \in Seq(Entry)
    <3>1. case[i] \in CaseRow
      BY DEF CaseShapes
    <3> QED
      BY <1>1, <3>1 DEF CaseRow
  <2>2. u = Append(t, e)
    BY <1>1
  <2> HIDE <1>1
  <2>3. Len(t) \in Nat /\ Len(u) = Len(t) + 1 /\ DOMAIN t = 1 .. Len(t) /\ DOMAIN u = 1 .. Len(t) + 1
    BY <2>1, <2>2
  <2>4. u[Len(t) + 1] = e /\ \A n \in 1 .. Len(t) : u[n] = t[n]
    BY <2>1, <2>2
  <2> QED
    BY <2>1, <2>3, <2>4
<1>3. /\ Moves(i) = {n \in DOMAIN t : t[n].type = "status"}
      /\ Moves(i)' = {n \in DOMAIN u : u[n].type = "status"}
  BY <1>1 DEF Moves
<1>4. Moves(i)' = IF e.type = "status" THEN Moves(i) \cup {Len(t) + 1} ELSE Moves(i)
  BY <1>2, <1>3
<1>5. ASSUME NEW n \in 1 .. Len(t) + 1, NEW s PROVE LeadTo(i, n, s)' <=> LeadTo(i, n, s)
  <2>1. {m \in Moves(i)' : m < n} = {m \in Moves(i) : m < n}
    BY <1>2, <1>3, <1>4
  <2>2. \A m \in Moves(i) : case'[i].events[m] = case[i].events[m]
    BY <1>1, <1>2, <1>3
  <2> QED
    BY <2>1, <2>2 DEF LeadTo
<1>6. \A n \in Moves(i)' : /\ LeadTo(i, n, case[i].events[n].from)'
                           /\ case'[i].events[n].to \in NextStatus(case'[i].events[n].from)
  <2> SUFFICES ASSUME NEW n \in Moves(i)'
               PROVE  /\ LeadTo(i, n, case[i].events[n].from)'
                      /\ case'[i].events[n].to \in NextStatus(case'[i].events[n].from)
    OBVIOUS
  <2>1. CASE n \in DOMAIN t
    BY <2>1, <1>1, <1>2, <1>3, <1>5 DEF Tells
  <2>2. CASE n = Len(t) + 1
    BY <2>2, <1>1, <1>2, <1>3, <1>5 DEF Tells
  <2> QED
    BY <2>1, <2>2, <1>2, <1>3
<1>7. LeadTo(i, Len(case[i].events) + 1, case[i].status)'
  <2>1. CASE e.type = "status"
    <3>1. Len(t) + 1 \in {m \in Moves(i)' : m < Len(u) + 1}
      BY <2>1, <1>2, <1>4
    <3>2. \A k \in Moves(i)' : k <= Len(t) + 1
      BY <1>2, <1>3
    <3> QED
      BY <2>1, <3>1, <3>2, <1>1, <1>2 DEF LeadTo
  <2>2. CASE e.type # "status"
    <3>1. {m \in Moves(i)' : m < Len(u) + 1} = {m \in Moves(i) : m < Len(t) + 1}
      BY <2>2, <1>2, <1>3, <1>4
    <3>2. \A m \in Moves(i) : case'[i].events[m] = case[i].events[m]
      BY <1>1, <1>2, <1>3
    <3> QED
      BY <2>2, <3>1, <3>2, <1>1 DEF LeadTo, Tells
  <2> QED
    BY <2>1, <2>2
<1>births. /\ Births(i) = {n \in DOMAIN t : t[n].type = "created"} /\ Births(i) # {}
       /\ Births(i)' = Births(i)
  <2>1. /\ Births(i) = {n \in DOMAIN t : t[n].type = "created"}
        /\ Births(i)' = {n \in DOMAIN u : u[n].type = "created"}
    BY <1>1 DEF Births
  <2> QED
    BY <1>2, <2>1 DEF Tells
<1>8. /\ Edits(i) = {n \in DOMAIN t : t[n].type \in {"status", "edited"} /\ \E m \in Births(i) : m < n}
      /\ Edits(i)' = {n \in DOMAIN u : u[n].type \in {"status", "edited"} /\ \E m \in Births(i)' : m < n}
      /\ Alarms(i) = {n \in DOMAIN t : t[n].type = "escalated"}
      /\ Alarms(i)' = {n \in DOMAIN u : u[n].type = "escalated"}
  <2>1. Edits(i) = {n \in DOMAIN t : t[n].type \in {"status", "edited"} /\ \E m \in Births(i) : m < n}
    BY <1>1 DEF Edits
  <2>2. Edits(i)' = {n \in DOMAIN u : u[n].type \in {"status", "edited"} /\ \E m \in Births(i)' : m < n}
    BY <1>1 DEF Edits
  <2> QED
    BY <1>1, <2>1, <2>2 DEF Alarms
<1>9. \A S \in SUBSET DOMAIN t : /\ IsFiniteSet(S) /\ Cardinality(S) \in Nat
                                 /\ Cardinality(S \cup {Len(t) + 1}) = Cardinality(S) + 1
  <2>4. Len(t) \in Int /\ 1 \in Int
    BY <1>2
  <2>1. IsFiniteSet(1 .. Len(t))
    BY <2>4, FS_Interval
  <2> SUFFICES ASSUME NEW S \in SUBSET DOMAIN t
               PROVE  /\ IsFiniteSet(S) /\ Cardinality(S) \in Nat
                      /\ Cardinality(S \cup {Len(t) + 1}) = Cardinality(S) + 1
    OBVIOUS
  <2>2. Len(t) + 1 \notin S
    BY <1>2
  <2>3. IsFiniteSet(S)
    BY <1>2, <2>1, FS_Subset
  <2> QED
    BY <2>2, <2>3, FS_AddElement, FS_CardinalityType
<1>10. case'[i].version = 1 + Cardinality(Edits(i)')
  <2>1. Edits(i)' = IF e.type \in {"status", "edited"} THEN Edits(i) \cup {Len(t) + 1} ELSE Edits(i)
    <3>1. \E m \in Births(i) : m < Len(t) + 1
      BY <1>2, <1>births
    <3> QED
      BY <1>2, <1>8, <1>births, <3>1
  <2>2. Cardinality(Edits(i)) \in Nat /\ Cardinality(Edits(i) \cup {Len(t) + 1}) = Cardinality(Edits(i)) + 1
    BY <1>8, <1>9
  <2>3. case[i].version = 1 + Cardinality(Edits(i))
    BY DEF Tells
  <2> QED
    BY <2>1, <2>2, <2>3
<1>11. Cardinality(Alarms(i)') = IF case'[i].escalated THEN 1 ELSE 0
  <2>1. Alarms(i)' = IF e.type = "escalated" THEN Alarms(i) \cup {Len(t) + 1} ELSE Alarms(i)
    BY <1>2, <1>8
  <2>2. Cardinality(Alarms(i) \cup {Len(t) + 1}) = Cardinality(Alarms(i)) + 1
    BY <1>8, <1>9
  <2>3. Cardinality(Alarms(i)) = IF case[i].escalated THEN 1 ELSE 0
    BY DEF Tells
  <2> QED
    BY <2>1, <2>2, <2>3
<1> QED
  BY <1>6, <1>7, <1>10, <1>11, <1>births DEF Tells

-----------------------------------------------------------------------------
LEMMA InitCases == CasesGiven /\ CasesInit => CaseInv
<1> SUFFICES ASSUME CasesGiven, CasesInit PROVE CaseInv
  OBVIOUS
<1>1. case = <<>> /\ DOMAIN case = {} /\ \A r \in Rules : finding[r] = <<>> /\ DOMAIN finding[r] = {}
  BY DEF CasesInit
<1>2. CaseShapes
  BY DEF CasesInit, CaseShapes
<1>3. \A c \in Sessions : session[c] = Idle /\ session[c].op = "idle"
  BY DEF CasesInit, Idle
<1>4. \A c \in Sessions : CaseRequestOK(session[c]) /\ StillSo(session[c])
  BY <1>3 DEF CaseRequestOK, StillSo
<1> QED
  BY <1>1, <1>2, <1>4 DEF CaseInv

LEMMA StoredIs ==
    \A x \in Stored : x = <<x[1], x[2]>> /\ x[1] \in Rules /\ x[2] \in DOMAIN finding[x[1]]
  BY DEF Stored, Rows

(* The rows of findings and cases stay, those of the sessions that go on   *)
(* without being raced on as they were.                                    *)
Undisturbed(s) ==
    /\ \A i \in DOMAIN case : <<"case", i>> \in Reads(s) \ raced' =>
          /\ case'[i].status = case[i].status /\ case'[i].version = case[i].version
          /\ case'[i].escalated = case[i].escalated
    /\ \A x \in Stored : <<"finding", x>> \in Reads(s) \ raced' => Row(x)' = Row(x)

LEMMA OthersGoOn ==
  ASSUME CaseInv, NEW c \in Sessions, session'[c] = session[c], Undisturbed(session[c]),
         raced \subseteq raced', DOMAIN case \subseteq DOMAIN case', Stored \subseteq Stored'
  PROVE  CaseRequestOK(session[c])' /\ StillSo(session[c])'
<1>1. PICK s : s = session[c]
  OBVIOUS
<1>2. session'[c] = s /\ CaseRequestOK(s) /\ StillSo(s)
  BY <1>1 DEF CaseInv
<1>3. EditOK(s) => EditOK(s)'
  BY DEF EditOK
<1>4. CaseRequestOK(s)'
  BY <1>2, <1>3 DEF CaseRequestOK
<1>5. s.op = "findings" =>
          \A x \in DOMAIN s.changes :
              <<"finding", x>> \notin raced' /\ s.changes[x] \in {"open", "acknowledged"} =>
                  Row(x)'.status \in Live(x[1])
  <2> SUFFICES ASSUME s.op = "findings", NEW x \in DOMAIN s.changes, <<"finding", x>> \notin raced',
                      s.changes[x] \in {"open", "acknowledged"}
               PROVE  Row(x)'.status \in Live(x[1])
    OBVIOUS
  <2>1. <<"finding", x>> \in Reads(s) /\ x \in Stored
    BY <1>2 DEF Reads, CaseRequestOK
  <2>2. Row(x)' = Row(x)
    BY <1>1, <2>1 DEF Undisturbed
  <2> QED
    BY <1>2, <2>2 DEF StillSo
<1>6. s.op = "escalate" => \A i \in s.ids : <<"case", i>> \notin raced' => ~case'[i].escalated
  <2> SUFFICES ASSUME s.op = "escalate", NEW i \in s.ids, <<"case", i>> \notin raced'
               PROVE  ~case'[i].escalated
    OBVIOUS
  <2>1. <<"case", i>> \in Reads(s) /\ i \in DOMAIN case
    BY <1>2 DEF Reads, CaseRequestOK
  <2> QED
    BY <1>1, <1>2, <2>1 DEF Undisturbed, StillSo
<1>7. s.op = "case" /\ <<"case", s.id>> \notin raced' =>
          /\ s.event.type # "noted" => s.set.version = case'[s.id].version + 1
          /\ s.event.type = "status" => s.from = case'[s.id].status
  <2> SUFFICES ASSUME s.op = "case", <<"case", s.id>> \notin raced'
               PROVE  /\ s.event.type # "noted" => s.set.version = case'[s.id].version + 1
                      /\ s.event.type = "status" => s.from = case'[s.id].status
    OBVIOUS
  <2>1. <<"case", s.id>> \in Reads(s) /\ s.id \in DOMAIN case
    BY <1>2 DEF Reads, CaseRequestOK, EditOK
  <2> QED
    BY <1>1, <1>2, <2>1 DEF Undisturbed, StillSo
<1>8. StillSo(s)'
  BY <1>5, <1>6, <1>7 DEF StillSo
<1> QED
  BY <1>2, <1>4, <1>8

LEMMA IdleIsFine ==
  ASSUME NEW c \in Sessions, session'[c] = Idle
  PROVE  CaseRequestOK(session[c])' /\ StillSo(session[c])'
<1>1. session'[c].op = "idle"
  BY DEF Idle
<1> QED
  BY <1>1 DEF CaseRequestOK, StillSo

LEMMA OthersAfterEnd ==
  ASSUME CaseInv, NEW c \in Sessions, NEW W, End(c, W),
         DOMAIN case \subseteq DOMAIN case', Stored \subseteq Stored',
         \A i \in DOMAIN case : <<"case", i>> \notin W =>
             /\ case'[i].status = case[i].status /\ case'[i].version = case[i].version
             /\ case'[i].escalated = case[i].escalated,
         \A x \in Stored : <<"finding", x>> \notin W => Row(x)' = Row(x)
  PROVE  /\ session' = [d \in Sessions |-> session'[d]] /\ raced \subseteq raced'
         /\ \A d \in Sessions : CaseRequestOK(session[d])' /\ StillSo(session[d])'
<1>1. /\ session' = [session EXCEPT ![c] = Idle] /\ session = [d \in Sessions |-> session[d]]
      /\ raced' = raced \cup {x \in W : \E d \in Sessions \ {c} : x \in Reads(session[d])}
  BY DEF End, CaseInv, CaseShapes
<1>2. /\ session' = [d \in Sessions |-> session'[d]] /\ raced \subseteq raced' /\ session'[c] = Idle
      /\ \A d \in Sessions \ {c} : session'[d] = session[d]
  BY <1>1
<1>3. ASSUME NEW d \in Sessions \ {c} PROVE Undisturbed(session[d])
  <2>1. \A x \in Reads(session[d]) \ raced' : x \notin W
    BY <1>1
  <2> QED
    BY <2>1 DEF Undisturbed
<1>4. ASSUME NEW d \in Sessions PROVE CaseRequestOK(session[d])' /\ StillSo(session[d])'
  <2>1. CASE d = c
    BY <1>2, <2>1, IdleIsFine
  <2>2. CASE d # c
    <3>1. session'[d] = session[d] /\ Undisturbed(session[d])
      BY <1>2, <1>3, <2>2
    <3> QED
      BY <1>2, <3>1, OthersGoOn
  <2> QED
    BY <2>1, <2>2
<1> QED
  BY <1>2, <1>4

-----------------------------------------------------------------------------
(* Rows that no step touches.                                              *)
LEMMA RowsRest ==
  ASSUME CaseInv, UNCHANGED <<finding, case, raced>>,
         session' = [c \in Sessions |-> session'[c]],
         \A c \in Sessions : CaseRequestOK(session'[c]) /\ StillSo(session'[c])
  PROVE  CaseInv'
<1>1. CaseShapes'
  BY DEF CaseInv, CaseShapes
<1>2. Stored' = Stored
  BY DEF Stored
<1>3. \A r \in Rules : \A n \in DOMAIN finding[r] : FindingOK(r, n)'
  BY DEF CaseInv, FindingOK
<1>4. \A i \in DOMAIN case : CaseOK(i)'
  BY <1>2 DEF CaseInv, CaseOK
<1>5. \A i \in DOMAIN case : /\ Tells(i) => Tells(i)'
                             /\ Closes(i) => Closes(i)'
  BY DEF Tells, Closes, LeadTo, Moves, Births, Edits, Alarms, Row
<1>6. \A c \in Sessions : CaseRequestOK(session[c])' /\ StillSo(session[c])'
  <2> SUFFICES ASSUME NEW c \in Sessions PROVE CaseRequestOK(session[c])' /\ StillSo(session[c])'
    OBVIOUS
  <2>1. PICK s : s = session'[c]
    OBVIOUS
  <2>2. CaseRequestOK(s) /\ StillSo(s)
    BY <2>1
  <2>3. CaseRequestOK(s)' /\ StillSo(s)'
    BY <2>2, <1>2 DEF CaseRequestOK, EditOK, StillSo, Row
  <2> QED
    BY <2>1, <2>3
<1>7. DOMAIN case' = DOMAIN case /\ \A r : DOMAIN finding'[r] = DOMAIN finding[r]
  OBVIOUS
<1> QED
  BY <1>1, <1>3, <1>4, <1>5, <1>6, <1>7 DEF CaseInv

LEMMA BeginningIsFine ==
  ASSUME CaseInv, NEW c \in Sessions, NEW s, Begin(c, s), CaseRequestOK(s), StillSo(s)
  PROVE  CaseInv'
<1>1. session' = [session EXCEPT ![c] = s] /\ UNCHANGED <<finding, case, raced>>
  BY DEF Begin
<1>2. session = [d \in Sessions |-> session[d]]
  BY DEF CaseInv, CaseShapes
<1>3. session' = [d \in Sessions |-> session'[d]]
  BY <1>1, <1>2
<1>4. \A d \in Sessions : session'[d] = IF d = c THEN s ELSE session[d]
  BY <1>1, <1>2
<1>5. \A d \in Sessions : CaseRequestOK(session'[d]) /\ StillSo(session'[d])
  BY <1>4 DEF CaseInv
<1> QED
  BY <1>1, <1>3, <1>5, RowsRest

LEMMA RollBackKeeps == ASSUME CaseInv, NEW c \in Sessions, RollBack(c) PROVE CaseInv'
<1>1. session' = [session EXCEPT ![c] = Idle] /\ UNCHANGED <<finding, case, raced>>
  BY DEF RollBack
<1>2. session = [d \in Sessions |-> session[d]]
  BY DEF CaseInv, CaseShapes
<1>3. session' = [d \in Sessions |-> session'[d]]
  BY <1>1, <1>2
<1>4. CaseRequestOK(Idle) /\ StillSo(Idle)
  <2>1. Idle.op = "idle"
    BY DEF Idle
  <2> QED
    BY <2>1 DEF CaseRequestOK, StillSo
<1>5. \A d \in Sessions : session'[d] = IF d = c THEN Idle ELSE session[d]
  BY <1>1, <1>2
<1>6. \A d \in Sessions : CaseRequestOK(session'[d]) /\ StillSo(session'[d])
  BY <1>4, <1>5 DEF CaseInv
<1> QED
  BY <1>1, <1>3, <1>6, RowsRest

(* A run or a person begins to write findings it found as they still are.  *)
LEMMA FindingsBegin ==
  ASSUME CaseInv, NEW c \in Sessions, NEW changes, NEW new, Findings(c, changes, new),
         DOMAIN changes \subseteq Stored, new \subseteq Rules,
         \A x \in DOMAIN changes :
             /\ changes[x] \in FindingStatuses
             /\ changes[x] \in {"open", "acknowledged"} => Row(x).status \in Live(x[1])
  PROVE  CaseInv'
<1>1. PICK s : s = [op |-> "findings", changes |-> changes, new |-> new]
  OBVIOUS
<1>2. Begin(c, s) /\ s.op = "findings" /\ s.changes = changes /\ s.new = new
  BY <1>1 DEF Findings
<1>3. CaseRequestOK(s) /\ StillSo(s)
  BY <1>2 DEF CaseRequestOK, StillSo
<1> QED
  BY <1>2, <1>3, BeginningIsFine

LEMMA RecomputeBegins ==
  ASSUME CaseInv, NEW c \in Sessions, NEW k, NEW fires \in SUBSET Rules, Recompute(c, k, fires)
  PROVE  CaseInv'
<1>1. PICK changes, new : changes = Changes(k, fires) /\ new = Added(fires)
  OBVIOUS
<1>2. Findings(c, changes, new)
  BY <1>1 DEF Recompute
<1>3. new \subseteq Rules
  BY <1>1 DEF Added
<1>4. ASSUME NEW x \in DOMAIN changes
      PROVE  /\ x \in Stored /\ changes[x] \in {"open", "resolved"}
             /\ Row(x).status \in Live(x[1])
  <2>1. x \in Stored /\ x[2] \in LiveRows(x[1]) /\ changes[x] \in {"open", "resolved"}
    BY <1>1 DEF Changes
  <2> QED
    BY <2>1 DEF LiveRows, Row
<1> QED
  BY <1>2, <1>3, <1>4, FindingsBegin DEF FindingStatuses

LEMMA FindingBegins ==
  ASSUME CaseInv, NEW c \in Sessions, NEW x \in Stored,
         ResolveFinding(c, x) \/ IgnoreFinding(c, x) \/ AcknowledgeFinding(c, x)
  PROVE  CaseInv'
<1>1. PICK status : /\ status \in {"resolved", "ignored", "acknowledged"} /\ Finding(c, x, status)
                    /\ status = "acknowledged" => Row(x).status = "open"
  BY DEF ResolveFinding, IgnoreFinding, AcknowledgeFinding
<1>2. PICK changes : changes = [y \in {x} |-> status]
  OBVIOUS
<1>3. Findings(c, changes, {}) /\ DOMAIN changes = {x} /\ changes[x] = status
  BY <1>1, <1>2 DEF Finding
<1>4. "open" \in Live(x[1])
  BY DEF Live
<1> QED
  BY <1>1, <1>3, <1>4, FindingsBegin DEF FindingStatuses

LEMMA CreateBegins ==
  ASSUME CasesGiven, CaseInv, NEW c \in Sessions, NEW x \in Stored \cup Manual, NEW a,
         CreateCase(c, x, a)
  PROVE  CaseInv'
<1>1. PICK s : s = [op |-> "create", source |-> x, assigned |-> a, number |-> Len(case) + 1] /\ Begin(c, s)
  BY DEF CreateCase
<1>2. s.op = "create" /\ s.source \in Stored \cup {NoValue}
  BY <1>1 DEF CasesGiven
<1>3. CaseRequestOK(s) /\ StillSo(s)
  BY <1>2 DEF CaseRequestOK, StillSo
<1> QED
  BY <1>1, <1>3, BeginningIsFine

LEMMA EscalationBegins ==
  ASSUME CaseInv, NEW c \in Sessions, NEW ids \in SUBSET DOMAIN case, RunEscalation(c, ids)
  PROVE  CaseInv'
<1>1. PICK s : s = [op |-> "escalate", ids |-> ids] /\ Begin(c, s)
  BY DEF RunEscalation
<1>2. s.op = "escalate" /\ s.ids \subseteq DOMAIN case /\ \A i \in s.ids : ~case[i].escalated
  BY <1>1 DEF RunEscalation
<1>3. CaseRequestOK(s) /\ StillSo(s)
  BY <1>2 DEF CaseRequestOK, StillSo
<1> QED
  BY <1>1, <1>3, BeginningIsFine

LEMMA EditBegins ==
  ASSUME CaseInv, NEW c \in Sessions, NEW i \in DOMAIN case,
         \/ \E to : TransitionStatus(c, i, to)
         \/ AssignCase(c, i) \/ AddComment(c, i)
  PROVE  CaseInv'
<1>1. case[i] \in CaseRow /\ case[i].version \in Nat /\ case[i].status \in CaseStatuses
  <2>1. case[i] \in CaseRow
    BY DEF CaseInv, CaseShapes
  <2> QED
    BY <2>1 DEF CaseRow
<1>2. CASE \E to : TransitionStatus(c, i, to)
  <2>1. PICK to : /\ to \in NextStatus(case[i].status)
                  /\ Edit(c, i, case[i].status, [status |-> to, version |-> Bumped(i)], Move(case[i].status, to))
    BY <1>2 DEF TransitionStatus
  <2>2. to \in CaseStatuses
    BY <1>1, <2>1 DEF NextStatus, CaseStatuses
  <2>3. PICK e : e = Move(case[i].status, to) /\ e = [type |-> "status", from |-> case[i].status, to |-> to]
    BY DEF Move
  <2>4. e \in Entry /\ e.type = "status" /\ e.from = case[i].status /\ e.to = to
    BY <1>1, <2>2, <2>3 DEF Entry
  <2>5. PICK s : /\ s = [op |-> "case", id |-> i, from |-> case[i].status,
                        set |-> [status |-> to, version |-> Bumped(i)], event |-> e]
                 /\ Begin(c, s)
    BY <2>1, <2>3 DEF Edit
  <2>6. /\ s.op = "case" /\ s.id = i /\ s.from = case[i].status /\ s.event = e
        /\ s.set = [status |-> to, version |-> s.set.version]
        /\ s.set.version = case[i].version + 1
    BY <2>5 DEF Bumped
  <2>7. CaseRequestOK(s) /\ StillSo(s)
    BY <2>1, <2>4, <2>6, <1>1 DEF CaseRequestOK, EditOK, StillSo
  <2> QED
    BY <2>5, <2>7, BeginningIsFine
<1>3. CASE AssignCase(c, i)
  <2>1. PICK s : /\ s = [op |-> "case", id |-> i, from |-> NoValue,
                        set |-> [version |-> Bumped(i)], event |-> [type |-> "edited"]]
                 /\ Begin(c, s)
    BY <1>3 DEF AssignCase, Edit, Note
  <2>2. /\ s.op = "case" /\ s.id = i /\ s.event \in Entry /\ s.event.type = "edited"
        /\ s.set = [version |-> s.set.version] /\ s.set.version = case[i].version + 1
    BY <2>1 DEF Bumped, Entry
  <2>3. CaseRequestOK(s) /\ StillSo(s)
    BY <2>2, <1>1 DEF CaseRequestOK, EditOK, StillSo
  <2> QED
    BY <2>1, <2>3, BeginningIsFine
<1>4. CASE AddComment(c, i)
  <2>1. PICK s : /\ s = [op |-> "case", id |-> i, from |-> NoValue, set |-> <<>>, event |-> [type |-> "noted"]]
                 /\ Begin(c, s)
    BY <1>4 DEF AddComment, Edit, Note
  <2>2. s.op = "case" /\ s.id = i /\ s.event \in Entry /\ s.event.type = "noted" /\ s.set = <<>>
    BY <2>1 DEF Entry
  <2>3. CaseRequestOK(s) /\ StillSo(s)
    BY <2>2 DEF CaseRequestOK, EditOK, StillSo
  <2> QED
    BY <2>1, <2>3, BeginningIsFine
<1> QED
  BY <1>2, <1>3, <1>4

-----------------------------------------------------------------------------
(* What writing a finding does.                                            *)
LEMMA SetRowIs ==
  ASSUME CaseShapes, NEW x \in Stored, NEW f \in FindingRow, finding' = SetRow(x, f.status, f.via)
  PROVE  /\ finding' \in [Rules -> Seq(FindingRow)] /\ Stored' = Stored
         /\ \A r \in Rules : DOMAIN finding'[r] = DOMAIN finding[r]
         /\ \A y \in Stored : Row(y)' = IF y = x THEN f ELSE Row(y)
         /\ \A r \in Rules : \A n \in DOMAIN finding[r] :
               finding'[r][n] = f \/ finding'[r][n] = finding[r][n]
<1>1. f = [status |-> f.status, via |-> f.via]
  BY DEF FindingRow
<1>2. x = <<x[1], x[2]>> /\ x[1] \in Rules /\ x[2] \in DOMAIN finding[x[1]]
  BY StoredIs
<1>3. finding \in [Rules -> Seq(FindingRow)]
  BY DEF CaseShapes
<1>4. finding' = [finding EXCEPT ![x[1]] = [finding[x[1]] EXCEPT ![x[2]] = f]]
  BY <1>1, <1>2, <1>3 DEF SetRow
<1>5. PICK t, u : t = finding[x[1]] /\ u = [t EXCEPT ![x[2]] = f]
  OBVIOUS
<1>6. t \in Seq(FindingRow) /\ x[2] \in DOMAIN t
  BY <1>2, <1>3, <1>5
<1>7. u \in Seq(FindingRow) /\ DOMAIN u = DOMAIN t /\ \A n \in DOMAIN t : u[n] = IF n = x[2] THEN f ELSE t[n]
  BY <1>5, <1>6
<1>8. /\ finding' \in [Rules -> Seq(FindingRow)] /\ finding'[x[1]] = u
      /\ \A r \in Rules : r # x[1] => finding'[r] = finding[r]
  BY <1>2, <1>3, <1>4, <1>5, <1>7
<1>9. \A r \in Rules : DOMAIN finding'[r] = DOMAIN finding[r]
  BY <1>5, <1>7, <1>8
<1>10. Stored' = Stored
  BY <1>9 DEF Stored, Rows
<1>11. ASSUME NEW r \in Rules, NEW n \in DOMAIN finding[r]
       PROVE  finding'[r][n] = IF r = x[1] /\ n = x[2] THEN f ELSE finding[r][n]
  BY <1>5, <1>7, <1>8
<1>12. ASSUME NEW y \in Stored PROVE Row(y)' = IF y = x THEN f ELSE Row(y)
  <2>1. y = <<y[1], y[2]>> /\ y[1] \in Rules /\ y[2] \in DOMAIN finding[y[1]]
    BY StoredIs
  <2>2. y = x <=> y[1] = x[1] /\ y[2] = x[2]
    BY <2>1, <1>2
  <2> QED
    BY <2>1, <2>2, <1>11 DEF Row
<1> QED
  BY <1>8, <1>9, <1>10, <1>11, <1>12

LEMMA RowIs ==
  ASSUME CaseInv, NEW x \in Stored
  PROVE  /\ Row(x) \in FindingRow /\ Row(x).via \in {NoValue} \cup DOMAIN case
         /\ Row(x).via # NoValue /\ <<"finding", x>> \notin raced => Row(x).status = "resolved"
<1>1. x = <<x[1], x[2]>> /\ x[1] \in Rules /\ x[2] \in DOMAIN finding[x[1]]
  BY StoredIs
<1>2. finding[x[1]] \in Seq(FindingRow)
  BY <1>1 DEF CaseInv, CaseShapes
<1>3. finding[x[1]][x[2]] \in FindingRow
  BY <1>1, <1>2
<1>4. FindingOK(x[1], x[2])
  BY <1>1 DEF CaseInv
<1> QED
  BY <1>1, <1>3, <1>4 DEF Row, FindingOK

LEMMA CaseIs ==
  ASSUME CaseInv, NEW i \in DOMAIN case
  PROVE  /\ case[i] \in CaseRow /\ i \in Nat /\ case[i].status \in CaseStatuses
         /\ case[i].events \in Seq(Entry) /\ case[i].version \in Nat /\ case[i].escalated \in BOOLEAN
<1>1. case \in Seq(CaseRow)
  BY DEF CaseInv, CaseShapes
<1>2. case[i] \in CaseRow /\ i \in Nat
  BY <1>1
<1> QED
  BY <1>2 DEF CaseRow

LEMMA CaseRests == ASSUME NEW i, case'[i] = case[i] PROVE Tells(i) => Tells(i)'
  BY DEF Tells, LeadTo, Moves, Births, Edits, Alarms

(* What a commit makes of the findings.                                    *)
LEMMA RevisedIs ==
  ASSUME CaseShapes, NEW changes, NEW new, DOMAIN changes \subseteq Stored,
         \A x \in DOMAIN changes : changes[x] \in FindingStatuses,
         finding' = Revised(changes, new)
  PROVE  /\ finding' \in [Rules -> Seq(FindingRow)] /\ Stored \subseteq Stored'
         /\ \A r \in Rules :
               /\ DOMAIN finding[r] \subseteq DOMAIN finding'[r]
               /\ \A n \in DOMAIN finding[r] :
                     finding'[r][n] = IF <<r, n>> \in DOMAIN changes
                                      THEN Put(finding[r][n], changes[<<r, n>>]) ELSE finding[r][n]
               /\ \A n \in DOMAIN finding'[r] \ DOMAIN finding[r] : finding'[r][n] = Fresh
<1>1. finding' = [r \in Rules |-> RevisedOf(r, changes, new)]
  BY DEF Revised
<1>2. Fresh \in FindingRow
  BY DEF Fresh, FindingRow, FindingStatuses
<1>3. ASSUME NEW f \in FindingRow, NEW status \in FindingStatuses PROVE Put(f, status) \in FindingRow
  BY DEF Put, FindingRow
<1>4. ASSUME NEW r \in Rules
      PROVE  /\ finding'[r] \in Seq(FindingRow) /\ DOMAIN finding[r] \subseteq DOMAIN finding'[r]
             /\ \A n \in DOMAIN finding[r] :
                   finding'[r][n] = IF <<r, n>> \in DOMAIN changes
                                    THEN Put(finding[r][n], changes[<<r, n>>]) ELSE finding[r][n]
             /\ \A n \in DOMAIN finding'[r] \ DOMAIN finding[r] : finding'[r][n] = Fresh
  <2>1. PICK t : t = finding[r]
    OBVIOUS
  <2>2. t \in Seq(FindingRow) /\ DOMAIN t = 1 .. Len(t) /\ Len(t) \in Nat /\ \A n \in DOMAIN t : t[n] \in FindingRow
    BY <2>1 DEF CaseShapes
  <2>3. PICK u : u = [n \in DOMAIN t |-> IF <<r, n>> \in DOMAIN changes
                                         THEN Put(t[n], changes[<<r, n>>]) ELSE t[n]]
    OBVIOUS
  <2>4. \A n \in DOMAIN t : u[n] \in FindingRow
    BY <1>3, <2>2, <2>3
  <2>5. u \in [1 .. Len(t) -> FindingRow]
    BY <2>2, <2>3, <2>4
  <2>6. u \in Seq(FindingRow) /\ DOMAIN u = DOMAIN t
    BY <2>2, <2>3, <2>5, SeqDef
  <2>7. finding'[r] = IF r \in new THEN Append(u, Fresh) ELSE u
    BY <1>1, <2>1, <2>3 DEF RevisedOf
  <2>8. /\ finding'[r] \in Seq(FindingRow) /\ DOMAIN u \subseteq DOMAIN finding'[r]
        /\ \A n \in DOMAIN u : finding'[r][n] = u[n]
        /\ \A n \in DOMAIN finding'[r] \ DOMAIN u : finding'[r][n] = Fresh
    BY <1>2, <2>6, <2>7
  <2>9. \A n \in DOMAIN t : u[n] = IF <<r, n>> \in DOMAIN changes
                                   THEN Put(t[n], changes[<<r, n>>]) ELSE t[n]
    BY <2>3
  <2> QED
    BY <2>1, <2>6, <2>8, <2>9
<1>5. finding' \in [Rules -> Seq(FindingRow)]
  BY <1>1, <1>4
<1>6. Stored \subseteq Stored'
  BY <1>4 DEF Stored, Rows
<1> QED
  BY <1>4, <1>5, <1>6

(* A run, or a person who resolves, ignores or acknowledges a finding,     *)
(* flushes and commits.                                                    *)
LEMMA CommitFindingsKeeps ==
  ASSUME CasesGiven, CaseInv, NEW c \in Sessions, CommitFindings(c)
  PROVE  CaseInv'
<1>1. PICK s, changes, new : s = session[c] /\ changes = s.changes /\ new = s.new
  OBVIOUS
<1>2. /\ s.op = "findings" /\ finding' = Revised(changes, new) /\ case' = case
      /\ End(c, {<<"finding", x>> : x \in DOMAIN changes})
  BY <1>1 DEF CommitFindings
<1>3. CaseRequestOK(s) /\ StillSo(s)
  BY <1>1 DEF CaseInv
<1>4. /\ DOMAIN changes \subseteq Stored
      /\ \A x \in DOMAIN changes : changes[x] \in FindingStatuses
  BY <1>1, <1>2, <1>3 DEF CaseRequestOK
<1>5. \A x \in DOMAIN changes :
          <<"finding", x>> \notin raced /\ changes[x] \in {"open", "acknowledged"} =>
              Row(x).status \in Live(x[1])
  BY <1>1, <1>2, <1>3 DEF StillSo
<1>6. CaseShapes
  BY DEF CaseInv
<1>7. /\ finding' \in [Rules -> Seq(FindingRow)] /\ Stored \subseteq Stored'
      /\ \A r \in Rules :
            /\ DOMAIN finding[r] \subseteq DOMAIN finding'[r]
            /\ \A n \in DOMAIN finding[r] :
                  finding'[r][n] = IF <<r, n>> \in DOMAIN changes
                                   THEN Put(finding[r][n], changes[<<r, n>>]) ELSE finding[r][n]
            /\ \A n \in DOMAIN finding'[r] \ DOMAIN finding[r] : finding'[r][n] = Fresh
  BY <1>2, <1>4, <1>6, RevisedIs
<1>8. ASSUME NEW y \in Stored
      PROVE  Row(y)' = IF y \in DOMAIN changes THEN Put(Row(y), changes[y]) ELSE Row(y)
  <2>1. y = <<y[1], y[2]>> /\ y[1] \in Rules /\ y[2] \in DOMAIN finding[y[1]]
    BY StoredIs
  <2> QED
    BY <1>7, <2>1 DEF Row
<1>9. /\ session' = [d \in Sessions |-> session'[d]] /\ raced \subseteq raced'
      /\ \A d \in Sessions : CaseRequestOK(session[d])' /\ StillSo(session[d])'
  <2>1. \A y \in Stored : <<"finding", y>> \notin {<<"finding", x>> : x \in DOMAIN changes} => Row(y)' = Row(y)
    BY <1>8
  <2> QED
    BY <1>2, <1>7, <2>1, OthersAfterEnd
<1>10. ASSUME NEW r \in Rules, NEW n \in DOMAIN finding'[r] PROVE FindingOK(r, n)'
  <2>1. CASE n \notin DOMAIN finding[r]
    <3>1. finding'[r][n] = Fresh
      BY <1>7, <1>10, <2>1
    <3> QED
      BY <3>1 DEF FindingOK, Fresh
  <2>2. CASE n \in DOMAIN finding[r] /\ <<r, n>> \notin DOMAIN changes
    <3>1. finding'[r][n] = finding[r][n] /\ FindingOK(r, n)
      BY <1>7, <2>2 DEF CaseInv
    <3> QED
      BY <1>2, <1>9, <3>1 DEF FindingOK
  <2>3. CASE n \in DOMAIN finding[r] /\ <<r, n>> \in DOMAIN changes
    <3>1. PICK x, f : x = <<r, n>> /\ f = finding[r][n]
      OBVIOUS
    <3>2. finding'[r][n] = Put(f, changes[x]) /\ FindingOK(r, n) /\ changes[x] \in FindingStatuses
      BY <1>4, <1>7, <2>3, <3>1 DEF CaseInv
    <3>3. Row(x) = f /\ x[1] = r
      BY <3>1 DEF Row
    <3>4. CASE changes[x] \in {"resolved", "ignored"}
      BY <3>2, <3>4 DEF FindingOK, Put
    <3>5. CASE changes[x] \in {"open", "acknowledged"}
      <4>1. finding'[r][n].via = f.via
        BY <3>2, <3>5 DEF Put
      <4>2. x \notin DOMAIN changes \/ <<"finding", x>> \in raced \/ f.status \in Live(r)
        BY <1>5, <3>3, <3>5
      <4>3. "resolved" \notin Live(r)
        BY DEF Live
      <4> QED
        BY <1>2, <1>9, <2>3, <3>1, <3>2, <4>1, <4>2, <4>3 DEF FindingOK
    <3> QED
      BY <3>2, <3>4, <3>5 DEF FindingStatuses
  <2> QED
    BY <2>1, <2>2, <2>3
<1>11. \A i \in DOMAIN case : CaseOK(i)'
  BY <1>2, <1>7 DEF CaseInv, CaseOK
<1>12. \A i \in DOMAIN case : <<"case", i>> \notin raced' => Tells(i)'
  BY <1>2, <1>9, CaseRests DEF CaseInv
<1>13. ASSUME NEW i \in DOMAIN case, <<"case", i>> \notin raced', <<"finding", case[i].source>> \notin raced'
       PROVE  Closes(i)'
  <2>1. Closes(i)
    BY <1>9, <1>13 DEF CaseInv
  <2>2. PICK y : y = case[i].source
    OBVIOUS
  <2>3. y \in Stored \cup {NoValue}
    BY <2>2 DEF CaseInv, CaseOK
  <2>4. CASE y \in Stored /\ y \in DOMAIN changes
    <3>1. Row(y)' = Put(Row(y), changes[y]) /\ changes[y] \in FindingStatuses
      BY <1>4, <1>8, <2>4
    <3>2. changes[y] \in {"open", "acknowledged"} => Row(y).status \in Live(y[1])
      BY <1>5, <1>9, <1>13, <2>2, <2>4
    <3>3. i # NoValue /\ Row(y)'.via \in {NoValue, Row(y).via} /\ Row(y)'.status = changes[y]
      BY <3>1, CaseIs DEF CasesGiven, Put
    <3>4. changes[y] \in Live(y[1]) => Row(y).status \in Live(y[1])
      BY <3>1, <3>2 DEF Live
    <3> QED
      BY <1>2, <2>1, <2>2, <3>3, <3>4 DEF Closes
  <2>5. CASE y \in Stored /\ y \notin DOMAIN changes
    BY <1>2, <1>8, <2>1, <2>2, <2>5 DEF Closes
  <2>6. CASE y = NoValue
    BY <1>2, <2>2, <2>6 DEF Closes
  <2> QED
    BY <2>3, <2>4, <2>5, <2>6
<1>14. CaseShapes'
  BY <1>2, <1>6, <1>7, <1>9 DEF CaseShapes
<1> QED
  BY <1>2, <1>9, <1>10, <1>11, <1>12, <1>13, <1>14 DEF CaseInv

-----------------------------------------------------------------------------
LEMMA CommitCreateKeeps ==
  ASSUME CasesGiven, CaseInv, NEW c \in Sessions, CommitCreate(c)
  PROVE  CaseInv'
<1>1. PICK x : x = session[c].source
  OBVIOUS
<1>timeline. PICK t : t = IF session[c].assigned THEN <<[type |-> "edited"], [type |-> "created"]>>
                                           ELSE <<[type |-> "created"]>>
  OBVIOUS
<1>2. PICK k : k = [source |-> x, status |-> "open", escalated |-> FALSE, version |-> 1, events |-> t]
  OBVIOUS
<1>3. /\ case' = Append(case, k) /\ finding' = finding /\ End(c, {})
      /\ x # NoValue => \A i \in DOMAIN case : case[i].source # x
  BY <1>1, <1>2, <1>timeline DEF CommitCreate, Note
<1>4. x \in Stored \cup {NoValue}
  BY <1>1 DEF CaseInv, CaseRequestOK, CommitCreate
<1>5. k \in CaseRow
  <2>1. [type |-> "created"] \in Entry /\ [type |-> "edited"] \in Entry
    BY DEF Entry
  <2>2. <<[type |-> "created"]>> \in Seq(Entry) /\ <<[type |-> "edited"], [type |-> "created"]>> \in Seq(Entry)
    BY <2>1
  <2>3. t \in Seq(Entry)
    BY <1>timeline, <2>2
  <2> QED
    BY <1>2, <1>4, <2>3 DEF CaseRow, CaseStatuses, Stored
<1>6. PICK m : m = Len(case) + 1
  OBVIOUS
<1>7. /\ case \in Seq(CaseRow) /\ case' \in Seq(CaseRow)
      /\ DOMAIN case' = DOMAIN case \cup {m} /\ m \notin DOMAIN case /\ m \in Nat
      /\ case'[m] = k /\ \A i \in DOMAIN case : case'[i] = case[i]
  <2>1. case \in Seq(CaseRow)
    BY DEF CaseInv, CaseShapes
  <2> QED
    BY <1>3, <1>5, <1>6, <2>1
<1>8. Stored' = Stored /\ \A y : Row(y)' = Row(y)
  BY <1>3 DEF Stored, Row
<1>9. /\ session' = [d \in Sessions |-> session'[d]] /\ raced \subseteq raced'
      /\ \A d \in Sessions : CaseRequestOK(session[d])' /\ StillSo(session[d])'
  BY <1>3, <1>7, <1>8, OthersAfterEnd
<1>10. \A r \in Rules : \A n \in DOMAIN finding'[r] : FindingOK(r, n)'
  BY <1>3, <1>7, <1>9 DEF CaseInv, FindingOK
<1>11. \A i \in DOMAIN case' : CaseOK(i)'
  <2>1. k.source = x
    BY <1>2
  <2> QED
    BY <1>3, <1>4, <1>7, <1>8, <2>1 DEF CaseInv, CaseOK
<1>12. Tells(m)'
  <2>1. case'[m].events = t
    BY <1>2, <1>7
  <2>2. PICK n \in {1, 2} : /\ Len(t) = n /\ DOMAIN t = 1 .. n /\ t[n].type = "created"
                            /\ \A j \in 1 .. n : j # n => t[j].type = "edited"
    <3>1. CASE session[c].assigned
      <4>1. t = <<[type |-> "edited"], [type |-> "created"]>>
        BY <1>timeline, <3>1
      <4>2. Len(t) = 2 /\ DOMAIN t = 1 .. 2 /\ t[1].type = "edited" /\ t[2].type = "created"
        BY <4>1
      <4> QED
        BY <4>2
    <3>2. CASE ~session[c].assigned
      <4>1. t = <<[type |-> "created"]>>
        BY <1>timeline, <3>2
      <4>2. Len(t) = 1 /\ DOMAIN t = 1 .. 1 /\ t[1].type = "created"
        BY <4>1
      <4> QED
        BY <4>2
    <3> QED
      BY <3>1, <3>2
  <2>births. Births(m)' = {n}
    BY <2>1, <2>2 DEF Births
  <2>3. Moves(m)' = {} /\ Edits(m)' = {} /\ Alarms(m)' = {}
    BY <2>1, <2>2, <2>births DEF Moves, Edits, Alarms
  <2>4. case'[m].status = "open" /\ case'[m].version = 1 /\ case'[m].escalated = FALSE
    BY <1>2, <1>7
  <2>5. Cardinality({}) = 0
    BY FS_EmptySet
  <2>6. LeadTo(m, Len(case[m].events) + 1, "open")'
    BY <2>3 DEF LeadTo
  <2> QED
    BY <2>3, <2>4, <2>5, <2>6, <2>births DEF Tells
<1>13. Closes(m)'
  <2>1. case'[m].source = x /\ case'[m].status = "open"
    BY <1>2, <1>7
  <2>2. x # NoValue => Row(x).via # m
    BY <1>4, <1>7, RowIs DEF CasesGiven
  <2> QED
    BY <1>8, <2>1, <2>2 DEF Closes, Terminal
<1>14. \A i \in DOMAIN case : Tells(i) => Tells(i)'
  BY <1>7, CaseRests
<1>15. \A i \in DOMAIN case : Closes(i) => Closes(i)'
  BY <1>7, <1>8 DEF Closes
<1>16. CaseShapes'
  BY <1>3, <1>7, <1>9 DEF CaseInv, CaseShapes
<1> QED
  BY <1>7, <1>9, <1>10, <1>11, <1>12, <1>13, <1>14, <1>15, <1>16 DEF CaseInv

LEMMA CommitEscalationKeeps ==
  ASSUME CaseInv, NEW c \in Sessions, CommitEscalation(c)
  PROVE  CaseInv'
<1>1. PICK ids, e : ids = session[c].ids /\ e = [type |-> "escalated"]
  OBVIOUS
<1>2. /\ case' = [i \in DOMAIN case |->
                    IF i \in ids THEN [case[i] EXCEPT !.escalated = TRUE, !.events = Append(@, e)]
                    ELSE case[i]]
      /\ finding' = finding /\ End(c, {<<"case", i>> : i \in ids})
      /\ session[c].op = "escalate"
  BY <1>1 DEF CommitEscalation, Note
<1>3. ids \subseteq DOMAIN case /\ StillSo(session[c])
  BY <1>1, <1>2 DEF CaseInv, CaseRequestOK
<1>4. e \in Entry /\ e.type = "escalated"
  BY <1>1 DEF Entry
<1>5. ASSUME NEW i \in ids
      PROVE  /\ case'[i] \in CaseRow /\ case'[i].source = case[i].source
             /\ case'[i].status = case[i].status /\ case'[i].version = case[i].version
             /\ case'[i].escalated /\ case'[i].events = Append(case[i].events, e)
  <2>1. /\ case[i] \in CaseRow
        /\ case'[i] = [case[i] EXCEPT !.escalated = TRUE, !.events = Append(case[i].events, e)]
    BY <1>2, <1>3, CaseIs
  <2>2. Append(case[i].events, e) \in Seq(Entry)
    BY <1>3, <1>4, CaseIs
  <2> QED
    BY <2>1, <2>2 DEF CaseRow
<1>6. \A i \in DOMAIN case : i \notin ids => case'[i] = case[i]
  BY <1>2
<1>7. DOMAIN case' = DOMAIN case /\ case' \in Seq(CaseRow)
  <2>1. case \in Seq(CaseRow) /\ DOMAIN case = 1 .. Len(case) /\ Len(case) \in Nat
    BY DEF CaseInv, CaseShapes
  <2>2. DOMAIN case' = DOMAIN case
    BY <1>2
  <2>3. \A i \in DOMAIN case : case'[i] \in CaseRow
    BY <1>5, <1>6, CaseIs
  <2>4. case' = [i \in 1 .. Len(case) |-> case'[i]]
    BY <1>2, <2>1
  <2>5. case' \in [1 .. Len(case) -> CaseRow]
    BY <2>1, <2>3, <2>4
  <2> QED
    BY <2>1, <2>2, <2>5, SeqDef
<1>8. Stored' = Stored /\ \A y : Row(y)' = Row(y)
  BY <1>2 DEF Stored, Row
<1>9. /\ session' = [d \in Sessions |-> session'[d]] /\ raced \subseteq raced'
      /\ \A d \in Sessions : CaseRequestOK(session[d])' /\ StillSo(session[d])'
  <2>1. \A i \in DOMAIN case : <<"case", i>> \notin {<<"case", j>> : j \in ids} => case'[i] = case[i]
    BY <1>6
  <2> QED
    BY <1>2, <1>7, <1>8, <2>1, OthersAfterEnd
<1>10. \A r \in Rules : \A n \in DOMAIN finding'[r] : FindingOK(r, n)'
  BY <1>2, <1>7, <1>9 DEF CaseInv, FindingOK
<1>11. \A i \in DOMAIN case : case'[i].source = case[i].source /\ case'[i].status = case[i].status
  BY <1>5, <1>6
<1>12. \A i \in DOMAIN case' : CaseOK(i)'
  BY <1>7, <1>8, <1>11 DEF CaseInv, CaseOK
<1>13. ASSUME NEW i \in DOMAIN case, <<"case", i>> \notin raced' PROVE Tells(i)'
  <2>1. Tells(i) /\ <<"case", i>> \notin raced /\ CaseShapes
    BY <1>9, <1>13 DEF CaseInv
  <2>2. CASE i \in ids
    <3>1. ~case[i].escalated
      BY <1>1, <1>2, <1>3, <2>1, <2>2 DEF StillSo
    <3> QED
      BY <1>4, <1>5, <1>7, <2>1, <2>2, <3>1, OneMoreEntry
  <2>3. CASE i \notin ids
    BY <1>6, <2>1, <2>3, CaseRests
  <2> QED
    BY <2>2, <2>3
<1>14. \A i \in DOMAIN case : Closes(i) => Closes(i)'
  BY <1>8, <1>11 DEF Closes
<1>15. CaseShapes'
  BY <1>2, <1>7, <1>9 DEF CaseInv, CaseShapes
<1>16. \A i \in DOMAIN case : <<"case", i>> \notin raced' /\ <<"finding", case'[i].source>> \notin raced' =>
          Closes(i)'
  BY <1>9, <1>11, <1>14 DEF CaseInv
<1> QED
  BY <1>7, <1>9, <1>10, <1>12, <1>13, <1>15, <1>16 DEF CaseInv

-----------------------------------------------------------------------------
(* What a transition of case i does to the finding it came from.           *)
LEMMA SyncIs ==
  ASSUME CasesGiven, CaseInv, NEW i \in DOMAIN case, NEW from, NEW to, NEW x, x = case[i].source,
         finding' = Sync(i, from, to)
  PROVE  \/ /\ finding' = finding
            /\ x # NoValue /\ to \in Terminal => Row(x).status \notin Live(x[1])
            /\ x # NoValue /\ to = "open" /\ from \in Terminal => Row(x) # [status |-> "resolved", via |-> i]
         \/ /\ x # NoValue
            /\ \E f \in FindingRow :
                  /\ finding' = SetRow(x, f.status, f.via)
                  /\ \/ f = [status |-> "resolved", via |-> i] /\ to \in Terminal
                     \/ f = [status |-> "open", via |-> NoValue] /\ to = "open" /\ from \in Terminal
<1>1. "open" \notin Terminal /\ i \in Nat
  BY CaseIs DEF Terminal
<1>2. CASE x # NoValue /\ to \in Terminal /\ Row(x).status \in Live(x[1])
  <2>1. finding' = SetRow(x, "resolved", i)
    BY <1>1, <1>2 DEF Sync
  <2>2. PICK f : f = [status |-> "resolved", via |-> i]
    OBVIOUS
  <2>3. f \in FindingRow /\ f.status = "resolved" /\ f.via = i
    BY <1>1, <2>2 DEF FindingRow, FindingStatuses
  <2> QED
    BY <1>2, <2>1, <2>2, <2>3
<1>3. CASE x # NoValue /\ to = "open" /\ from \in Terminal /\ Row(x) = [status |-> "resolved", via |-> i]
  <2>1. finding' = SetRow(x, "open", NoValue)
    BY <1>1, <1>3 DEF Sync
  <2>2. PICK f : f = [status |-> "open", via |-> NoValue]
    OBVIOUS
  <2>3. f \in FindingRow /\ f.status = "open" /\ f.via = NoValue
    BY <2>2 DEF FindingRow, FindingStatuses
  <2> QED
    BY <1>3, <2>1, <2>2, <2>3
<1>4. CASE /\ ~(x # NoValue /\ to \in Terminal /\ Row(x).status \in Live(x[1]))
           /\ ~(x # NoValue /\ to = "open" /\ from \in Terminal /\ Row(x) = [status |-> "resolved", via |-> i])
  <2>1. finding' = finding
    BY <1>4 DEF Sync
  <2> QED
    BY <1>4, <2>1
<1> QED
  BY <1>2, <1>3, <1>4

(* What committing request s makes of its case.                            *)
LEMMA EditIs ==
  ASSUME CaseInv, NEW s, EditOK(s), NEW k,
         k = Edited(case[s.id], s)
  PROVE  /\ k \in CaseRow /\ k.source = case[s.id].source /\ k.escalated = case[s.id].escalated
         /\ k.events = Append(case[s.id].events, s.event)
         /\ k.status = IF s.event.type = "status" THEN s.event.to ELSE case[s.id].status
         /\ k.version = IF s.event.type = "noted" THEN case[s.id].version ELSE s.set.version
         /\ s.event.type = "noted" <=> DOMAIN s.set = {}
<1>1. PICK r, e : r = case[s.id] /\ e = s.event
  OBVIOUS
<1>2. /\ r \in CaseRow /\ DOMAIN r = {"source", "status", "escalated", "version", "events"}
      /\ e \in Entry /\ e.type \in {"status", "edited", "noted"} /\ r.events \in Seq(Entry)
  BY <1>1, CaseIs DEF EditOK, CaseRow
<1>3. DOMAIN s.set = IF e.type = "noted" THEN {}
                     ELSE IF e.type = "edited" THEN {"version"} ELSE {"status", "version"}
  <2>1. CASE e.type = "noted"
    BY <1>1, <2>1 DEF EditOK
  <2>2. CASE e.type = "edited"
    <3>1. PICK v : s.set = [version |-> v]
      BY <1>1, <2>2 DEF EditOK
    <3> QED
      BY <2>2, <3>1
  <2>3. CASE e.type = "status"
    <3>1. PICK t, v : s.set = [status |-> t, version |-> v]
      BY <1>1, <2>3 DEF EditOK
    <3> QED
      BY <2>3, <3>1
  <2> QED
    BY <1>2, <2>1, <2>2, <2>3
<1>4. PICK a : a = Assign(r, s.set)
  OBVIOUS
<1>5. /\ a = [f \in DOMAIN r |-> a[f]] /\ DOMAIN a = DOMAIN r
      /\ \A f \in DOMAIN r : a[f] = IF f \in DOMAIN s.set THEN s.set[f] ELSE r[f]
  BY <1>4 DEF Assign
<1>6. /\ a.source = r.source /\ a.escalated = r.escalated /\ a.events = r.events
      /\ a.version = IF e.type = "noted" THEN r.version ELSE s.set.version
  BY <1>2, <1>3, <1>5
<1>7. a.status = IF e.type = "status" THEN e.to ELSE r.status
  <2>1. CASE e.type = "status"
    <3>1. PICK v : s.set = [status |-> e.to, version |-> v]
      BY <1>1, <2>1 DEF EditOK
    <3>2. s.set.status = e.to
      BY <3>1
    <3> QED
      BY <1>2, <1>3, <1>5, <2>1, <3>2
  <2>2. CASE e.type # "status"
    BY <1>2, <1>3, <1>5, <2>2
  <2> QED
    BY <2>1, <2>2
<1>8. k = [f \in DOMAIN a |-> IF f = "events" THEN Append(r.events, e) ELSE a[f]]
  BY <1>1, <1>2, <1>4, <1>5 DEF Edited
<1>9. /\ k.source = r.source /\ k.escalated = r.escalated /\ k.events = Append(r.events, e)
      /\ k.version = a.version /\ k.status = a.status
      /\ k = [f \in {"source", "status", "escalated", "version", "events"} |-> k[f]]
  BY <1>2, <1>5, <1>6, <1>8
<1>10. k \in CaseRow
  <2>1. Append(r.events, e) \in Seq(Entry)
    BY <1>2
  <2>2. k.version \in Nat
    BY <1>1, <1>2, <1>6, <1>9 DEF EditOK, CaseRow
  <2>3. k.status \in CaseStatuses
    BY <1>2, <1>7, <1>9 DEF Entry, CaseRow
  <2> QED
    BY <1>2, <1>9, <2>1, <2>2, <2>3 DEF CaseRow
<1> QED
  BY <1>1, <1>3, <1>6, <1>7, <1>9, <1>10

-----------------------------------------------------------------------------
LEMMA CommitEditKeeps ==
  ASSUME CasesGiven, CaseInv, NEW c \in Sessions, CommitEdit(c)
  PROVE  CaseInv'
<1>1. PICK s : s = session[c]
  OBVIOUS
<1>2. PICK i, e : i = s.id /\ e = s.event
  OBVIOUS
<1>3. PICK k : k = Edited(case[s.id], s)
  OBVIOUS
<1>4. PICK W : /\ End(c, W)
               /\ DOMAIN s.set # {} => <<"case", i>> \in W
               /\ \A y \in Stored : finding'[y[1]][y[2]] # Row(y) => <<"finding", y>> \in W
  <2>1. PICK V : /\ End(c, V)
                 /\ V = (IF DOMAIN s.set = {} THEN {} ELSE {<<"case", s.id>>})
                        \cup {<<"finding", x>> : x \in {y \in Stored : finding'[y[1]][y[2]] # Row(y)}}
    BY <1>1, Zenon DEF CommitEdit
  <2>2. DOMAIN s.set # {} => <<"case", i>> \in V
    BY <1>2, <2>1
  <2>3. \A y \in Stored : finding'[y[1]][y[2]] # Row(y) => <<"finding", y>> \in V
    BY <2>1
  <2> QED
    BY <2>1, <2>2, <2>3
<1>5. s.op = "case" /\ EditOK(s) /\ StillSo(s) /\ i \in DOMAIN case /\ CaseShapes
  BY <1>1, <1>2 DEF CommitEdit, CaseInv, CaseRequestOK, EditOK
<1>6. case' = [case EXCEPT ![i] = k]
  <2>1. case' = [case EXCEPT ![s.id] = Edited(case[s.id], s)]
    BY <1>1, <1>2, <1>5 DEF CommitEdit
  <2> QED
    BY <2>1, <1>2, <1>3
<1>7. finding' = IF e.type = "status" THEN Sync(i, s.from, e.to) ELSE finding
  BY <1>1, <1>2 DEF CommitEdit
<1>8. /\ k \in CaseRow /\ k.source = case[i].source /\ k.escalated = case[i].escalated
      /\ k.events = Append(case[i].events, e)
      /\ k.status = IF e.type = "status" THEN e.to ELSE case[i].status
      /\ k.version = IF e.type = "noted" THEN case[i].version ELSE s.set.version
      /\ e.type = "noted" <=> DOMAIN s.set = {}
  <2>1. /\ k \in CaseRow /\ k.source = case[s.id].source /\ k.escalated = case[s.id].escalated
        /\ k.events = Append(case[s.id].events, s.event)
        /\ k.status = IF s.event.type = "status" THEN s.event.to ELSE case[s.id].status
        /\ k.version = IF s.event.type = "noted" THEN case[s.id].version ELSE s.set.version
        /\ s.event.type = "noted" <=> DOMAIN s.set = {}
    BY <1>3, <1>5, EditIs
  <2> QED
    BY <1>2, <2>1
<1>9. /\ case' \in Seq(CaseRow) /\ DOMAIN case' = DOMAIN case
      /\ case'[i] = k /\ \A j \in DOMAIN case : j # i => case'[j] = case[j]
  <2>1. case \in Seq(CaseRow)
    BY <1>5 DEF CaseShapes
  <2> QED
    BY <1>5, <1>6, <1>8, <2>1
<1>10. /\ e \in Entry /\ e.type \in {"status", "edited", "noted"}
       /\ e.type = "status" => s.from = e.from /\ e.to \in NextStatus(e.from)
  BY <1>2, <1>5 DEF EditOK
<1>11. PICK x : x = case[i].source
  OBVIOUS
<1>12. x \in Stored \cup {NoValue}
  BY <1>5, <1>11 DEF CaseInv, CaseOK
(* The findings after the step: at most that of the case has changed.      *)
<1>13. \/ /\ finding' = finding
          /\ e.type = "status" /\ x # NoValue /\ e.to \in Terminal => Row(x).status \notin Live(x[1])
          /\ e.type = "status" /\ x # NoValue /\ e.to = "open" /\ s.from \in Terminal =>
                Row(x) # [status |-> "resolved", via |-> i]
       \/ /\ x # NoValue /\ x \in Stored /\ e.type = "status"
          /\ \E f \in FindingRow :
                /\ finding' = SetRow(x, f.status, f.via)
                /\ \/ f = [status |-> "resolved", via |-> i] /\ e.to \in Terminal
                   \/ f = [status |-> "open", via |-> NoValue] /\ e.to = "open" /\ s.from \in Terminal
  <2>1. CASE e.type = "status"
    <3>1. finding' = Sync(i, s.from, e.to)
      BY <1>7, <2>1
    <3> QED
      BY <1>5, <1>11, <1>12, <2>1, <3>1, SyncIs
  <2>2. CASE e.type # "status"
    BY <1>7, <2>2
  <2> QED
    BY <2>1, <2>2
<1>14. /\ finding' \in [Rules -> Seq(FindingRow)] /\ Stored' = Stored
       /\ \A r \in Rules : DOMAIN finding'[r] = DOMAIN finding[r]
       /\ \A y \in Stored : y # x => Row(y)' = Row(y)
       /\ \A r \in Rules : \A n \in DOMAIN finding[r] :
             \/ finding'[r][n].via = i /\ finding'[r][n].status = "resolved"
             \/ finding'[r][n].via = NoValue
             \/ finding'[r][n] = finding[r][n]
  <2>1. CASE finding' = finding
    BY <1>5, <2>1 DEF CaseShapes, Stored, Row
  <2>2. ASSUME NEW f \in FindingRow, finding' = SetRow(x, f.status, f.via), x \in Stored,
               \/ f = [status |-> "resolved", via |-> i]
               \/ f = [status |-> "open", via |-> NoValue]
        PROVE  /\ finding' \in [Rules -> Seq(FindingRow)] /\ Stored' = Stored
               /\ \A r \in Rules : DOMAIN finding'[r] = DOMAIN finding[r]
               /\ \A y \in Stored : y # x => Row(y)' = Row(y)
               /\ \A r \in Rules : \A n \in DOMAIN finding[r] :
                     \/ finding'[r][n].via = i /\ finding'[r][n].status = "resolved"
                     \/ finding'[r][n].via = NoValue
                     \/ finding'[r][n] = finding[r][n]
    <3>1. /\ finding' \in [Rules -> Seq(FindingRow)] /\ Stored' = Stored
          /\ \A r \in Rules : DOMAIN finding'[r] = DOMAIN finding[r]
          /\ \A y \in Stored : Row(y)' = IF y = x THEN f ELSE Row(y)
          /\ \A r \in Rules : \A n \in DOMAIN finding[r] :
                finding'[r][n] = f \/ finding'[r][n] = finding[r][n]
      BY <1>5, <2>2, SetRowIs
    <3>2. (f.via = i /\ f.status = "resolved") \/ f.via = NoValue
      BY <2>2
    <3> QED
      BY <3>1, <3>2
  <2> QED
    BY <1>13, <2>1, <2>2
<1>15. /\ session' = [d \in Sessions |-> session'[d]] /\ raced \subseteq raced'
       /\ \A d \in Sessions : CaseRequestOK(session[d])' /\ StillSo(session[d])'
  <2>1. ASSUME NEW j \in DOMAIN case, <<"case", j>> \notin W
        PROVE  /\ case'[j].status = case[j].status /\ case'[j].version = case[j].version
               /\ case'[j].escalated = case[j].escalated
    <3>1. CASE j = i
      BY <1>4, <1>8, <1>9, <2>1, <3>1
    <3>2. CASE j # i
      BY <1>9, <3>2
    <3> QED
      BY <3>1, <3>2
  <2>2. ASSUME NEW y \in Stored, <<"finding", y>> \notin W PROVE Row(y)' = Row(y)
    BY <1>4, <2>2 DEF Row
  <2> QED
    BY <1>4, <1>9, <1>14, <2>1, <2>2, OthersAfterEnd
<1>16. \A r \in Rules : \A n \in DOMAIN finding'[r] : FindingOK(r, n)'
  <2> SUFFICES ASSUME NEW r \in Rules, NEW n \in DOMAIN finding'[r] PROVE FindingOK(r, n)'
    OBVIOUS
  <2>1. n \in DOMAIN finding[r] /\ FindingOK(r, n)
    BY <1>14 DEF CaseInv
  <2>2. \/ finding'[r][n].via = i /\ finding'[r][n].status = "resolved"
        \/ finding'[r][n].via = NoValue
        \/ finding'[r][n] = finding[r][n]
    BY <1>14, <2>1
  <2> QED
    BY <1>5, <1>9, <1>15, <2>1, <2>2 DEF FindingOK
<1>17. \A j \in DOMAIN case : case'[j].source = case[j].source
  BY <1>8, <1>9
<1>18. \A j \in DOMAIN case' : CaseOK(j)'
  BY <1>9, <1>14, <1>17 DEF CaseInv, CaseOK
<1>19. ASSUME NEW j \in DOMAIN case, <<"case", j>> \notin raced' PROVE Tells(j)'
  <2>1. Tells(j) /\ <<"case", j>> \notin raced
    BY <1>15, <1>19 DEF CaseInv
  <2>2. CASE j = i
    <3>1. /\ e.type # "noted" => s.set.version = case[i].version + 1
          /\ e.type = "status" => s.from = case[i].status
      BY <1>2, <1>5, <2>1, <2>2 DEF StillSo
    <3> QED
      BY <1>5, <1>8, <1>9, <1>10, <2>1, <2>2, <3>1, OneMoreEntry
  <2>3. CASE j # i
    BY <1>9, <2>1, <2>3, CaseRests
  <2> QED
    BY <2>2, <2>3
<1>20. ASSUME NEW j \in DOMAIN case, <<"case", j>> \notin raced', <<"finding", case'[j].source>> \notin raced'
       PROVE  Closes(j)'
  <2>1. Closes(j) /\ <<"case", j>> \notin raced
    BY <1>15, <1>17, <1>20 DEF CaseInv
  <2>2. CASE x = NoValue /\ j = i
    BY <1>11, <1>17, <2>2 DEF Closes
  <2>3. CASE j # i
    <3>1. case[j].source # NoValue => case[j].source \in Stored /\ case[j].source # x
      BY <1>5, <1>11, <1>12, <2>3 DEF CaseInv, CaseOK
    <3> QED
      BY <1>9, <1>14, <2>1, <2>3, <3>1 DEF Closes
  <2>4. CASE x # NoValue /\ j = i
    <3>1. e.type = "status" => s.from = case[i].status
      BY <1>2, <1>5, <2>1, <2>4 DEF StillSo
    <3>2. x \in Stored /\ i # NoValue
      BY <1>5, <1>12, <2>4, CaseIs DEF CasesGiven
    <3>3. case'[i].status = IF e.type = "status" THEN e.to ELSE case[i].status
      BY <1>8, <1>9
    <3>4. /\ case[i].status \in Terminal => Row(x).status \notin Live(x[1])
          /\ case[i].status \notin Terminal => Row(x).via # i
      BY <1>11, <2>1, <2>4 DEF Closes
    <3>5. /\ case'[i].status \in Terminal => Row(x)'.status \notin Live(x[1])
          /\ case'[i].status \notin Terminal => Row(x)'.via # i
      <4>1. CASE e.type # "status"
        <5>1. finding' = finding /\ Row(x)' = Row(x)
          BY <1>13, <4>1 DEF Row
        <5> QED
          BY <3>3, <3>4, <4>1, <5>1
      <4>2. CASE e.type = "status"
        <5>1. /\ case'[i].status = e.to /\ e.to \in NextStatus(case[i].status)
              /\ case[i].status \in CaseStatuses /\ s.from = case[i].status
          BY <1>5, <1>10, <3>1, <3>3, <4>2, CaseIs
        <5>2. e.to \notin Terminal /\ case[i].status \in Terminal => e.to = "open"
          BY <5>1 DEF NextStatus, Terminal, CaseStatuses
        <5>3. CASE /\ finding' = finding
                   /\ e.to \in Terminal => Row(x).status \notin Live(x[1])
                   /\ e.to = "open" /\ s.from \in Terminal => Row(x) # [status |-> "resolved", via |-> i]
          <6>1. Row(x)' = Row(x)
            BY <5>3 DEF Row
          <6>2. Row(x).via = i => Row(x) = [status |-> "resolved", via |-> i]
            <7>1. Row(x) \in FindingRow /\ (Row(x).via # NoValue => Row(x).status = "resolved")
              BY <1>11, <1>15, <1>17, <1>20, <2>4, <3>2, RowIs
            <7> QED
              BY <3>2, <7>1 DEF FindingRow
          <6> QED
            BY <3>4, <5>1, <5>2, <5>3, <6>1, <6>2
        <5>4. ASSUME NEW f \in FindingRow, finding' = SetRow(x, f.status, f.via),
                     \/ f = [status |-> "resolved", via |-> i] /\ e.to \in Terminal
                     \/ f = [status |-> "open", via |-> NoValue] /\ e.to = "open"
              PROVE  /\ e.to \in Terminal => Row(x)'.status \notin Live(x[1])
                     /\ e.to \notin Terminal => Row(x)'.via # i
          <6>1. Row(x)' = f
            BY <1>5, <3>2, <5>4, SetRowIs
          <6>2. "resolved" \notin Live(x[1]) /\ "open" \notin Terminal
            BY DEF Live, Terminal
          <6> QED
            BY <3>2, <5>4, <6>1, <6>2
        <5> QED
          BY <1>13, <2>4, <4>2, <5>1, <5>3, <5>4
      <4> QED
        BY <4>1, <4>2
    <3> QED
      BY <1>11, <1>17, <2>4, <3>5 DEF Closes
  <2> QED
    BY <2>2, <2>3, <2>4
<1>21. CaseShapes'
  BY <1>9, <1>14, <1>15 DEF CaseShapes
<1> QED
  BY <1>9, <1>15, <1>16, <1>18, <1>19, <1>20, <1>21 DEF CaseInv

-----------------------------------------------------------------------------
LEMMA StepCases == CasesGiven /\ CaseInv /\ [CasesNext]_casesVars => CaseInv'
<1> SUFFICES ASSUME CasesGiven, CaseInv, [CasesNext]_casesVars PROVE CaseInv'
  OBVIOUS
<1>1. CASE UNCHANGED casesVars
  <2>1. UNCHANGED <<finding, case, raced, session>>
    BY <1>1 DEF casesVars
  <2>2. session' = [c \in Sessions |-> session'[c]]
    BY <2>1 DEF CaseInv, CaseShapes
  <2>3. \A c \in Sessions : CaseRequestOK(session'[c]) /\ StillSo(session'[c])
    BY <2>1 DEF CaseInv
  <2> QED
    BY <2>1, <2>2, <2>3, RowsRest
<1>2. ASSUME NEW c \in Sessions, NEW k \in BOOLEAN, NEW fires \in SUBSET {r \in Rules : Kind(r) = k},
             Recompute(c, k, fires)
      PROVE  CaseInv'
  BY <1>2, RecomputeBegins
<1>3. ASSUME NEW c \in Sessions, NEW x \in Stored,
             ResolveFinding(c, x) \/ IgnoreFinding(c, x) \/ AcknowledgeFinding(c, x)
      PROVE  CaseInv'
  BY <1>3, FindingBegins
<1>4. ASSUME NEW c \in Sessions, NEW x \in Stored \cup Manual, NEW a \in BOOLEAN, CreateCase(c, x, a)
      PROVE  CaseInv'
  BY <1>4, CreateBegins
<1>5. ASSUME NEW c \in Sessions, NEW i \in DOMAIN case,
             \/ \E to \in Asked : TransitionStatus(c, i, to)
             \/ AssignCase(c, i) \/ AddComment(c, i)
      PROVE  CaseInv'
  BY <1>5, EditBegins
<1>6. ASSUME NEW c \in Sessions, NEW ids \in SUBSET DOMAIN case, RunEscalation(c, ids) PROVE CaseInv'
  BY <1>6, EscalationBegins
<1>7. ASSUME NEW c \in Sessions,
             CommitFindings(c) \/ CommitCreate(c) \/ CommitEdit(c) \/ CommitEscalation(c) \/ RollBack(c)
      PROVE  CaseInv'
  BY <1>7, CommitFindingsKeeps, CommitCreateKeeps, CommitEditKeeps, CommitEscalationKeeps, RollBackKeeps
<1> QED
  BY <1>1, <1>2, <1>3, <1>4, <1>5, <1>6, <1>7 DEF CasesNext

LEMMA CaseInvariance == CasesSpec => []CaseInv
<1>1. CasesGiven
  BY CasesAssumption DEF CasesGiven
<1> QED
  BY <1>1, InitCases, StepCases, PTL DEF CasesSpec

(* A timeline accounts for its case: for every number of cases, entries    *)
(* and sessions the moves lead from open to its status along the           *)
(* lifecycle, edits count in its version and it is escalated once, unless  *)
(* sessions raced on it.                                                   *)
THEOREM TimelinesAccount == CasesSpec => []TimelineTells
<1>1. CaseInv => TimelineTells
  <2> SUFFICES ASSUME CaseInv, NEW i \in DOMAIN case, <<"case", i>> \notin raced
               PROVE  Tells(i)
    BY DEF TimelineTells, Tells, Births, Edits, Alarms
  <2> QED
    BY DEF CaseInv
<1> QED
  BY CaseInvariance, <1>1, PTL

(* The finding of a case is closed and reopened with it, whatever runs of  *)
(* the rules, people and other cases do, unless sessions raced on either.  *)
THEOREM LoopsAreClosed == CasesSpec => []LoopIsClosed
<1>1. CaseInv => LoopIsClosed
  BY DEF CaseInv, LoopIsClosed, Closes
<1> QED
  BY CaseInvariance, <1>1, PTL
-----------------------------------------------------------------------------
(* A data-quality finding is never acknowledged, nor is about to be.       *)
Unacknowledged(f) == \A r \in Rules \ Risk : \A n \in DOMAIN f[r] : f[r][n].status # "acknowledged"

AcknowledgesRisks(s) ==
    s.op = "findings" => \A x \in DOMAIN s.changes : s.changes[x] = "acknowledged" => x[1] \in Risk

KindInv ==
    /\ UniqueRows(finding) /\ Unacknowledged(finding)
    /\ \A c \in Sessions : AcknowledgesRisks(session[c])

LEMMA InitKinds == CasesInit => KindInv
  BY DEF CasesInit, KindInv, UniqueRows, Unacknowledged, AcknowledgesRisks, Idle

(* Setting row x to f, which acknowledges it only if it is of a risk rule. *)
LEMMA SetRowKinds ==
  ASSUME CaseInv, KindInv, NEW x \in Stored, NEW f \in FindingRow, finding' = SetRow(x, f.status, f.via),
         f.status = "acknowledged" => x[1] \in Risk
  PROVE  Unacknowledged(finding)'
<1>1. CaseShapes
  BY DEF CaseInv
<1>2. /\ Stored' = Stored
      /\ \A r \in Rules : DOMAIN finding'[r] = DOMAIN finding[r]
      /\ \A y \in Stored : Row(y)' = IF y = x THEN f ELSE Row(y)
  BY <1>1, SetRowIs
<1>3. ASSUME NEW r \in Rules \ Risk, NEW n \in DOMAIN finding'[r]
      PROVE  finding'[r][n].status # "acknowledged"
  <2>1. n \in DOMAIN finding[r] /\ finding[r][n].status # "acknowledged"
    BY <1>2 DEF KindInv, Unacknowledged
  <2>2. CASE r = x[1]
    <3>1. f.status # "acknowledged"
      BY <2>2
    <3>2. finding'[r][n] = f \/ finding'[r][n] = finding[r][n]
      BY <1>1, <2>1, SetRowIs
    <3> QED
      BY <2>1, <3>1, <3>2
  <2>3. CASE r # x[1]
    <3>1. x[1] \in Rules /\ finding \in [Rules -> Seq(FindingRow)]
      BY <1>1, StoredIs DEF CaseShapes
    <3>2. finding'[r] = finding[r]
      BY <2>3, <3>1 DEF SetRow
    <3> QED
      BY <2>1, <3>2
  <2> QED
    BY <2>2, <2>3
<1> QED
  BY <1>3 DEF Unacknowledged

(* What runs and people write to findings.                                 *)
LEMMA CommitFindingsKinds ==
  ASSUME CaseInv, KindInv, NEW c \in Sessions, CommitFindings(c)
  PROVE  Unacknowledged(finding)' /\ UniqueRows(finding)'
<1>1. PICK s, changes, new : s = session[c] /\ changes = s.changes /\ new = s.new
  OBVIOUS
<1>2. s.op = "findings" /\ finding' = Revised(changes, new) /\ UniqueRows(finding)'
  BY <1>1 DEF CommitFindings, UniqueRows
<1>3. /\ DOMAIN changes \subseteq Stored
      /\ \A x \in DOMAIN changes : changes[x] \in FindingStatuses
  BY <1>1, <1>2 DEF CaseInv, CaseRequestOK
<1>4. \A x \in DOMAIN changes : changes[x] = "acknowledged" => x[1] \in Risk
  BY <1>1, <1>2 DEF KindInv, AcknowledgesRisks
<1>5. \A r \in Rules :
          /\ \A n \in DOMAIN finding[r] :
                finding'[r][n] = IF <<r, n>> \in DOMAIN changes
                                 THEN Put(finding[r][n], changes[<<r, n>>]) ELSE finding[r][n]
          /\ \A n \in DOMAIN finding'[r] \ DOMAIN finding[r] : finding'[r][n] = Fresh
  <2>1. CaseShapes
    BY DEF CaseInv
  <2> QED
    BY <1>2, <1>3, <2>1, RevisedIs
<1>6. ASSUME NEW r \in Rules \ Risk, NEW n \in DOMAIN finding'[r]
      PROVE  finding'[r][n].status # "acknowledged"
  <2>1. CASE n \notin DOMAIN finding[r]
    BY <1>5, <1>6, <2>1 DEF Fresh
  <2>2. CASE n \in DOMAIN finding[r] /\ <<r, n>> \in DOMAIN changes
    <3>1. finding'[r][n].status = changes[<<r, n>>]
      <4>1. finding'[r][n] = Put(finding[r][n], changes[<<r, n>>])
        BY <1>5, <2>2
      <4> QED
        BY <4>1 DEF Put
    <3>2. <<r, n>>[1] = r
      OBVIOUS
    <3> QED
      BY <1>4, <2>2, <3>1, <3>2
  <2>3. CASE n \in DOMAIN finding[r] /\ <<r, n>> \notin DOMAIN changes
    BY <1>5, <2>3 DEF KindInv, Unacknowledged
  <2> QED
    BY <2>1, <2>2, <2>3
<1> QED
  BY <1>2, <1>6 DEF Unacknowledged

LEMMA CommitEditKinds ==
  ASSUME CasesGiven, CaseInv, KindInv, NEW c \in Sessions, CommitEdit(c)
  PROVE  Unacknowledged(finding)' /\ UniqueRows(finding)'
<1>1. PICK s : s = session[c]
  OBVIOUS
<1>2. /\ s.op = "case" /\ UniqueRows(finding)'
      /\ finding' = IF s.event.type = "status" THEN Sync(s.id, s.from, s.event.to) ELSE finding
  BY <1>1 DEF CommitEdit, UniqueRows
<1>3. s.id \in DOMAIN case
  BY <1>1, <1>2 DEF CaseInv, CaseRequestOK, EditOK
<1>4. CASE finding' = finding
  BY <1>4 DEF KindInv, Unacknowledged
<1>5. CASE finding' # finding
  <2>1. finding' = Sync(s.id, s.from, s.event.to)
    BY <1>2, <1>5
  <2>2. PICK x : x = case[s.id].source
    OBVIOUS
  <2>3. PICK f \in FindingRow : /\ x # NoValue /\ finding' = SetRow(x, f.status, f.via)
                                /\ \/ f = [status |-> "resolved", via |-> s.id]
                                   \/ f = [status |-> "open", via |-> NoValue]
    BY <1>3, <1>5, <2>1, <2>2, SyncIs
  <2>4. x \in Stored
    BY <1>3, <2>2, <2>3 DEF CaseInv, CaseOK
  <2>5. f.status # "acknowledged"
    BY <2>3
  <2> QED
    BY <1>2, <2>3, <2>4, <2>5, SetRowKinds
<1> QED
  BY <1>2, <1>4, <1>5

(* Only a request for a risk finding asks to acknowledge it.               *)
LEMMA SessionKinds ==
  ASSUME KindInv, Unacknowledged(finding)', UniqueRows(finding)', NEW c \in Sessions, NEW s,
         session' = [session EXCEPT ![c] = s], session = [d \in Sessions |-> session[d]],
         AcknowledgesRisks(s)
  PROVE  KindInv'
<1>1. \A d \in Sessions : session'[d] = IF d = c THEN s ELSE session[d]
  OBVIOUS
<1>2. \A d \in Sessions : AcknowledgesRisks(session'[d])
  BY <1>1 DEF KindInv
<1> QED
  BY <1>2 DEF KindInv, AcknowledgesRisks

LEMMA StepKinds ==
  ASSUME CasesGiven, CaseInv, KindInv, [CasesNext]_casesVars
  PROVE  KindInv'
<1>1. session = [c \in Sessions |-> session[c]]
  BY DEF CaseInv, CaseShapes
<1>2. AcknowledgesRisks(Idle)
  BY DEF AcknowledgesRisks, Idle
<1>3. CASE UNCHANGED casesVars
  BY <1>3 DEF casesVars, KindInv, UniqueRows, Unacknowledged, AcknowledgesRisks
<1>5. ASSUME NEW c \in Sessions, NEW s, Begin(c, s), AcknowledgesRisks(s)
      PROVE  KindInv'
  <2>1. finding' = finding /\ session' = [session EXCEPT ![c] = s]
    BY <1>5 DEF Begin
  <2>2. Unacknowledged(finding)' /\ UniqueRows(finding)'
    BY <2>1 DEF KindInv, Unacknowledged, UniqueRows
  <2> QED
    BY <1>1, <1>5, <2>1, <2>2, SessionKinds
<1>6. ASSUME NEW c \in Sessions, NEW x \in Stored,
             ResolveFinding(c, x) \/ IgnoreFinding(c, x) \/ AcknowledgeFinding(c, x)
      PROVE  KindInv'
  <2>1. PICK status : Finding(c, x, status) /\ (status = "acknowledged" => x[1] \in Risk)
    BY <1>6 DEF ResolveFinding, IgnoreFinding, AcknowledgeFinding
  <2>2. PICK changes : changes = [y \in {x} |-> status]
    OBVIOUS
  <2>3. PICK s : s = [op |-> "findings", changes |-> changes, new |-> {}]
    OBVIOUS
  <2>4. Begin(c, s)
    BY <2>1, <2>2, <2>3 DEF Finding, Findings
  <2>5. s.changes = changes /\ DOMAIN changes = {x} /\ changes[x] = status
    BY <2>2, <2>3
  <2>6. AcknowledgesRisks(s)
    BY <2>1, <2>5 DEF AcknowledgesRisks
  <2> QED
    BY <1>5, <2>4, <2>6
<1>4. ASSUME NEW c \in Sessions, NEW k, NEW fires, Recompute(c, k, fires) PROVE KindInv'
  <2>1. PICK changes : changes = Changes(k, fires)
    OBVIOUS
  <2>2. PICK s : s = [op |-> "findings", changes |-> changes, new |-> Added(fires)]
    OBVIOUS
  <2>3. Begin(c, s) /\ s.changes = changes
    BY <1>4, <2>1, <2>2 DEF Recompute, Findings
  <2>4. \A x \in DOMAIN changes : changes[x] \in {"open", "resolved"}
    BY <2>1 DEF Changes
  <2>5. AcknowledgesRisks(s)
    BY <2>3, <2>4 DEF AcknowledgesRisks
  <2> QED
    BY <1>5, <2>3, <2>5
<1>7. ASSUME NEW c \in Sessions, NEW x, NEW a, CreateCase(c, x, a) PROVE KindInv'
  <2>1. PICK s : Begin(c, s) /\ s.op = "create"
    BY <1>7 DEF CreateCase
  <2> QED
    BY <1>5, <2>1 DEF AcknowledgesRisks
<1>8. ASSUME NEW c \in Sessions, NEW i,
             \/ \E to \in Asked : TransitionStatus(c, i, to)
             \/ AssignCase(c, i) \/ AddComment(c, i)
      PROVE  KindInv'
  <2>1. PICK s : Begin(c, s) /\ s.op = "case"
    <3>1. PICK from, set, event : Edit(c, i, from, set, event)
      BY <1>8 DEF TransitionStatus, AssignCase, AddComment
    <3>2. PICK s : s = [op |-> "case", id |-> i, from |-> from, set |-> set, event |-> event]
      OBVIOUS
    <3>3. Begin(c, s)
      BY <3>1, <3>2 DEF Edit
    <3>4. s.op = "case"
      BY <3>2
    <3> QED
      BY <3>3, <3>4
  <2> QED
    BY <1>5, <2>1 DEF AcknowledgesRisks
<1>9. ASSUME NEW c \in Sessions, NEW ids, RunEscalation(c, ids) PROVE KindInv'
  <2>1. PICK s : Begin(c, s) /\ s.op = "escalate"
    BY <1>9 DEF RunEscalation
  <2> QED
    BY <1>5, <2>1 DEF AcknowledgesRisks
<1>10. ASSUME NEW c \in Sessions,
              CommitFindings(c) \/ CommitCreate(c) \/ CommitEdit(c) \/ CommitEscalation(c) \/ RollBack(c)
       PROVE  KindInv'
  <2>1. session' = [session EXCEPT ![c] = Idle]
    BY <1>10 DEF CommitFindings, CommitCreate, CommitEdit, CommitEscalation, RollBack, End
  <2>2. Unacknowledged(finding)' /\ UniqueRows(finding)'
    <3>1. CASE CommitFindings(c)
      BY <3>1, CommitFindingsKinds
    <3>2. CASE CommitEdit(c)
      BY <3>2, CommitEditKinds
    <3>3. CASE CommitCreate(c) \/ CommitEscalation(c) \/ RollBack(c)
      <4>1. finding' = finding
        BY <3>3 DEF CommitCreate, CommitEscalation, RollBack
      <4> QED
        BY <4>1 DEF KindInv, Unacknowledged, UniqueRows
    <3> QED
      BY <1>10, <3>1, <3>2, <3>3
  <2> QED
    BY <1>1, <1>2, <2>1, <2>2, SessionKinds
<1> QED
  BY <1>3, <1>4, <1>6, <1>7, <1>8, <1>9, <1>10 DEF CasesNext

(* Findings have the statuses of their kind and keep to the unique keys;   *)
(* cases and findings name each other only where there is one, and no two  *)
(* cases have one source.                                                  *)
THEOREM CasesTyped == CasesSpec => []CasesTypeOK
<1>1. CaseInv /\ KindInv => CasesTypeOK
  <2> SUFFICES ASSUME CaseInv, KindInv PROVE CasesTypeOK
    OBVIOUS
  <2>1. ASSUME NEW x \in Stored
        PROVE  /\ Row(x).status \in Live(x[1]) \cup {"resolved", "ignored"}
               /\ Row(x).via \in {NoValue} \cup DOMAIN case
    <3>1. x[1] \in Rules /\ x[2] \in DOMAIN finding[x[1]]
      BY StoredIs
    <3>2. Row(x).status \in {"open", "acknowledged", "resolved", "ignored"}
      BY RowIs DEF FindingRow, FindingStatuses
    <3>3. x[1] \notin Risk => Row(x).status # "acknowledged"
      BY <3>1 DEF KindInv, Unacknowledged, Row
    <3>4. Row(x).via \in {NoValue} \cup DOMAIN case
      BY RowIs
    <3> QED
      BY <3>2, <3>3, <3>4 DEF Live
  <2>2. ASSUME NEW i \in DOMAIN case
        PROVE  /\ case[i].source \in Stored \cup {NoValue}
               /\ case[i].escalated \in BOOLEAN
               /\ \A j \in DOMAIN case :
                     case[i].source # NoValue /\ case[i].source = case[j].source => i = j
    BY CaseIs DEF CaseInv, CaseOK
  <2> QED
    BY <2>1, <2>2 DEF CasesTypeOK, KindInv
<1>2. CasesGiven
  BY CasesAssumption DEF CasesGiven
<1> QED
  BY <1>1, <1>2, CaseInvariance, InitKinds, StepKinds, PTL DEF CasesSpec
=============================================================================
