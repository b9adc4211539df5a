---------------------------- MODULE FeePayments ----------------------------
(***************************************************************************)
(* Recording and refunding student fee payments: the fees service          *)
(* (record_payment, record_refund, create_dues), the transaction ledger it *)
(* journals to, and the row locks, savepoints and unique indexes both      *)
(* depend on.                                                              *)
(*                                                                         *)
(* A request is one HTTP request with one database transaction             *)
(* (READ COMMITTED).  It sees committed rows, keeps what it has read in    *)
(* its session (view), and its writes become visible together, at Commit.  *)
(* A payment is identified by the request that recorded it.                *)
(***************************************************************************)
EXTENDS Integers, FiniteSets, Sequences

CONSTANTS
    Requests,     \* HTTP requests; each runs at most once
    Dues,         \* fee dues (one per student and fee structure)
    Students,
    StudentOf,    \* the student a due belongs to
    Original,     \* the original_amount of a due, in minor units
    MaxAmount,    \* bound on the amount of one request
    Keys,         \* client-supplied idempotency keys
    None          \* "no key", "no payment", "no due"

ASSUME FeeAssumption ==
    /\ IsFiniteSet(Requests)
    /\ StudentOf \in [Dues -> Students]
    /\ Original \in [Dues -> Nat \ {0}]
    /\ MaxAmount \in Nat \ {0}
    /\ None \notin Requests \cup Dues \cup Keys

VARIABLES
    dues,       \* fee_dues: amount_paid and status of every due
    pstatus,    \* payments.status, "none" while the row does not exist
    refunded,   \* payments.refunded_amount
    ledger,     \* transaction_logs, in the order the rows were committed
    audited,    \* requests whose audit row is committed
    outbox,     \* payments whose PaymentReceivedEvent is committed
    arg,        \* what each request asks for
    pc,         \* where each request is
    view,       \* what each request's session has read
    held,       \* rows a request has locked FOR UPDATE
    shared,     \* student rows a request has locked FOR KEY SHARE
    outcome,    \* what each request answered
    crossed     \* history: payments a refund of which committed while another was open

db   == <<dues, pstatus, refunded, ledger, audited, outbox>>
vars == <<db, arg, pc, view, held, shared, outcome, crossed>>

Amounts == 1..MaxAmount
Blank   == [kind |-> "none", due |-> None, pay |-> None, amount |-> 0, key |-> None]
NoView  == [refunded |-> 0, paid |-> 0, before |-> 0, journal |-> FALSE]

DueRow(d)     == <<"fee_due", d>>
PaymentRow(p) == <<"payment", p>>
StudentRow(s) == <<"student", s>>
Student(r)    == StudentOf[arg[r].due]
Payments      == {p \in Requests : pstatus[p] # "none"}

(* get_by_idempotency_key: the committed payments carrying key k.          *)
PaymentsWithKey(k) == {p \in Payments : k # None /\ arg[p].key = k}

(* Broken variant: the default refund key leaves out the cumulative amount.*)
LedgerKeyPerPayment(r) ==
    IF arg[r].kind = "payment" THEN <<"payment", r, 0>>
    ELSE IF arg[r].key # None  THEN <<"client", arg[r].key, 0>>
    ELSE <<"refund", arg[r].pay, 0>>

(* The ledger key of the row a request journals.                           *)
LedgerKey(r) ==
    IF arg[r].kind = "payment" THEN <<"payment", r, 0>>
    ELSE IF arg[r].key # None  THEN <<"client", arg[r].key, 0>>
    ELSE <<"refund", arg[r].pay, view[r].refunded + arg[r].amount>>

(* find_by_idempotency_key.                                                *)
RowsWithKey(k) == {i \in DOMAIN ledger : ledger[i].key = k}

(* Money journaled for student s by rows of one kind, counted in units.    *)
Journaled(s, kind) ==
    Cardinality({u \in (DOMAIN ledger) \X Amounts :
                    /\ Student(ledger[u[1]].by) = s
                    /\ arg[ledger[u[1]].by].kind = kind
                    /\ u[2] <= arg[ledger[u[1]].by].amount})

(* get_student_balance: the recomputed sum of the student's rows.          *)
Balance(s) == Journaled(s, "payment") - Journaled(s, "refund")

PaymentStatus(taken, amount) ==
    IF taken >= amount THEN "refunded" ELSE "partially_refunded"

DueStatus(d, paid) ==
    IF paid = 0 THEN "unpaid"
    ELSE IF paid >= Original[d] THEN "paid" ELSE "partially_paid"

-----------------------------------------------------------------------------
Init ==
    /\ dues = [d \in Dues |-> [paid |-> 0, status |-> "none"]]
    /\ pstatus = [r \in Requests |-> "none"]
    /\ refunded = [r \in Requests |-> 0]
    /\ ledger = <<>>
    /\ audited = {}
    /\ outbox = {}
    /\ arg = [r \in Requests |-> Blank]
    /\ pc = [r \in Requests |-> "idle"]
    /\ view = [r \in Requests |-> NoView]
    /\ held = [r \in Requests |-> {}]
    /\ shared = [r \in Requests |-> {}]
    /\ outcome = [r \in Requests |-> "none"]
    /\ crossed = {}

(* Broken variant: the session is closed without ending the transaction.   *)
FinishKeepsLocks(r, o) ==
    /\ pc' = [pc EXCEPT ![r] = "done"]
    /\ outcome' = [outcome EXCEPT ![r] = o]
    /\ UNCHANGED <<held, shared>>
    /\ view' = [view EXCEPT ![r] = NoView]

(* The transaction ends: its locks are released and it answers o.          *)
Finish(r, o) ==
    /\ pc' = [pc EXCEPT ![r] = "done"]
    /\ outcome' = [outcome EXCEPT ![r] = o]
    /\ held' = [held EXCEPT ![r] = {}]
    /\ shared' = [shared EXCEPT ![r] = {}]
    /\ view' = [view EXCEPT ![r] = NoView]

(* No other transaction has the row locked FOR UPDATE.                     *)
Unlocked(row, r) == \A q \in Requests \ {r} : row \notin held[q]

(* create_dues: every due of a student in one transaction.                 *)
CreateDues(s) ==
    /\ \E d \in Dues : StudentOf[d] = s
    /\ \A d \in Dues : StudentOf[d] = s => dues[d].status = "none"
    /\ dues' = [d \in Dues |-> IF StudentOf[d] = s
                               THEN [paid |-> 0, status |-> "unpaid"] ELSE dues[d]]
    /\ UNCHANGED <<pstatus, refunded, ledger, audited, outbox,
                   arg, pc, view, held, shared, outcome, crossed>>

-----------------------------------------------------------------------------
(* POST /payments.  The idempotency pre-check reads committed payments     *)
(* before any lock is taken.                                               *)
BeginPayment(r, d, a, k) ==
    /\ pc[r] = "idle"
    /\ dues[d].status # "none"
    /\ arg' = [arg EXCEPT ![r] = [kind |-> "payment", due |-> d, pay |-> None,
                                  amount |-> a, key |-> k]]
    /\ IF PaymentsWithKey(k) # {}
       THEN Finish(r, "replayed")
       ELSE /\ pc' = [pc EXCEPT ![r] = "lock_due"]
            /\ UNCHANGED <<view, held, shared, outcome>>
    /\ UNCHANGED <<db, crossed>>

(* Broken variant: the due is read without FOR UPDATE.                     *)
ReadDueForPayment(r) ==
    LET d == arg[r].due IN
    /\ pc[r] = "lock_due"
    /\ arg[r].kind = "payment"
    /\ IF \/ dues[d].status = "paid"
          \/ dues[d].paid + arg[r].amount > Original[d]
       THEN Finish(r, "rejected")
       ELSE /\ view' = [view EXCEPT ![r].paid = dues[d].paid]
            /\ pc' = [pc EXCEPT ![r] = "insert"]
            /\ UNCHANGED <<held, shared, outcome>>
    /\ UNCHANGED <<db, crossed, arg>>

(* Broken variant: the outstanding balance is not checked.                 *)
LockDueUnchecked(r) ==
    /\ pc[r] = "lock_due"
    /\ arg[r].kind = "payment"
    /\ Unlocked(DueRow(arg[r].due), r)
    /\ held' = [held EXCEPT ![r] = @ \cup {DueRow(arg[r].due)}]
    /\ view' = [view EXCEPT ![r].paid = dues[arg[r].due].paid]
    /\ pc' = [pc EXCEPT ![r] = "insert"]
    /\ UNCHANGED <<db, crossed, arg, shared, outcome>>

(* SELECT fee_due FOR UPDATE, read fresh, then the checks on the due.      *)
LockDueForPayment(r) ==
    LET d == arg[r].due IN
    /\ pc[r] = "lock_due"
    /\ arg[r].kind = "payment"
    /\ Unlocked(DueRow(d), r)
    /\ IF \/ dues[d].status = "paid"
          \/ dues[d].paid + arg[r].amount > Original[d]
       THEN Finish(r, "rejected")
       ELSE /\ held' = [held EXCEPT ![r] = @ \cup {DueRow(d)}]
            /\ view' = [view EXCEPT ![r].paid = dues[d].paid]
            /\ pc' = [pc EXCEPT ![r] = "insert"]
            /\ UNCHANGED <<shared, outcome>>
    /\ UNCHANGED <<db, crossed, arg>>

(* Requests whose inserted payment row is not committed yet.               *)
Inserted == {q \in Requests : arg[q].kind = "payment"
                              /\ pc[q] \in {"lookup", "journal", "commit"}}

(* An uncommitted payment holds r's idempotency key in the unique index.   *)
KeyPending(r) ==
    \E q \in Inserted \ {r} : arg[r].key # None /\ arg[q].key = arg[r].key

(* Broken variant: a pending insert of the key is taken for a payment.     *)
InsertOrReplayPending(r) ==
    /\ pc[r] = "insert"
    /\ Unlocked(StudentRow(Student(r)), r)
    /\ IF KeyPending(r) \/ PaymentsWithKey(arg[r].key) # {}
       THEN Finish(r, "replayed")
       ELSE /\ shared' = [shared EXCEPT ![r] = {StudentRow(Student(r))}]
            /\ pc' = [pc EXCEPT ![r] = "lookup"]
            /\ UNCHANGED <<view, held, outcome>>
    /\ UNCHANGED <<db, crossed, arg>>

(* Broken variant: no unique index on the idempotency key.                 *)
InsertNoIndex(r) ==
    /\ pc[r] = "insert"
    /\ Unlocked(StudentRow(Student(r)), r)
    /\ shared' = [shared EXCEPT ![r] = {StudentRow(Student(r))}]
    /\ pc' = [pc EXCEPT ![r] = "lookup"]
    /\ UNCHANGED <<db, crossed, arg, view, held, outcome>>

(* INSERT payment, in the savepoint.  It waits for an uncommitted insert   *)
(* of the same idempotency key; if that one committed, the unique index    *)
(* raises IntegrityError and the existing payment is the answer.  The      *)
(* student_id foreign key locks the student row FOR KEY SHARE.             *)
InsertPayment(r) ==
    /\ pc[r] = "insert"
    /\ ~KeyPending(r)
    /\ Unlocked(StudentRow(Student(r)), r)
    /\ IF PaymentsWithKey(arg[r].key) # {}
       THEN Finish(r, "replayed")
       ELSE /\ shared' = [shared EXCEPT ![r] = {StudentRow(Student(r))}]
            /\ pc' = [pc EXCEPT ![r] = "lookup"]
            /\ UNCHANGED <<view, held, outcome>>
    /\ UNCHANGED <<db, crossed, arg>>

-----------------------------------------------------------------------------
(* POST /payments/{id}/refund.  The router loads the payment into the      *)
(* session before the service locks it.                                    *)
BeginRefund(r, p, a, k) ==
    /\ pc[r] = "idle"
    /\ p \in Payments
    /\ arg' = [arg EXCEPT ![r] = [kind |-> "refund", due |-> arg[p].due, pay |-> p,
                                  amount |-> a, key |-> k]]
    /\ view' = [view EXCEPT ![r].refunded = refunded[p]]
    /\ pc' = [pc EXCEPT ![r] = "lock_payment"]
    /\ UNCHANGED <<db, crossed, held, shared, outcome>>

(* Broken variant: the ledger is not searched for an earlier refund.       *)
LockPaymentNoReplay(r) ==
    LET p == arg[r].pay IN
    /\ pc[r] = "lock_payment"
    /\ Unlocked(PaymentRow(p), r)
    /\ IF arg[r].amount > arg[p].amount - view[r].refunded
       THEN Finish(r, "rejected")
       ELSE /\ held' = [held EXCEPT ![r] = @ \cup {PaymentRow(p)}]
            /\ pc' = [pc EXCEPT ![r] = "lock_due"]
            /\ UNCHANGED <<view, shared, outcome>>
    /\ UNCHANGED <<db, crossed, arg>>

(* SELECT payment FOR UPDATE.  The row is already in the session's         *)
(* identity map, so the copy loaded by the router is what the checks see.  *)
LockPayment(r) ==
    LET p == arg[r].pay
        prior == IF arg[r].key = None THEN {} ELSE RowsWithKey(LedgerKey(r))
    IN
    /\ pc[r] = "lock_payment"
    /\ Unlocked(PaymentRow(p), r)
    /\ IF prior # {}
       THEN Finish(r, IF \E i \in prior : arg[ledger[i].by].pay = p
                      THEN "replayed" ELSE "rejected")
       ELSE IF arg[r].amount > arg[p].amount - view[r].refunded
       THEN Finish(r, "rejected")
       ELSE /\ held' = [held EXCEPT ![r] = @ \cup {PaymentRow(p)}]
            /\ pc' = [pc EXCEPT ![r] = "lock_due"]
            /\ UNCHANGED <<view, shared, outcome>>
    /\ UNCHANGED <<db, crossed, arg>>

(* SELECT fee_due FOR UPDATE, then the savepoint's check that the due does *)
(* not go below zero.                                                      *)
LockDueForRefund(r) ==
    LET d == arg[r].due IN
    /\ pc[r] = "lock_due"
    /\ arg[r].kind = "refund"
    /\ Unlocked(DueRow(d), r)
    /\ IF dues[d].paid < arg[r].amount
       THEN Finish(r, "rejected")
       ELSE /\ held' = [held EXCEPT ![r] = @ \cup {DueRow(d)}]
            /\ view' = [view EXCEPT ![r].paid = dues[d].paid]
            /\ pc' = [pc EXCEPT ![r] = "lookup"]
            /\ UNCHANGED <<shared, outcome>>
    /\ UNCHANGED <<db, crossed, arg>>

-----------------------------------------------------------------------------
(* TransactionLogService.record, first half: a committed row with the same *)
(* key makes record return early, and nothing is journaled.                *)
LookupLedger(r) ==
    /\ pc[r] = "lookup"
    /\ pc' = [pc EXCEPT ![r] = IF RowsWithKey(LedgerKey(r)) = {}
                               THEN "journal" ELSE "commit"]
    /\ UNCHANGED <<db, crossed, arg, view, held, shared, outcome>>

(* Broken variant: the ledger does not serialize on the student row.       *)
StudentNeverLocked(r) == TRUE

(* The student row is locked by nobody else, in either mode.               *)
StudentFree(r) ==
    LET row == StudentRow(Student(r)) IN
    \A q \in Requests \ {r} : row \notin held[q] \cup shared[q]

(* An uncommitted ledger row holds r's ledger key in the unique index.     *)
LedgerKeyPending(r) ==
    \E q \in Requests \ {r} :
        /\ pc[q] = "commit"
        /\ view[q].journal
        /\ LedgerKey(q) = LedgerKey(r)

(* record, second half: SELECT student FOR UPDATE, recompute the balance,  *)
(* INSERT the row.  A row with the same key that was committed since the   *)
(* lookup raises IntegrityError.                                           *)
JournalRow(r) ==
    LET clash == RowsWithKey(LedgerKey(r)) IN
    /\ pc[r] = "journal"
    /\ StudentFree(r)
    /\ ~LedgerKeyPending(r)
    /\ IF clash # {}
       THEN Finish(r, IF /\ arg[r].key # None
                         /\ \E i \in clash : arg[ledger[i].by].pay = arg[r].pay
                      THEN "replayed" ELSE "rejected")
       ELSE /\ held' = [held EXCEPT ![r] = @ \cup {StudentRow(Student(r))}]
            /\ view' = [view EXCEPT ![r].before = Balance(Student(r)),
                                    ![r].journal = TRUE]
            /\ pc' = [pc EXCEPT ![r] = "commit"]
            /\ UNCHANGED <<shared, outcome>>
    /\ UNCHANGED <<db, crossed, arg>>

(* The ledger row of r: payments raise the balance, refunds lower it.      *)
Row(r) ==
    [by |-> r, key |-> LedgerKey(r), before |-> view[r].before,
     after |-> view[r].before
               + (IF arg[r].kind = "payment" THEN arg[r].amount ELSE -arg[r].amount)]

LedgerAfter(r) == IF view[r].journal THEN Append(ledger, Row(r)) ELSE ledger

(* COMMIT of a payment: payment row, due, ledger row, audit row and, when  *)
(* the best-effort publish did not fail, the outbox row.                   *)
CommitPayment(r) ==
    LET d == arg[r].due
        paid == view[r].paid + arg[r].amount
    IN
    /\ pc[r] = "commit"
    /\ arg[r].kind = "payment"
    /\ pstatus' = [pstatus EXCEPT ![r] = "completed"]
    /\ dues' = [dues EXCEPT ![d] = [paid |-> paid,
                    status |-> IF paid >= Original[d] THEN "paid" ELSE "partially_paid"]]
    /\ ledger' = LedgerAfter(r)
    /\ audited' = audited \cup {r}
    /\ outbox' \in {outbox, outbox \cup {r}}
    /\ Finish(r, "applied")
    /\ UNCHANGED <<refunded, arg, crossed>>

Running(r) == pc[r] \notin {"idle", "done"}

(* q and r ask for the same refund: one is a retry of the other.           *)
SameRefund(q, r) == arg[q].key # None /\ arg[q].key = arg[r].key /\ arg[q].pay = arg[r].pay

(* Another refund of r's payment, and not a retry of r, is open.           *)
Crosses(r) ==
    \E q \in Requests \ {r} : /\ Running(q)
                             /\ arg[q].kind = "refund"
                             /\ arg[q].pay = arg[r].pay
                             /\ ~SameRefund(q, r)

(* Broken variant: refunded_amount is written as this refund's amount.     *)
CommitRefundAlone(r) ==
    LET p == arg[r].pay
        d == arg[r].due
        paid == view[r].paid - arg[r].amount
    IN
    /\ pc[r] = "commit"
    /\ arg[r].kind = "refund"
    /\ refunded' = [refunded EXCEPT ![p] = arg[r].amount]
    /\ pstatus' = [pstatus EXCEPT ![p] = PaymentStatus(arg[r].amount, arg[p].amount)]
    /\ dues' = [dues EXCEPT ![d] = [paid |-> paid, status |-> DueStatus(d, paid)]]
    /\ ledger' = LedgerAfter(r)
    /\ audited' = audited \cup {r}
    /\ Finish(r, "applied")
    /\ UNCHANGED <<outbox, arg, crossed>>

(* COMMIT of a refund: the payment's refunded_amount is written as an      *)
(* absolute value computed from the session's copy.                        *)
CommitRefund(r) ==
    LET p == arg[r].pay
        d == arg[r].due
        taken == view[r].refunded + arg[r].amount
        paid == view[r].paid - arg[r].amount
    IN
    /\ pc[r] = "commit"
    /\ arg[r].kind = "refund"
    /\ refunded' = [refunded EXCEPT ![p] = taken]
    /\ pstatus' = [pstatus EXCEPT ![p] = PaymentStatus(taken, arg[p].amount)]
    /\ dues' = [dues EXCEPT ![d] = [paid |-> paid, status |-> DueStatus(d, paid)]]
    /\ ledger' = LedgerAfter(r)
    /\ audited' = audited \cup {r}
    /\ Finish(r, "applied")
    /\ crossed' = IF Crosses(r) THEN crossed \cup {p} ELSE crossed
    /\ UNCHANGED <<outbox, arg>>

-----------------------------------------------------------------------------
(* The process dies, the connection drops or the handler raises: get_session *)
(* rolls the transaction back.                                             *)
Abort(r) ==
    /\ Running(r)
    /\ Finish(r, "aborted")
    /\ UNCHANGED <<db, crossed, arg>>

(* r cannot take its next step before q's transaction ends.                *)
WaitsFor(r, q) ==
    /\ q # r
    /\ \/ pc[r] = "lock_due" /\ DueRow(arg[r].due) \in held[q]
       \/ pc[r] = "lock_payment" /\ PaymentRow(arg[r].pay) \in held[q]
       \/ pc[r] = "insert" /\ \/ StudentRow(Student(r)) \in held[q]
                              \/ q \in Inserted /\ arg[r].key # None
                                                /\ arg[q].key = arg[r].key
       \/ pc[r] = "journal" /\ \/ StudentRow(Student(r)) \in held[q] \cup shared[q]
                               \/ pc[q] = "commit" /\ view[q].journal
                                                   /\ LedgerKey(q) = LedgerKey(r)

(* r is in a set of transactions each of which waits for one of the set.   *)
Deadlocked(r) ==
    \E S \in SUBSET Requests :
        /\ r \in S
        /\ \A q \in S : \E t \in S : WaitsFor(q, t)

(* PostgreSQL's deadlock detector picks a victim and rolls it back.        *)
BreakDeadlock(r) ==
    /\ Deadlocked(r)
    /\ Finish(r, "aborted")
    /\ UNCHANGED <<db, crossed, arg>>

Step(r) ==
    \/ LockDueForPayment(r)
    \/ InsertPayment(r)
    \/ LockPayment(r)
    \/ LockDueForRefund(r)
    \/ LookupLedger(r)
    \/ JournalRow(r)
    \/ CommitPayment(r)
    \/ CommitRefund(r)
    \/ BreakDeadlock(r)

Begin(r) ==
    \E a \in Amounts, k \in Keys \cup {None} :
        \/ \E d \in Dues : BeginPayment(r, d, a, k)
        \/ \E p \in Requests : BeginRefund(r, p, a, k)

Next ==
    \/ \E s \in Students : CreateDues(s)
    \/ \E r \in Requests : Begin(r) \/ Step(r) \/ Abort(r)

(* The event loop keeps running every request that has begun.              *)
Fairness == \A r \in Requests : WF_vars(Step(r))

Spec == Init /\ [][Next]_vars
FairSpec == Spec /\ Fairness

-----------------------------------------------------------------------------
(* The same system with disciplined clients: they never have two refunds   *)
(* of one payment open at the same time, and they mint a refund key for    *)
(* one payment only.                                                       *)
RefundOpen(p) == \E q \in Requests : Running(q) /\ arg[q].kind = "refund" /\ arg[q].pay = p

KeyUsedElsewhere(p, k) ==
    \E q \in Requests : /\ k # None
                        /\ arg[q].kind = "refund"
                        /\ arg[q].key = k
                        /\ arg[q].pay # p

SerialBegin(r) ==
    \E a \in Amounts, k \in Keys \cup {None} :
        \/ \E d \in Dues : BeginPayment(r, d, a, k)
        \/ \E p \in Requests : /\ ~RefundOpen(p)
                               /\ ~KeyUsedElsewhere(p, k)
                               /\ BeginRefund(r, p, a, k)

SerialNext ==
    \/ \E s \in Students : CreateDues(s)
    \/ \E r \in Requests : SerialBegin(r) \/ Step(r) \/ Abort(r)

SerialSpec == Init /\ [][SerialNext]_vars
-----------------------------------------------------------------------------
PcValues == {"idle", "lock_payment", "lock_due", "insert", "lookup",
             "journal", "commit", "done"}
Outcomes == {"none", "applied", "replayed", "rejected", "aborted"}
Rows     == {DueRow(d) : d \in Dues} \cup {PaymentRow(p) : p \in Requests}
                \cup {StudentRow(s) : s \in Students}
Args     == [kind : {"none", "payment", "refund"}, due : Dues \cup {None},
             pay : Requests \cup {None}, amount : 0..MaxAmount, key : Keys \cup {None}]
LedgerKeys == {"payment", "client", "refund"} \X (Requests \cup Keys) \X Nat

(* Types of the variables.                                                 *)
TypeOK ==
    /\ dues \in [Dues -> [paid : Nat, status : {"none", "unpaid", "partially_paid", "paid"}]]
    /\ pstatus \in [Requests -> {"none", "completed", "partially_refunded", "refunded"}]
    /\ refunded \in [Requests -> Nat]
    /\ ledger \in Seq([by : Requests, key : LedgerKeys, before : Int, after : Int])
    /\ audited \subseteq Requests
    /\ outbox \subseteq Requests
    /\ arg \in [Requests -> Args]
    /\ pc \in [Requests -> PcValues]
    /\ view \in [Requests -> [refunded : Nat, paid : Nat, before : Int, journal : BOOLEAN]]
    /\ held \in [Requests -> SUBSET Rows]
    /\ shared \in [Requests -> SUBSET Rows]
    /\ outcome \in [Requests -> Outcomes]
    /\ crossed \subseteq Requests

Applied(kind) == {r \in Requests : outcome[r] = "applied" /\ arg[r].kind = kind}

(* A due never holds less than nothing or more than was assigned, and its  *)
(* status says which of the three it is (models.py: "a concurrent          *)
(* double-payment can never push the balance out of range"), whatever      *)
(* payments and refunds of it overlap.                                     *)
DueInRange ==
    \A d \in Dues : dues[d].status # "none" =>
        /\ dues[d].paid \in 0..Original[d]
        /\ dues[d].status = DueStatus(d, dues[d].paid)

(* A client key records at most one payment and refunds a payment at most  *)
(* once, however retries overlap and wherever they crash (pre-check, unique *)
(* index and savepoint together); and "replayed" is only answered when the *)
(* effect it stands for is committed: a client told so need not retry.     *)
KeysAreHonoured ==
    /\ \A k \in Keys : Cardinality(PaymentsWithKey(k)) <= 1
    /\ \A k \in Keys, p \in Requests :
          Cardinality({r \in Applied("refund") : arg[r].key = k /\ arg[r].pay = p}) <= 1
    /\ \A r \in Requests : outcome[r] = "replayed" =>
          IF arg[r].kind = "payment"
          THEN PaymentsWithKey(arg[r].key) # {}
          ELSE \E q \in Applied("refund") : arg[q].key = arg[r].key /\ arg[q].pay = arg[r].pay

(* A refund key that took effect for one payment never takes effect for    *)
(* another (service.py: "a key minted for a different payment is a         *)
(* conflict, not a replay").                                               *)
RefundKeyIsOnePayment ==
    \A q, r \in Applied("refund") :
        (arg[q].key = arg[r].key /\ arg[q].key # None) => arg[q].pay = arg[r].pay

(* Rows of the ledger before row i that belong to the same student.        *)
Earlier(i) == {j \in 1..(i - 1) : Student(ledger[j].by) = Student(ledger[i].by)}

(* The running balance is a chain: each row opens with the balance the     *)
(* student's previous row closed with (school_finance: the hard invariant  *)
(* "chain == recomputed sum").                                             *)
LedgerChain ==
    \A i \in DOMAIN ledger :
        ledger[i].before =
            IF Earlier(i) = {} THEN 0
            ELSE ledger[CHOOSE j \in Earlier(i) : \A k \in Earlier(i) : k <= j].after

(* Units of money payments to due d brought in and refunds did not return. *)
NetUnits(d) ==
    {u \in Requests \X Amounts :
        /\ pstatus[u[1]] # "none"
        /\ arg[u[1]].due = d
        /\ refunded[u[1]] < u[2]
        /\ u[2] <= arg[u[1]].amount}

(* All accounts of the same money agree: a due holds what its payments     *)
(* still hold, a student's ledger balance is what the student's dues hold, *)
(* every request that took effect is journaled exactly once and audited,   *)
(* nothing else is, and no event announces a payment that does not exist.  *)
AmountsAgree ==
    /\ \A d \in Dues : dues[d].paid = Cardinality(NetUnits(d))
    /\ \A s \in Students :
          Balance(s) = Cardinality(UNION {{d} \X (1..dues[d].paid) :
                                             d \in {e \in Dues : StudentOf[e] = s}})
    /\ audited = Applied("payment") \cup Applied("refund")
    /\ \A r \in Requests :
          Cardinality({i \in DOMAIN ledger : ledger[i].by = r})
              = (IF r \in audited THEN 1 ELSE 0)
    /\ outbox \subseteq Payments

(* Units refunded from payment p by requests that took effect.             *)
RefundUnits(p) ==
    {u \in Applied("refund") \X Amounts : arg[u[1]].pay = p /\ u[2] <= arg[u[1]].amount}

(* No refund applies twice.  Whatever overlaps, the payment row never says *)
(* that more was returned than refunds returned, nor more than was paid;   *)
(* and it accounts for every refund that took effect, unless one committed *)
(* while a different refund of the same payment was open (its stale copy   *)
(* then overwrites the sum).  An overlapping retry with the same key is no *)
(* such refund: it never returns the money again.                          *)
NoDoubleRefund ==
    \A p \in Payments :
        /\ refunded[p] <= arg[p].amount
        /\ refunded[p] <= Cardinality(RefundUnits(p))
        /\ p \notin crossed => Cardinality(RefundUnits(p)) = refunded[p]

(* Under disciplined clients every step of the service is one move of      *)
(* money of the abstract account, or none.                                 *)
Account == INSTANCE FeeAccount WITH
    Ids   <- Requests,
    paid  <- [d \in Dues |-> dues[d].paid],
    holds <- [p \in Requests |-> IF pstatus[p] = "none" THEN 0
                                 ELSE arg[p].amount - refunded[p]],
    on    <- [p \in Requests |-> IF pstatus[p] = "none" THEN None ELSE arg[p].due]

ImplementsAccount == Account!Spec

(* Every request that begins is answered.                                  *)
EveryRequestAnswered ==
    \A r \in Requests : Running(r) ~> (pc[r] = "done")
=============================================================================
