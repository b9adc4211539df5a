------------------------- MODULE FeePayments_proofs -------------------------
(***************************************************************************)
(* Proofs about FeePayments for every set of requests, dues, students and  *)
(* keys and every bound on amounts.                                        *)
(***************************************************************************)
EXTENDS FeePayments, FiniteSetTheorems, TLAPS

-----------------------------------------------------------------------------
(* The inductive invariant.                                                *)

(* FOR UPDATE locks exclude each other.                                    *)
LocksExclusive == \A q, r \in Requests : q # r => held[q] \cap held[r] = {}

(* A request that is past its due's lock still sees the due as it is, and  *)
(* has checked that its amount fits.                                       *)
HoldsDue(r) ==
    /\ DueRow(arg[r].due) \in held[r]
    /\ view[r].paid = dues[arg[r].due].paid
    /\ arg[r].kind = "payment" => view[r].paid + arg[r].amount <= Original[arg[r].due]
    /\ arg[r].kind = "refund" => arg[r].amount <= view[r].paid

RequestOK(r) ==
    /\ pc[r] = "lock_payment" => arg[r].kind = "refund"
    /\ pc[r] = "insert" => arg[r].kind = "payment"
    /\ Running(r) => /\ arg[r].kind \in {"payment", "refund"}
                     /\ arg[r].due \in Dues
                     /\ arg[r].amount \in Amounts
                     /\ dues[arg[r].due].status # "none"
    /\ Running(r) /\ arg[r].kind = "refund" =>
                     /\ arg[r].pay \in Payments
                     /\ arg[r].due = arg[arg[r].pay].due
    /\ pc[r] \in {"lock_due", "lookup", "journal", "commit"} /\ arg[r].kind = "refund"
          => arg[r].amount <= arg[arg[r].pay].amount - view[r].refunded
    /\ pc[r] \in {"insert", "lookup", "journal", "commit"} => HoldsDue(r)

PaymentOK(p) ==
    IF pstatus[p] = "none" THEN refunded[p] = 0
    ELSE /\ pc[p] = "done"
         /\ arg[p].kind = "payment"
         /\ arg[p].due \in Dues
         /\ dues[arg[p].due].status # "none"
         /\ arg[p].amount \in Amounts
         /\ refunded[p] <= arg[p].amount

DueOK(d) ==
    IF dues[d].status = "none" THEN dues[d].paid = 0
    ELSE dues[d].paid <= Original[d] /\ dues[d].status = DueStatus(d, dues[d].paid)

FInv ==
    /\ TypeOK
    /\ LocksExclusive
    /\ \A r \in Requests : RequestOK(r)
    /\ \A p \in Requests : PaymentOK(p)
    /\ \A d \in Dues : DueOK(d)

-----------------------------------------------------------------------------
(* The ledger sums are finite, so a balance is an integer.                 *)
LEMMA BalanceIsInt ==
    ASSUME TypeOK, NEW s
    PROVE  Balance(s) \in Int
<1>1. ASSUME NEW kind PROVE Journaled(s, kind) \in Nat
  <2> DEFINE U == (DOMAIN ledger) \X Amounts
             V == {u \in U : /\ Student(ledger[u[1]].by) = s
                             /\ arg[ledger[u[1]].by].kind = kind
                             /\ u[2] <= arg[ledger[u[1]].by].amount}
  <2>1. DOMAIN ledger = 1..Len(ledger) /\ Len(ledger) \in Nat
    BY DEF TypeOK
  <2>2. IsFiniteSet(DOMAIN ledger)
    BY <2>1, FS_Interval
  <2>3. IsFiniteSet(Amounts)
    BY FeeAssumption, FS_Interval DEF Amounts
  <2>4. IsFiniteSet(U)
    BY <2>2, <2>3, FS_Product
  <2>5. IsFiniteSet(V)
    BY <2>4, FS_Subset
  <2>6. QED
    BY <2>5, FS_CardinalityType DEF Journaled
<1>2. QED
  BY <1>1 DEF Balance

-----------------------------------------------------------------------------
(* Each step preserves the invariant.                                      *)

LEMMA InitEstablishes == Init => FInv
  BY FeeAssumption
  DEF Init, FInv, TypeOK, LocksExclusive, RequestOK, PaymentOK, DueOK, Running,
      Blank, NoView, Args, Rows, PcValues, Outcomes, LedgerKeys

(* Ending a transaction without an effect: rejections, replays, aborts.    *)
LEMMA FinishPreserves ==
    ASSUME FInv, NEW r \in Requests, NEW o \in Outcomes,
           pc[r] # "idle", Finish(r, o), UNCHANGED <<db, crossed, arg>>
    PROVE  FInv'
<1> USE DEF FInv, Finish, db
<1>1. TypeOK'
  BY DEF TypeOK, NoView, PcValues
<1>2. LocksExclusive'
  BY DEF TypeOK, LocksExclusive
<1>3. ASSUME NEW q \in Requests PROVE RequestOK(q)'
  BY <1>3 DEF TypeOK, RequestOK, Running, HoldsDue, Payments, DueRow
<1>4. ASSUME NEW p \in Requests PROVE PaymentOK(p)'
  BY <1>4 DEF TypeOK, PaymentOK
<1>5. ASSUME NEW d \in Dues PROVE DueOK(d)'
  BY <1>5 DEF TypeOK, DueOK, DueStatus
<1>6. QED
  BY <1>1, <1>2, <1>3, <1>4, <1>5

LEMMA CreateDuesPreserves ==
    ASSUME FInv, NEW s \in Students, CreateDues(s)
    PROVE  FInv'
<1> USE DEF FInv, CreateDues
<1>1. TypeOK'
  BY DEF TypeOK
<1>2. LocksExclusive'
  BY DEF LocksExclusive
<1>3. ASSUME NEW q \in Requests PROVE RequestOK(q)'
  BY <1>3 DEF TypeOK, RequestOK, Running, HoldsDue, Payments, DueRow
<1>4. ASSUME NEW p \in Requests PROVE PaymentOK(p)'
  BY <1>4 DEF TypeOK, PaymentOK
<1>5. ASSUME NEW d \in Dues PROVE DueOK(d)'
  BY <1>5, FeeAssumption DEF TypeOK, DueOK, DueStatus
<1>6. QED
  BY <1>1, <1>2, <1>3, <1>4, <1>5

LEMMA BeginPaymentPreserves ==
    ASSUME FInv, NEW r \in Requests, NEW d \in Dues, NEW a \in Amounts,
           NEW k \in Keys \cup {None}, BeginPayment(r, d, a, k)
    PROVE  FInv'
<1> DEFINE ask == [kind |-> "payment", due |-> d, pay |-> None, amount |-> a, key |-> k]
<1>0. /\ pc[r] = "idle"
      /\ dues[d].status # "none"
      /\ arg' = [arg EXCEPT ![r] = ask]
      /\ \/ Finish(r, "replayed")
         \/ /\ pc' = [pc EXCEPT ![r] = "lock_due"]
            /\ UNCHANGED <<view, held, shared, outcome>>
      /\ UNCHANGED <<dues, pstatus, refunded, ledger, audited, outbox, crossed>>
  BY DEF BeginPayment, db
<1> USE <1>0 DEF FInv, Finish
<1>1. ask \in Args
  BY FeeAssumption DEF Args, Amounts
<1>2. TypeOK'
  <2> HIDE DEF ask
  <2>1. /\ arg' \in [Requests -> Args]
        /\ UNCHANGED <<dues, pstatus, refunded, ledger, audited, outbox, crossed>>
    BY <1>1 DEF TypeOK
  <2>2. CASE UNCHANGED <<view, held, shared, outcome>>
    BY <2>1, <2>2 DEF TypeOK, PcValues
  <2>3. CASE Finish(r, "replayed")
    BY <2>1, <2>3 DEF TypeOK, PcValues, Outcomes, NoView
  <2>4. QED
    BY <2>2, <2>3
<1>3. LocksExclusive'
  BY DEF TypeOK, LocksExclusive
<1>4. ASSUME NEW q \in Requests PROVE RequestOK(q)'
  <2>1. CASE q = r
    BY <2>1 DEF TypeOK, RequestOK, Running
  <2>2. CASE q # r
    <3>1. /\ arg'[q] = arg[q] /\ pc'[q] = pc[q] /\ view'[q] = view[q] /\ held'[q] = held[q]
      BY <2>2, <1>4 DEF TypeOK
    <3>2. \A p \in Payments : p # r
      BY DEF Payments, PaymentOK
    <3>3. ASSUME Running(q), arg[q].kind = "refund" PROVE arg'[arg[q].pay] = arg[arg[q].pay]
      BY <3>2, <3>3, <1>4 DEF TypeOK, RequestOK, Payments
    <3>4. QED
      BY <3>1, <3>3, <1>4 DEF RequestOK, Running, HoldsDue, Payments
  <2>3. QED
    BY <2>1, <2>2
<1>5. ASSUME NEW p \in Requests PROVE PaymentOK(p)'
  BY <1>5 DEF TypeOK, PaymentOK
<1>6. ASSUME NEW e \in Dues PROVE DueOK(e)'
  BY <1>6 DEF TypeOK, DueOK, DueStatus
<1>7. QED
  BY <1>2, <1>3, <1>4, <1>5, <1>6

LEMMA BeginRefundPreserves ==
    ASSUME FInv, NEW r \in Requests, NEW p \in Requests, NEW a \in Amounts,
           NEW k \in Keys \cup {None}, BeginRefund(r, p, a, k)
    PROVE  FInv'
<1> DEFINE ask == [kind |-> "refund", due |-> arg[p].due, pay |-> p, amount |-> a, key |-> k]
<1>0. /\ pc[r] = "idle"
      /\ p \in Payments
      /\ arg' = [arg EXCEPT ![r] = ask]
      /\ view' = [view EXCEPT ![r].refunded = refunded[p]]
      /\ pc' = [pc EXCEPT ![r] = "lock_payment"]
      /\ UNCHANGED <<dues, pstatus, refunded, ledger, audited, outbox, crossed, held, shared, outcome>>
  BY DEF BeginRefund, db
<1> USE <1>0 DEF FInv
<1>1. ask \in Args /\ p # r /\ PaymentOK(p) /\ pstatus[p] # "none"
  BY FeeAssumption DEF Args, Amounts, PaymentOK, Payments
<1>2. TypeOK'
  BY <1>1 DEF TypeOK, PcValues
<1>3. LocksExclusive'
  BY DEF TypeOK, LocksExclusive
<1>4. ASSUME NEW q \in Requests PROVE RequestOK(q)'
  <2>1. CASE q = r
    BY <2>1, <1>1 DEF TypeOK, RequestOK, Running, PaymentOK, Payments
  <2>2. CASE q # r
    <3>1. /\ arg'[q] = arg[q] /\ pc'[q] = pc[q] /\ view'[q] = view[q] /\ held'[q] = held[q]
      BY <2>2, <1>4 DEF TypeOK
    <3>2. \A e \in Payments : e # r
      BY DEF Payments, PaymentOK
    <3>3. ASSUME Running(q), arg[q].kind = "refund" PROVE arg'[arg[q].pay] = arg[arg[q].pay]
      BY <3>2, <3>3, <1>4 DEF TypeOK, RequestOK, Payments
    <3>4. QED
      BY <3>1, <3>3, <1>4 DEF RequestOK, Running, HoldsDue, Payments
  <2>3. QED
    BY <2>1, <2>2
<1>5. ASSUME NEW q \in Requests PROVE PaymentOK(q)'
  BY <1>5 DEF TypeOK, PaymentOK
<1>6. ASSUME NEW e \in Dues PROVE DueOK(e)'
  BY <1>6 DEF TypeOK, DueOK, DueStatus
<1>7. QED
  BY <1>2, <1>3, <1>4, <1>5, <1>6

(* A step that reads and locks but writes nothing, stated once: the rows   *)
(* it may lock are unlocked, and what it read satisfies the invariant.     *)
LEMMA ReadPreserves ==
    ASSUME FInv, NEW r \in Requests, NEW row \in Rows, NEW v, NEW next \in PcValues,
           pc[r] # "done", next # "done",
           v \in [refunded : Nat, paid : Nat, before : Int, journal : BOOLEAN],
           \A q \in Requests \ {r} : row \notin held[q],
           held' = [held EXCEPT ![r] = @ \cup {row}],
           view' = [view EXCEPT ![r] = v],
           pc' = [pc EXCEPT ![r] = next],
           UNCHANGED <<db, crossed, arg, outcome>>,
           shared' \in [Requests -> SUBSET Rows],
           RequestOK(r)'
    PROVE  FInv'
<1> USE DEF FInv, db
<1>1. TypeOK'
  BY DEF TypeOK
<1>2. LocksExclusive'
  BY DEF TypeOK, LocksExclusive
<1>3. ASSUME NEW q \in Requests PROVE RequestOK(q)'
  <2>1. CASE q # r
    <3>1. /\ arg' = arg /\ pc'[q] = pc[q] /\ view'[q] = view[q] /\ held'[q] = held[q]
      BY <2>1, <1>3 DEF TypeOK
    <3>2. QED
      BY <3>1, <1>3 DEF RequestOK, Running, HoldsDue, Payments
  <2>2. QED
    BY <2>1
<1>4. ASSUME NEW q \in Requests PROVE PaymentOK(q)'
  BY <1>4 DEF TypeOK, PaymentOK
<1>5. ASSUME NEW e \in Dues PROVE DueOK(e)'
  BY <1>5 DEF TypeOK, DueOK, DueStatus
<1>6. QED
  BY <1>1, <1>2, <1>3, <1>4, <1>5

LEMMA LockDueForPaymentPreserves ==
    ASSUME FInv, NEW r \in Requests, LockDueForPayment(r)
    PROVE  FInv'
<1> DEFINE d == arg[r].due
           v == [view[r] EXCEPT !.paid = dues[d].paid]
<1>1. CASE Finish(r, "rejected")
  BY <1>1, FinishPreserves DEF LockDueForPayment, Outcomes
<1>2. CASE ~Finish(r, "rejected")
  <2>1. /\ pc[r] = "lock_due" /\ arg[r].kind = "payment"
        /\ Unlocked(DueRow(d), r)
        /\ ~(dues[d].paid + arg[r].amount > Original[d])
        /\ held' = [held EXCEPT ![r] = @ \cup {DueRow(d)}]
        /\ view' = [view EXCEPT ![r].paid = dues[d].paid]
        /\ pc' = [pc EXCEPT ![r] = "insert"]
        /\ UNCHANGED <<db, crossed, arg, shared, outcome>>
    BY <1>2 DEF LockDueForPayment
  <2>2. d \in Dues /\ arg[r].amount \in Nat /\ RequestOK(r)
    BY <2>1 DEF FInv, RequestOK, Running, Amounts
  <2>3. view' = [view EXCEPT ![r] = v]
        /\ v \in [refunded : Nat, paid : Nat, before : Int, journal : BOOLEAN]
    BY <2>1, <2>2 DEF FInv, TypeOK
  <2>4. dues[d].paid \in Nat /\ Original[d] \in Nat
    BY <2>2, FeeAssumption DEF FInv, TypeOK
  <2>5. RequestOK(r)'
    BY <2>1, <2>2, <2>4 DEF FInv, TypeOK, RequestOK, Running, HoldsDue, db
  <2>6. DueRow(d) \in Rows
    BY <2>2 DEF Rows
  <2>7. QED
    BY <2>1, <2>3, <2>5, <2>6, ReadPreserves DEF FInv, TypeOK, PcValues, Unlocked
<1>3. QED
  BY <1>1, <1>2

LEMMA InsertPaymentPreserves ==
    ASSUME FInv, NEW r \in Requests, InsertPayment(r)
    PROVE  FInv'
<1>1. CASE Finish(r, "replayed")
  BY <1>1, FinishPreserves DEF InsertPayment, Outcomes
<1>2. CASE ~Finish(r, "replayed")
  <2>1. /\ pc[r] = "insert"
        /\ shared' = [shared EXCEPT ![r] = {StudentRow(Student(r))}]
        /\ pc' = [pc EXCEPT ![r] = "lookup"]
        /\ UNCHANGED <<db, crossed, arg, view, held, outcome>>
    BY <1>2 DEF InsertPayment
  <2>2. RequestOK(r) /\ arg[r].due \in Dues
    BY <2>1 DEF FInv, RequestOK, Running
  <2>3. shared' \in [Requests -> SUBSET Rows]
    BY <2>1, <2>2, FeeAssumption DEF FInv, TypeOK, Rows, Student
  <2>4. RequestOK(r)'
    BY <2>1, <2>2 DEF FInv, TypeOK, RequestOK, Running, HoldsDue, Payments, db
  <2>5. DueRow(arg[r].due) \in held[r] /\ DueRow(arg[r].due) \in Rows
    BY <2>1, <2>2 DEF RequestOK, HoldsDue, Rows
  <2>6. held' = [held EXCEPT ![r] = @ \cup {DueRow(arg[r].due)}] /\ view' = [view EXCEPT ![r] = view[r]]
    BY <2>1, <2>5 DEF FInv, TypeOK
  <2>7. \A q \in Requests \ {r} : DueRow(arg[r].due) \notin held[q]
    BY <2>5 DEF FInv, LocksExclusive
  <2>8. QED
    BY <2>1, <2>3, <2>4, <2>5, <2>6, <2>7, ReadPreserves DEF FInv, TypeOK, PcValues
<1>3. QED
  BY <1>1, <1>2

LEMMA LockPaymentPreserves ==
    ASSUME FInv, NEW r \in Requests, LockPayment(r)
    PROVE  FInv'
<1> DEFINE p == arg[r].pay
<1>1. CASE \E o \in Outcomes : Finish(r, o)
  BY <1>1, FinishPreserves DEF LockPayment
<1>2. CASE ~\E o \in Outcomes : Finish(r, o)
  <2>1. ~Finish(r, "rejected") /\ ~Finish(r, "replayed")
    BY <1>2 DEF Outcomes
  <2>2. /\ pc[r] = "lock_payment"
        /\ Unlocked(PaymentRow(p), r)
        /\ ~(arg[r].amount > arg[p].amount - view[r].refunded)
        /\ held' = [held EXCEPT ![r] = @ \cup {PaymentRow(p)}]
        /\ pc' = [pc EXCEPT ![r] = "lock_due"]
        /\ UNCHANGED <<db, crossed, arg, view, shared, outcome>>
    BY <2>1 DEF LockPayment
  <2>3. /\ RequestOK(r) /\ arg[r].kind = "refund" /\ p \in Requests
        /\ arg[r].amount \in Int /\ arg[p].amount \in Int /\ view[r].refunded \in Int
    <3>1. RequestOK(r) /\ arg[r].kind = "refund" /\ p \in Requests
      BY <2>2 DEF FInv, RequestOK, Running, Payments
    <3>2. arg[r] \in Args /\ arg[p] \in Args
      BY <3>1 DEF FInv, TypeOK
    <3>3. QED
      BY <3>1, <3>2 DEF FInv, TypeOK, Args
  <2>4. RequestOK(r)'
    <3>1. pc'[r] = "lock_due"
      BY <2>2 DEF FInv, TypeOK
    <3>2. arg[r].amount <= arg[p].amount - view[r].refunded
      BY <2>2, <2>3
    <3>3. QED
      BY <2>2, <2>3, <3>1, <3>2 DEF RequestOK, Running, HoldsDue, Payments, db
  <2>5. PaymentRow(p) \in Rows /\ view' = [view EXCEPT ![r] = view[r]]
    BY <2>2, <2>3 DEF FInv, TypeOK, Rows
  <2>6. QED
    BY <2>2, <2>4, <2>5, ReadPreserves DEF FInv, TypeOK, PcValues, Unlocked
<1>3. QED
  BY <1>1, <1>2

LEMMA LockDueForRefundPreserves ==
    ASSUME FInv, NEW r \in Requests, LockDueForRefund(r)
    PROVE  FInv'
<1> DEFINE d == arg[r].due
           v == [view[r] EXCEPT !.paid = dues[d].paid]
<1>1. CASE Finish(r, "rejected")
  BY <1>1, FinishPreserves DEF LockDueForRefund, Outcomes
<1>2. CASE ~Finish(r, "rejected")
  <2>1. /\ pc[r] = "lock_due" /\ arg[r].kind = "refund"
        /\ Unlocked(DueRow(d), r)
        /\ ~(dues[d].paid < arg[r].amount)
        /\ held' = [held EXCEPT ![r] = @ \cup {DueRow(d)}]
        /\ view' = [view EXCEPT ![r].paid = dues[d].paid]
        /\ pc' = [pc EXCEPT ![r] = "lookup"]
        /\ UNCHANGED <<db, crossed, arg, shared, outcome>>
    BY <1>2 DEF LockDueForRefund
  <2>2. d \in Dues /\ arg[r].amount \in Nat /\ RequestOK(r)
    BY <2>1 DEF FInv, RequestOK, Running, Amounts
  <2>3. view' = [view EXCEPT ![r] = v]
        /\ v \in [refunded : Nat, paid : Nat, before : Int, journal : BOOLEAN]
    BY <2>1, <2>2 DEF FInv, TypeOK
  <2>4. dues[d].paid \in Nat /\ view'[r].refunded = view[r].refunded
    BY <2>1, <2>2 DEF FInv, TypeOK
  <2>5. RequestOK(r)'
    BY <2>1, <2>2, <2>4 DEF FInv, TypeOK, RequestOK, Running, HoldsDue, Payments, db
  <2>6. DueRow(d) \in Rows
    BY <2>2 DEF Rows
  <2>7. QED
    BY <2>1, <2>3, <2>5, <2>6, ReadPreserves DEF FInv, TypeOK, PcValues, Unlocked
<1>3. QED
  BY <1>1, <1>2

LEMMA LookupLedgerPreserves ==
    ASSUME FInv, NEW r \in Requests, LookupLedger(r)
    PROVE  FInv'
<1> USE DEF FInv, LookupLedger, db
<1>1. TypeOK'
  BY DEF TypeOK, PcValues
<1>2. LocksExclusive'
  BY DEF LocksExclusive
<1>3. ASSUME NEW q \in Requests PROVE RequestOK(q)'
  BY <1>3 DEF TypeOK, RequestOK, Running, HoldsDue, Payments
<1>4. ASSUME NEW p \in Requests PROVE PaymentOK(p)'
  BY <1>4 DEF TypeOK, PaymentOK
<1>5. ASSUME NEW d \in Dues PROVE DueOK(d)'
  BY <1>5 DEF TypeOK, DueOK, DueStatus
<1>6. QED
  BY <1>1, <1>2, <1>3, <1>4, <1>5

LEMMA JournalRowPreserves ==
    ASSUME FInv, NEW r \in Requests, JournalRow(r)
    PROVE  FInv'
<1>1. CASE \E o \in Outcomes : Finish(r, o)
  BY <1>1, FinishPreserves DEF JournalRow
<1>2. CASE ~\E o \in Outcomes : Finish(r, o)
  <2>0. ~Finish(r, "rejected") /\ ~Finish(r, "replayed")
    BY <1>2 DEF Outcomes
  <2> DEFINE v == [view[r] EXCEPT !.before = Balance(Student(r)), !.journal = TRUE]
  <2>1. /\ pc[r] = "journal"
        /\ StudentFree(r)
        /\ held' = [held EXCEPT ![r] = @ \cup {StudentRow(Student(r))}]
        /\ view' = [view EXCEPT ![r].before = Balance(Student(r)), ![r].journal = TRUE]
        /\ pc' = [pc EXCEPT ![r] = "commit"]
        /\ UNCHANGED <<db, crossed, arg, shared, outcome>>
    BY <2>0 DEF JournalRow
  <2>2. RequestOK(r) /\ arg[r].due \in Dues
    BY <2>1 DEF FInv, RequestOK, Running
  <2>3. view' = [view EXCEPT ![r] = v]
        /\ v \in [refunded : Nat, paid : Nat, before : Int, journal : BOOLEAN]
        /\ v.refunded = view[r].refunded /\ v.paid = view[r].paid
    <3>1. Balance(Student(r)) \in Int
      BY BalanceIsInt DEF FInv
    <3> HIDE DEF Balance
    <3>2. QED
      BY <2>1, <3>1 DEF FInv, TypeOK
  <2>4. StudentRow(Student(r)) \in Rows
    BY <2>2, FeeAssumption DEF Rows, Student
  <2>5. \A q \in Requests \ {r} : StudentRow(Student(r)) \notin held[q]
    BY <2>1 DEF StudentFree
  <2> HIDE DEF v
  <2>6. RequestOK(r)'
    <3>1. /\ pc'[r] = "commit" /\ view'[r] = v /\ held[r] \subseteq held'[r]
      BY <2>1, <2>3 DEF FInv, TypeOK
    <3>2. QED
      BY <2>1, <2>2, <2>3, <3>1 DEF FInv, TypeOK, RequestOK, Running, HoldsDue, Payments, db
  <2>7. QED
    BY <2>1, <2>3, <2>4, <2>5, <2>6, ReadPreserves DEF FInv, TypeOK, PcValues
<1>3. QED
  BY <1>1, <1>2

(* The ledger row a committing request writes is well formed.              *)
LEMMA LedgerAfterTyped ==
    ASSUME FInv, NEW r \in Requests, pc[r] = "commit"
    PROVE  LedgerAfter(r) \in Seq([by : Requests, key : LedgerKeys, before : Int, after : Int])
<1>1. /\ arg[r].kind \in {"payment", "refund"} /\ arg[r].amount \in Nat
      /\ arg[r].kind = "refund" => arg[r].pay \in Requests
      /\ arg[r].key \in Keys \cup {None}
      /\ view[r].refunded \in Nat /\ view[r].before \in Int
  <2>1. RequestOK(r) /\ arg[r] \in Args
    BY DEF FInv, TypeOK
  <2>2. QED
    BY <2>1 DEF FInv, TypeOK, RequestOK, Running, Args, Amounts, Payments
<1>2. LedgerKey(r) \in LedgerKeys
  BY <1>1 DEF LedgerKey, LedgerKeys
<1>3. Row(r) \in [by : Requests, key : LedgerKeys, before : Int, after : Int]
  BY <1>1, <1>2 DEF Row
<1> DEFINE T == [by : Requests, key : LedgerKeys, before : Int, after : Int]
<1>4. ledger \in Seq(T)
  BY DEF FInv, TypeOK
<1> HIDE DEF T
<1>5. Append(ledger, Row(r)) \in Seq(T)
  <2>1. Row(r) \in T
    BY <1>3 DEF T
  <2>2. QED
    BY <1>4, <2>1
<1>6. QED
  BY <1>4, <1>5 DEF LedgerAfter, T

(* What the guards of a commit say about a request, in plain numbers.      *)
LEMMA CommitFacts ==
    ASSUME FInv, NEW r \in Requests, pc[r] = "commit"
    PROVE  /\ RequestOK(r) /\ HoldsDue(r)
           /\ arg[r].due \in Dues /\ DueOK(arg[r].due)
           /\ dues[arg[r].due].status # "none"
           /\ arg[r].amount \in Amounts /\ arg[r].amount \in Nat \ {0}
           /\ view[r].refunded \in Nat /\ view[r].paid \in Nat
           /\ Original[arg[r].due] \in Nat
<1>1. RequestOK(r)
  BY DEF FInv
<1>2. /\ HoldsDue(r) /\ arg[r].due \in Dues /\ arg[r].amount \in Amounts
      /\ dues[arg[r].due].status # "none"
  BY <1>1 DEF RequestOK, Running
<1>3. arg[r].amount \in Nat \ {0}
  BY <1>2, FeeAssumption DEF Amounts
<1>4. view[r].refunded \in Nat /\ view[r].paid \in Nat
  BY DEF FInv, TypeOK
<1>5. Original[arg[r].due] \in Nat
  BY <1>2, FeeAssumption
<1>6. QED
  BY <1>1, <1>2, <1>3, <1>4, <1>5 DEF FInv

(* A transaction that rewrites the due it has locked and finishes leaves   *)
(* every other request's knowledge of its own due intact.                  *)
LEMMA OthersKeepTheirDue ==
    ASSUME FInv, NEW r \in Requests, NEW row, HoldsDue(r),
           row.status # "none",
           dues' = [dues EXCEPT ![arg[r].due] = row], arg' = arg,
           Finish(r, "applied"), Payments \subseteq Payments',
           NEW q \in Requests
    PROVE  RequestOK(q)'
<1>1. CASE q = r
  BY <1>1 DEF FInv, TypeOK, Finish, RequestOK, Running
<1>2. CASE q # r
  <2>1. pc'[q] = pc[q] /\ view'[q] = view[q] /\ held'[q] = held[q]
    BY <1>2 DEF FInv, TypeOK, Finish
  <2>2. HoldsDue(q) => arg[q].due # arg[r].due
    BY <1>2 DEF FInv, LocksExclusive, HoldsDue
  <2>3. \A d \in Dues : dues[d].status # "none" => dues'[d].status # "none"
    BY DEF FInv, TypeOK
  <2>4. arg[q].due \in Dues /\ HoldsDue(q) => HoldsDue(q)'
    BY <2>1, <2>2 DEF FInv, TypeOK, HoldsDue, DueRow
  <2>5. QED
    BY <2>1, <2>3, <2>4 DEF FInv, RequestOK, Running
<1>3. QED
  BY <1>1, <1>2

LEMMA CommitPaymentPreserves ==
    ASSUME FInv, NEW r \in Requests, CommitPayment(r)
    PROVE  FInv'
<1> DEFINE d == arg[r].due
           paid == view[r].paid + arg[r].amount
           row == [paid |-> paid, status |-> IF paid >= Original[d] THEN "paid" ELSE "partially_paid"]
<1>0. /\ pc[r] = "commit" /\ arg[r].kind = "payment"
      /\ pstatus' = [pstatus EXCEPT ![r] = "completed"]
      /\ dues' = [dues EXCEPT ![d] = row]
      /\ ledger' = LedgerAfter(r)
      /\ audited' = audited \cup {r}
      /\ outbox' \in {outbox, outbox \cup {r}}
      /\ Finish(r, "applied")
      /\ refunded' = refunded /\ arg' = arg /\ crossed' = crossed
  BY DEF CommitPayment
<1>1. /\ d \in Dues /\ arg[r].amount \in Nat \ {0} /\ arg[r].amount \in Amounts
      /\ HoldsDue(r) /\ paid \in Nat \ {0} /\ paid <= Original[d]
      /\ Original[d] \in Nat
  <2>1. view[r].paid + arg[r].amount <= Original[d]
    BY <1>0, CommitFacts DEF HoldsDue
  <2>2. QED
    BY <1>0, <2>1, CommitFacts
<1>2. row.status # "none" /\ row.paid = paid
      /\ row \in [paid : Nat, status : {"none", "unpaid", "partially_paid", "paid"}]
  BY <1>1
<1>3. TypeOK'
  <2> HIDE DEF row
  <2>1. dues' \in [Dues -> [paid : Nat, status : {"none", "unpaid", "partially_paid", "paid"}]]
    BY <1>0, <1>2 DEF FInv, TypeOK
  <2>2. ledger' \in Seq([by : Requests, key : LedgerKeys, before : Int, after : Int])
    BY <1>0, LedgerAfterTyped
  <2>3. /\ pc' \in [Requests -> PcValues] /\ outcome' \in [Requests -> Outcomes]
        /\ view' \in [Requests -> [refunded : Nat, paid : Nat, before : Int, journal : BOOLEAN]]
        /\ held' \in [Requests -> SUBSET Rows] /\ shared' \in [Requests -> SUBSET Rows]
    BY <1>0 DEF FInv, TypeOK, Finish, PcValues, Outcomes, NoView
  <2>4. QED
    BY <1>0, <2>1, <2>2, <2>3 DEF FInv, TypeOK
<1>4. LocksExclusive'
  BY <1>0 DEF FInv, TypeOK, LocksExclusive, Finish
<1>5. ASSUME NEW q \in Requests PROVE RequestOK(q)'
  <2>1. Payments \subseteq Payments'
    BY <1>0 DEF FInv, TypeOK, Payments
  <2> HIDE DEF row
  <2>2. QED
    BY <1>0, <1>1, <1>2, <1>5, <2>1, OthersKeepTheirDue
<1>6. ASSUME NEW p \in Requests PROVE PaymentOK(p)'
  <2>1. pstatus[r] = "none" /\ refunded[r] = 0
    BY <1>0 DEF FInv, PaymentOK
  <2>2. \A e \in Dues : dues[e].status # "none" => dues'[e].status # "none"
    BY <1>0, <1>2 DEF FInv, TypeOK
  <2>3. dues'[d].status # "none"
    BY <1>0, <1>1, <1>2 DEF FInv, TypeOK
  <2>4. CASE p = r
    BY <1>0, <1>1, <2>1, <2>3, <2>4 DEF FInv, TypeOK, PaymentOK, Finish
  <2>5. CASE p # r
    BY <1>0, <1>6, <2>2, <2>5 DEF FInv, TypeOK, PaymentOK, Finish
  <2>6. QED
    BY <2>4, <2>5
<1>7. ASSUME NEW e \in Dues PROVE DueOK(e)'
  <2>1. CASE e = d
    <3>1. dues'[e] = row
      BY <1>0, <1>7, <2>1 DEF FInv, TypeOK
    <3>2. QED
      BY <1>1, <2>1, <3>1 DEF DueOK, DueStatus
  <2>2. CASE e # d
    <3>1. dues'[e] = dues[e]
      BY <1>0, <1>7, <2>2 DEF FInv, TypeOK
    <3>2. QED
      BY <1>7, <3>1 DEF FInv, DueOK, DueStatus
  <2>3. QED
    BY <2>1, <2>2
<1>8. QED
  BY <1>3, <1>4, <1>5, <1>6, <1>7 DEF FInv

LEMMA CommitRefundPreserves ==
    ASSUME FInv, NEW r \in Requests, CommitRefund(r)
    PROVE  FInv'
<1> DEFINE p == arg[r].pay
           d == arg[r].due
           taken == view[r].refunded + arg[r].amount
           paid == view[r].paid - arg[r].amount
           row == [paid |-> paid, status |-> DueStatus(d, paid)]
<1>0. /\ pc[r] = "commit" /\ arg[r].kind = "refund"
      /\ refunded' = [refunded EXCEPT ![p] = taken]
      /\ pstatus' = [pstatus EXCEPT ![p] = PaymentStatus(taken, arg[p].amount)]
      /\ dues' = [dues EXCEPT ![d] = row]
      /\ ledger' = LedgerAfter(r)
      /\ audited' = audited \cup {r}
      /\ Finish(r, "applied")
      /\ outbox' = outbox /\ arg' = arg
      /\ crossed' \in {crossed, crossed \cup {p}}
  BY DEF CommitRefund
<1>1. RequestOK(r) /\ HoldsDue(r) /\ p \in Payments /\ p \in Requests /\ PaymentOK(p) /\ DueOK(d)
      /\ d \in Dues /\ dues[d].status # "none"
  BY <1>0, CommitFacts DEF FInv, RequestOK, Running, Payments
<1>2. /\ arg[r].amount \in Nat \ {0} /\ view[r].refunded \in Nat /\ view[r].paid \in Nat
      /\ arg[p].amount \in Nat /\ Original[d] \in Nat
  <2>1. arg[p].amount \in Nat
    BY <1>1, FeeAssumption DEF PaymentOK, Payments, Amounts
  <2>2. QED
    BY <1>0, <2>1, CommitFacts
<1>3. taken \in Nat /\ taken <= arg[p].amount /\ paid \in Nat /\ paid <= Original[d]
  BY <1>0, <1>1, <1>2 DEF RequestOK, HoldsDue, DueOK
<1>4. row.status # "none"
      /\ row \in [paid : Nat, status : {"none", "unpaid", "partially_paid", "paid"}]
  BY <1>3 DEF DueStatus
<1>5. PaymentStatus(taken, arg[p].amount) \in {"partially_refunded", "refunded"}
  BY DEF PaymentStatus
<1>6. TypeOK'
  <2> HIDE DEF row, taken
  <2>1. dues' \in [Dues -> [paid : Nat, status : {"none", "unpaid", "partially_paid", "paid"}]]
    BY <1>0, <1>4 DEF FInv, TypeOK
  <2>2. ledger' \in Seq([by : Requests, key : LedgerKeys, before : Int, after : Int])
    BY <1>0, LedgerAfterTyped
  <2>3. /\ pc' \in [Requests -> PcValues] /\ outcome' \in [Requests -> Outcomes]
        /\ view' \in [Requests -> [refunded : Nat, paid : Nat, before : Int, journal : BOOLEAN]]
        /\ held' \in [Requests -> SUBSET Rows] /\ shared' \in [Requests -> SUBSET Rows]
    BY <1>0 DEF FInv, TypeOK, Finish, PcValues, Outcomes, NoView
  <2>4. /\ refunded' \in [Requests -> Nat]
        /\ pstatus' \in [Requests -> {"none", "completed", "partially_refunded", "refunded"}]
    BY <1>0, <1>3, <1>5 DEF FInv, TypeOK
  <2>5. crossed' \subseteq Requests /\ audited' \subseteq Requests /\ outbox' \subseteq Requests
    BY <1>0, <1>1 DEF FInv, TypeOK
  <2>6. arg' \in [Requests -> Args]
    BY <1>0 DEF FInv, TypeOK
  <2>7. QED
    BY <2>1, <2>2, <2>3, <2>4, <2>5, <2>6 DEF TypeOK
<1>7. LocksExclusive'
  BY <1>0 DEF FInv, TypeOK, LocksExclusive, Finish
<1>8. ASSUME NEW q \in Requests PROVE RequestOK(q)'
  <2>1. Payments \subseteq Payments'
    BY <1>0, <1>5 DEF FInv, TypeOK, Payments
  <2> HIDE DEF row
  <2>2. QED
    BY <1>0, <1>1, <1>4, <1>8, <2>1, OthersKeepTheirDue
<1>9. ASSUME NEW q \in Requests PROVE PaymentOK(q)'
  <2> HIDE DEF row, taken
  <2>1. \A e \in Dues : dues[e].status # "none" => dues'[e].status # "none"
    BY <1>0, <1>4 DEF FInv, TypeOK
  <2>2. pc'[q] = IF q = r THEN "done" ELSE pc[q]
    BY <1>0, <1>9 DEF FInv, TypeOK, Finish
  <2>3. CASE q = p
    <3>1. pstatus'[q] # "none" /\ refunded'[q] = taken
      BY <1>0, <1>1, <1>5, <2>3 DEF FInv, TypeOK
    <3>2. QED
      BY <1>0, <1>1, <1>3, <2>1, <2>2, <2>3, <3>1 DEF PaymentOK, Payments
  <2>4. CASE q # p
    <3>1. pstatus'[q] = pstatus[q] /\ refunded'[q] = refunded[q]
      BY <1>0, <1>9, <2>4 DEF FInv, TypeOK
    <3>2. QED
      BY <1>0, <1>9, <2>1, <2>2, <3>1 DEF FInv, PaymentOK
  <2>5. QED
    BY <2>3, <2>4
<1>10. ASSUME NEW e \in Dues PROVE DueOK(e)'
  <2>1. CASE e = d
    <3>1. dues'[e] = row
      BY <1>0, <1>10, <2>1 DEF FInv, TypeOK
    <3>2. QED
      BY <1>3, <1>4, <2>1, <3>1 DEF DueOK, DueStatus
  <2>2. CASE e # d
    <3>1. dues'[e] = dues[e]
      BY <1>0, <1>10, <2>2 DEF FInv, TypeOK
    <3>2. QED
      BY <1>10, <3>1 DEF FInv, DueOK, DueStatus
  <2>3. QED
    BY <2>1, <2>2
<1>11. QED
  BY <1>6, <1>7, <1>8, <1>9, <1>10 DEF FInv

LEMMA AbortPreserves ==
    ASSUME FInv, NEW r \in Requests, Abort(r) \/ BreakDeadlock(r)
    PROVE  FInv'
<1>1. pc[r] # "idle"
  BY DEF Abort, BreakDeadlock, Deadlocked, WaitsFor, Running
<1>2. "aborted" \in Outcomes
  BY DEF Outcomes
<1>3. QED
  BY <1>1, <1>2, FinishPreserves DEF Abort, BreakDeadlock

LEMMA NextPreserves == FInv /\ [Next]_vars => FInv'
<1> SUFFICES ASSUME FInv, [Next]_vars PROVE FInv'
  OBVIOUS
<1>1. CASE UNCHANGED vars
  BY <1>1 DEF vars, db, FInv, TypeOK, LocksExclusive, RequestOK, PaymentOK, DueOK,
              Running, HoldsDue, Payments, DueStatus
<1>2. ASSUME NEW s \in Students, CreateDues(s) PROVE FInv'
  BY <1>2, CreateDuesPreserves
<1>3. ASSUME NEW r \in Requests, Begin(r) PROVE FInv'
  BY <1>3, BeginPaymentPreserves, BeginRefundPreserves DEF Begin
<1>4. ASSUME NEW r \in Requests, Step(r) PROVE FInv'
  BY <1>4, LockDueForPaymentPreserves, InsertPaymentPreserves, LockPaymentPreserves,
     LockDueForRefundPreserves, LookupLedgerPreserves, JournalRowPreserves,
     CommitPaymentPreserves, CommitRefundPreserves, AbortPreserves DEF Step
<1>5. ASSUME NEW r \in Requests, Abort(r) PROVE FInv'
  BY <1>5, AbortPreserves
<1>6. QED
  BY <1>1, <1>2, <1>3, <1>4, <1>5 DEF Next

-----------------------------------------------------------------------------
(* FInv holds in every reachable state: locks exclude each other, a        *)
(* request past its due's lock knows the due as it is, and no payment is   *)
(* refunded beyond its amount.                                             *)
THEOREM Invariance == Spec => []FInv
<1>1. QED
  BY InitEstablishes, NextPreserves, PTL DEF Spec

(* The variables keep their types.                                         *)
THEOREM TypeCorrect == Spec => []TypeOK
<1>1. FInv => TypeOK
  BY DEF FInv
<1>2. QED
  BY <1>1, Invariance, PTL

(* For every set of requests: overlapping payments and refunds never push  *)
(* a due below zero or above what was assigned, and its status always      *)
(* agrees with its balance (LockDueForPayment, LockDueForRefund, Commit).  *)
THEOREM DuesStayInRange == Spec => []DueInRange
<1>1. FInv => DueInRange
  <2> SUFFICES ASSUME FInv, NEW d \in Dues, dues[d].status # "none"
               PROVE  /\ dues[d].paid \in 0..Original[d]
                      /\ dues[d].status = DueStatus(d, dues[d].paid)
    BY DEF DueInRange
  <2>1. DueOK(d) /\ dues[d].paid \in Nat /\ Original[d] \in Nat
    BY FeeAssumption DEF FInv, TypeOK
  <2>2. QED
    BY <2>1 DEF DueOK
<1>2. QED
  BY <1>1, Invariance, PTL
-----------------------------------------------------------------------------
(* Steps that do not commit.                                               *)

(* No request but r is touched.                                            *)
OthersStand(r) ==
    \A q \in Requests \ {r} :
        /\ pc'[q] = pc[q] /\ arg'[q] = arg[q] /\ view'[q] = view[q]
        /\ held'[q] = held[q] /\ outcome'[q] = outcome[q]

(* r begins, reads, locks, inserts, or ends without an effect.             *)
Quiet(r) ==
    /\ UNCHANGED <<dues, pstatus, refunded, ledger, audited, outbox, crossed>>
    /\ OthersStand(r)
    /\ pc[r] # "done"
    /\ pc[r] # "idle" => arg'[r] = arg[r]
    /\ outcome'[r] \in {outcome[r], "replayed", "rejected", "aborted"}
    /\ outcome'[r] # outcome[r] => pc'[r] = "done"

(* No request is touched.                                                  *)
NobodyMoves ==
    UNCHANGED <<pstatus, refunded, ledger, audited, outbox, arg, pc, view, held, outcome, crossed>>

LEMMA QuietEnd ==
    ASSUME TypeOK, NEW r \in Requests, NEW o \in {"replayed", "rejected", "aborted"},
           Finish(r, o), UNCHANGED <<db, crossed, arg>>, pc[r] # "done"
    PROVE  Quiet(r)
  BY DEF TypeOK, Finish, Quiet, OthersStand, db

LEMMA QuietBegin ==
    ASSUME FInv, NEW r \in Requests, Begin(r)
    PROVE  Quiet(r) /\ pc[r] = "idle"
<1>1. ASSUME NEW d \in Dues, NEW a \in Amounts, NEW k \in Keys \cup {None}, BeginPayment(r, d, a, k)
      PROVE  Quiet(r) /\ pc[r] = "idle"
  <2>1. CASE Finish(r, "replayed")
    BY <1>1, <2>1 DEF BeginPayment, FInv, TypeOK, Finish, Quiet, OthersStand, db
  <2>2. CASE ~Finish(r, "replayed")
    BY <1>1, <2>2 DEF BeginPayment, FInv, TypeOK, Quiet, OthersStand, db
  <2> QED
    BY <2>1, <2>2
<1>2. ASSUME NEW p \in Requests, NEW a \in Amounts, NEW k \in Keys \cup {None}, BeginRefund(r, p, a, k)
      PROVE  Quiet(r) /\ pc[r] = "idle"
  BY <1>2 DEF BeginRefund, FInv, TypeOK, Quiet, OthersStand, db
<1> QED
  BY <1>1, <1>2 DEF Begin

LEMMA QuietStep ==
    ASSUME FInv, NEW r \in Requests,
           \/ LockDueForPayment(r) \/ InsertPayment(r) \/ LockPayment(r) \/ LockDueForRefund(r)
           \/ LookupLedger(r) \/ JournalRow(r) \/ BreakDeadlock(r) \/ Abort(r)
    PROVE  Quiet(r) /\ pc[r] # "idle"
<1> USE DEF FInv
<1>1. CASE LockDueForPayment(r)
  <2>1. CASE Finish(r, "rejected")
    BY <1>1, <2>1, QuietEnd DEF LockDueForPayment
  <2>2. CASE ~Finish(r, "rejected")
    BY <1>1, <2>2 DEF LockDueForPayment, TypeOK, Quiet, OthersStand, db
  <2> QED
    BY <1>1, <2>1, <2>2 DEF LockDueForPayment
<1>2. CASE InsertPayment(r)
  <2>1. CASE Finish(r, "replayed")
    BY <1>2, <2>1, QuietEnd DEF InsertPayment
  <2>2. CASE ~Finish(r, "replayed")
    BY <1>2, <2>2 DEF InsertPayment, TypeOK, Quiet, OthersStand, db
  <2> QED
    BY <1>2, <2>1, <2>2 DEF InsertPayment
<1>3. CASE LockPayment(r)
  <2>1. CASE Finish(r, "rejected") \/ Finish(r, "replayed")
    BY <1>3, <2>1, QuietEnd DEF LockPayment
  <2>2. CASE ~Finish(r, "rejected") /\ ~Finish(r, "replayed")
    BY <1>3, <2>2 DEF LockPayment, TypeOK, Quiet, OthersStand, db
  <2> QED
    BY <1>3, <2>1, <2>2 DEF LockPayment
<1>4. CASE LockDueForRefund(r)
  <2>1. CASE Finish(r, "rejected")
    BY <1>4, <2>1, QuietEnd DEF LockDueForRefund
  <2>2. CASE ~Finish(r, "rejected")
    BY <1>4, <2>2 DEF LockDueForRefund, TypeOK, Quiet, OthersStand, db
  <2> QED
    BY <1>4, <2>1, <2>2 DEF LockDueForRefund
<1>5. CASE LookupLedger(r)
  BY <1>5 DEF LookupLedger, TypeOK, Quiet, OthersStand, db
<1>6. CASE JournalRow(r)
  <2>1. CASE Finish(r, "rejected") \/ Finish(r, "replayed")
    BY <1>6, <2>1, QuietEnd DEF JournalRow
  <2>2. CASE ~Finish(r, "rejected") /\ ~Finish(r, "replayed")
    BY <1>6, <2>2 DEF JournalRow, TypeOK, Quiet, OthersStand, db
  <2> QED
    BY <1>6, <2>1, <2>2 DEF JournalRow
<1>7. CASE BreakDeadlock(r)
  <2>1. pc[r] \notin {"idle", "done"}
    BY <1>7 DEF BreakDeadlock, Deadlocked, WaitsFor
  <2> QED
    BY <1>7, <2>1, QuietEnd DEF BreakDeadlock
<1>8. CASE Abort(r)
  BY <1>8, QuietEnd DEF Abort, Running
<1> QED
  BY <1>1, <1>2, <1>3, <1>4, <1>5, <1>6, <1>7, <1>8

LEMMA StepKinds ==
    ASSUME FInv, [Next]_vars
    PROVE  \/ \E r \in Requests : Quiet(r)
           \/ \E r \in Requests : CommitPayment(r)
           \/ \E r \in Requests : CommitRefund(r)
           \/ NobodyMoves
<1>1. CASE UNCHANGED vars
  BY <1>1 DEF vars, db, NobodyMoves
<1>2. ASSUME NEW s \in Students, CreateDues(s) PROVE NobodyMoves
  BY <1>2 DEF CreateDues, NobodyMoves
<1>3. ASSUME NEW r \in Requests, Begin(r) PROVE Quiet(r)
  BY <1>3, QuietBegin
<1>4. ASSUME NEW r \in Requests, Step(r) \/ Abort(r)
      PROVE  Quiet(r) \/ CommitPayment(r) \/ CommitRefund(r)
  BY <1>4, QuietStep DEF Step
<1> QED
  BY <1>1, <1>2, <1>3, <1>4 DEF Next
-----------------------------------------------------------------------------
(* Commits.                                                                *)
LEMMA LedgerGrows ==
    ASSUME TypeOK, NEW x
    PROVE  /\ Len(ledger) \in Nat /\ DOMAIN ledger = 1..Len(ledger)
           /\ DOMAIN Append(ledger, x) = 1..(Len(ledger) + 1)
           /\ Append(ledger, x)[Len(ledger) + 1] = x
           /\ \A i \in 1..Len(ledger) : Append(ledger, x)[i] = ledger[i]
<1> DEFINE T == [by : Requests, key : LedgerKeys, before : Int, after : Int]
<1>1. ledger \in Seq(T)
  BY DEF TypeOK
<1> HIDE DEF T
<1> QED
  BY <1>1

LEMMA RowTyped ==
    ASSUME TypeOK, NEW i \in DOMAIN ledger
    PROVE  /\ ledger[i].by \in Requests /\ ledger[i].key \in LedgerKeys
           /\ ledger[i].before \in Int /\ ledger[i].after \in Int
<1> DEFINE T == [by : Requests, key : LedgerKeys, before : Int, after : Int]
<1>1. ledger \in Seq(T)
  BY DEF TypeOK
<1>2. ledger[i] \in T
  <2> HIDE DEF T
  <2> QED
    BY <1>1
<1> QED
  BY <1>2

(* What both commits do.                                                   *)
Commits(r) ==
    /\ pc[r] = "commit"
    /\ OthersStand(r) /\ arg' = arg
    /\ pc'[r] = "done" /\ outcome'[r] = "applied"
    /\ ledger' = LedgerAfter(r)
    /\ audited' = audited \cup {r}

LEMMA CommitsCommit ==
    ASSUME FInv, NEW r \in Requests, CommitPayment(r) \/ CommitRefund(r)
    PROVE  Commits(r)
  BY DEF CommitPayment, CommitRefund, FInv, TypeOK, Finish, Commits, OthersStand

-----------------------------------------------------------------------------
(* What took effect: the accounts of it agree.                             *)

KeyFits(r, key) ==
    IF arg[r].kind = "payment" THEN key = <<"payment", r, 0>>
    ELSE IF arg[r].key # None THEN key = <<"client", arg[r].key, 0>>
    ELSE \E n \in Nat \ {0} : key = <<"refund", arg[r].pay, n>>

AppliedOK(r) ==
    /\ arg[r].kind \in {"payment", "refund"} /\ arg[r].amount \in Amounts /\ arg[r].due \in Dues
    /\ arg[r].kind = "refund" => arg[r].pay \in Payments /\ arg[r].due = arg[arg[r].pay].due

RowOK(i) == outcome[ledger[i].by] = "applied" /\ KeyFits(ledger[i].by, ledger[i].key)

(* Whoever was answered is done; the payments, the audit rows and the      *)
(* ledger rows are of the requests that took effect.                       *)
JInv ==
    /\ \A r \in Requests : outcome[r] # "none" => pc[r] = "done"
    /\ \A r \in Requests : outcome[r] = "applied" => AppliedOK(r)
    /\ Payments = Applied("payment")
    /\ audited = Applied("payment") \cup Applied("refund")
    /\ outbox \subseteq Payments
    /\ \A i \in DOMAIN ledger : RowOK(i)

LEMMA JInvInit == Init => JInv
  BY DEF Init, JInv, Payments, Applied

LEMMA QuietKeepsJInv ==
    ASSUME FInv, JInv, NEW r \in Requests, Quiet(r)
    PROVE  JInv'
<1> USE DEF Quiet, OthersStand, JInv
<1>1. outcome[r] = "none" /\ r \notin Payments
  BY DEF FInv, TypeOK, Outcomes, Payments, PaymentOK
<1>2. \A q \in Requests : outcome'[q] = "applied" <=> outcome[q] = "applied"
  BY <1>1
<1>3. \A q \in Requests : outcome[q] = "applied" => q # r /\ arg'[q] = arg[q]
  BY <1>1
<1>4. Payments' = Payments /\ \A kind : Applied(kind)' = Applied(kind)
  BY <1>2, <1>3 DEF Payments, Applied
<1>5. ASSUME NEW q \in Requests, outcome[q] = "applied" PROVE AppliedOK(q)'
  <2>1. arg[q].kind = "refund" => arg[q].pay \in Requests /\ arg'[arg[q].pay] = arg[arg[q].pay]
    BY <1>3, <1>5 DEF AppliedOK, Payments, Applied
  <2> QED
    BY <1>3, <1>4, <1>5, <2>1 DEF AppliedOK
<1>6. ASSUME NEW i \in DOMAIN ledger PROVE RowOK(i)'
  <2>1. ledger[i].by \in Requests /\ outcome[ledger[i].by] = "applied"
    BY <1>6, RowTyped DEF FInv, RowOK
  <2> QED
    BY <1>2, <1>3, <1>6, <2>1 DEF RowOK, KeyFits
<1> QED
  BY <1>2, <1>4, <1>5, <1>6

LEMMA CommitKeepsJInv ==
    ASSUME FInv, JInv, NEW r \in Requests, CommitPayment(r) \/ CommitRefund(r)
    PROVE  JInv'
<1> USE DEF JInv
<1>1. Commits(r)
  BY CommitsCommit
<1> USE DEF Commits, OthersStand
<1>2. /\ RequestOK(r) /\ arg[r].kind \in {"payment", "refund"} /\ arg[r].amount \in Amounts
      /\ arg[r].due \in Dues
      /\ arg[r].kind = "refund" => /\ arg[r].pay \in Payments /\ arg[r].due = arg[arg[r].pay].due
                                   /\ view[r].refunded + arg[r].amount \in Nat \ {0}
  BY <1>1, CommitFacts DEF FInv, RequestOK, Running
<1>3. Payments' = IF arg[r].kind = "payment" THEN Payments \cup {r} ELSE Payments
  <2>1. CASE CommitPayment(r)
    BY <2>1 DEF CommitPayment, FInv, TypeOK, Payments
  <2>2. CASE CommitRefund(r)
    <3>1. /\ arg[r].kind = "refund" /\ arg[r].pay \in Payments
          /\ pstatus' = [pstatus EXCEPT ![arg[r].pay] =
                            PaymentStatus(view[r].refunded + arg[r].amount, arg[arg[r].pay].amount)]
      BY <2>2, <1>2 DEF CommitRefund
    <3> QED
      BY <3>1 DEF FInv, TypeOK, Payments, PaymentStatus
  <2> QED
    BY <2>1, <2>2
<1>4. \A kind : Applied(kind)' = IF arg[r].kind = kind THEN Applied(kind) \cup {r} ELSE Applied(kind)
  BY <1>1 DEF Applied
<1>5. outbox' \subseteq outbox \cup {r} /\ (arg[r].kind = "refund" => outbox' = outbox)
  BY DEF CommitPayment, CommitRefund
<1>6. ASSUME NEW q \in Requests, outcome'[q] = "applied" PROVE AppliedOK(q)'
  BY <1>1, <1>2, <1>3, <1>6 DEF AppliedOK
<1>7. ASSUME NEW i \in DOMAIN ledger' PROVE RowOK(i)'
  <2>1. KeyFits(r, LedgerKey(r))
    BY <1>2 DEF KeyFits, LedgerKey
  <2>2. CASE i \in DOMAIN ledger /\ ledger'[i] = ledger[i]
    <3>1. ledger[i].by \in Requests
      BY <2>2, RowTyped DEF FInv
    <3> QED
      BY <1>1, <2>2, <3>1 DEF RowOK, KeyFits
  <2>3. CASE ledger'[i] = Row(r)
    BY <1>1, <2>1, <2>3 DEF RowOK, KeyFits, Row
  <2>4. (i \in DOMAIN ledger /\ ledger'[i] = ledger[i]) \/ ledger'[i] = Row(r)
    BY <1>1, <1>7, LedgerGrows DEF FInv, LedgerAfter
  <2> QED
    BY <2>2, <2>3, <2>4
<1>8. \A q \in Requests : outcome'[q] # "none" => pc'[q] = "done"
  BY <1>1
<1> QED
  BY <1>1, <1>2, <1>3, <1>4, <1>5, <1>6, <1>7, <1>8

LEMMA JInvStep ==
    ASSUME FInv, JInv, [Next]_vars
    PROVE  JInv'
<1>1. CASE NobodyMoves
  BY <1>1 DEF NobodyMoves, JInv, AppliedOK, RowOK, KeyFits, Payments, Applied
<1> QED
  BY <1>1, StepKinds, QuietKeepsJInv, CommitKeepsJInv
-----------------------------------------------------------------------------
(* Idempotency keys.                                                       *)

ClientKey(k) == <<"client", k, 0>>

(* Payments that hold their key, committed or not.                         *)
Claims == Payments \cup Inserted
OneClaim == \A q, r \in Claims : arg[q].key # None /\ arg[q].key = arg[r].key => q = r

KeyedRow == \A r \in Applied("refund") : arg[r].key # None => RowsWithKey(ClientKey(arg[r].key)) # {}

OneRefund == \A q, r \in Applied("refund") : SameRefund(q, r) => q = r

(* A refund that has found no row of its key holds its payment, and no     *)
(* refund with its key has taken effect for that payment since.            *)
PastCheck(r) == arg[r].kind = "refund" /\ pc[r] \in {"lock_due", "lookup", "journal", "commit"}
PastCheckOK(r) ==
    PastCheck(r) => /\ PaymentRow(arg[r].pay) \in held[r]
                    /\ \A q \in Applied("refund") : ~SameRefund(q, r)

(* A refund that will not journal has found a row of its key.              *)
UnjournaledOK(r) ==
    PastCheck(r) /\ pc[r] = "commit" /\ ~view[r].journal /\ arg[r].key # None
        => RowsWithKey(ClientKey(arg[r].key)) # {}

ReplayOK(r) ==
    outcome[r] = "replayed" =>
        IF arg[r].kind = "payment" THEN PaymentsWithKey(arg[r].key) # {}
        ELSE \E q \in Applied("refund") : arg[q].key = arg[r].key /\ arg[q].pay = arg[r].pay

KInv ==
    /\ OneClaim
    /\ KeyedRow
    /\ OneRefund
    /\ \A r \in Requests : PastCheckOK(r) /\ UnjournaledOK(r) /\ ReplayOK(r)

(* Whose rows carry which key.                                             *)
LEMMA ClientRow ==
    ASSUME FInv, JInv, NEW k, NEW i \in RowsWithKey(ClientKey(k))
    PROVE  ledger[i].by \in Applied("refund") /\ arg[ledger[i].by].key = k /\ k # None
<1>1. i \in DOMAIN ledger /\ ledger[i].key = ClientKey(k)
  BY DEF RowsWithKey
<1>2. ledger[i].by \in Requests
  BY <1>1, RowTyped DEF FInv
<1>3. KeyFits(ledger[i].by, ClientKey(k)) /\ outcome[ledger[i].by] = "applied"
  BY <1>1 DEF JInv, RowOK
<1>4. arg[ledger[i].by].kind \in {"payment", "refund"}
  BY <1>2, <1>3 DEF JInv, AppliedOK
<1> QED
  BY <1>2, <1>3, <1>4 DEF KeyFits, ClientKey, Applied

LEMMA RowOfPayment ==
    ASSUME FInv, JInv, NEW r \in Requests, NEW i \in RowsWithKey(<<"payment", r, 0>>)
    PROVE  ledger[i].by = r /\ outcome[r] = "applied"
<1>1. i \in DOMAIN ledger /\ ledger[i].key = <<"payment", r, 0>>
  BY DEF RowsWithKey
<1>2. KeyFits(ledger[i].by, <<"payment", r, 0>>) /\ outcome[ledger[i].by] = "applied"
  BY <1>1 DEF JInv, RowOK
<1> QED
  BY <1>2 DEF KeyFits

(* What has been applied, and its rows, stay.                              *)
LEMMA QuietKeepsApplied ==
    ASSUME FInv, JInv, NEW r \in Requests, Quiet(r)
    PROVE  /\ Payments' = Payments
           /\ \A kind : Applied(kind)' = Applied(kind)
           /\ \A q \in Requests : outcome[q] = "applied" => q # r /\ arg'[q] = arg[q]
           /\ \A k : RowsWithKey(k)' = RowsWithKey(k) /\ PaymentsWithKey(k)' = PaymentsWithKey(k)
<1> USE DEF Quiet, OthersStand, JInv
<1>1. outcome[r] = "none"
  BY DEF FInv, TypeOK, Outcomes
<1>2. \A q \in Requests : outcome'[q] = "applied" <=> outcome[q] = "applied"
  BY <1>1
<1>3. \A q \in Requests : outcome[q] = "applied" => q # r /\ arg'[q] = arg[q]
  BY <1>1
<1>4. Payments' = Payments /\ \A kind : Applied(kind)' = Applied(kind)
  BY <1>2, <1>3 DEF Payments, Applied
<1>5. \A k : PaymentsWithKey(k)' = PaymentsWithKey(k)
  BY <1>3, <1>4 DEF PaymentsWithKey, Applied
<1> QED
  BY <1>3, <1>4, <1>5 DEF RowsWithKey

LEMMA QuietKeepsKInv ==
    ASSUME FInv, JInv, KInv, NEW r \in Requests, Quiet(r),
           r \in Inserted' => /\ pc[r] # "idle"
                              /\ \A q \in Claims \ {r} : arg[r].key # None => arg[q].key # arg[r].key,
           PastCheckOK(r)', UnjournaledOK(r)', ReplayOK(r)'
    PROVE  KInv'
<1> USE DEF KInv
<1>1. /\ Payments' = Payments
      /\ \A kind : Applied(kind)' = Applied(kind)
      /\ \A q \in Requests : outcome[q] = "applied" => q # r /\ arg'[q] = arg[q]
      /\ \A k : RowsWithKey(k)' = RowsWithKey(k) /\ PaymentsWithKey(k)' = PaymentsWithKey(k)
  BY QuietKeepsApplied
<1>2. \A kind : Applied(kind) \subseteq Requests /\ \A q \in Applied(kind) : arg'[q] = arg[q] /\ q # r
  BY <1>1 DEF Applied
<1>3. OneClaim'
  <2>1. \A q \in Claims' : q = r \/ (q \in Claims /\ arg'[q] = arg[q])
    BY <1>1 DEF Claims, Inserted, Quiet, OthersStand, Payments
  <2>2. r \in Claims' => r \in Inserted' /\ arg'[r] = arg[r]
    <3>1. r \notin Payments'
      BY <1>1, <1>2 DEF JInv
    <3> QED
      BY <3>1 DEF Claims, Quiet
  <2> QED
    BY <2>1, <2>2 DEF OneClaim
<1>4. KeyedRow'
  BY <1>1, <1>2 DEF KeyedRow
<1>5. OneRefund'
  BY <1>1, <1>2 DEF OneRefund, SameRefund
<1>6. ASSUME NEW q \in Requests PROVE PastCheckOK(q)' /\ UnjournaledOK(q)' /\ ReplayOK(q)'
  <2>1. CASE q # r
    <3>1. /\ pc'[q] = pc[q] /\ arg'[q] = arg[q] /\ view'[q] = view[q]
          /\ held'[q] = held[q] /\ outcome'[q] = outcome[q]
      BY <1>6, <2>1 DEF Quiet, OthersStand
    <3>2. PastCheckOK(q)'
      BY <1>1, <1>2, <1>6, <3>1 DEF PastCheckOK, PastCheck, SameRefund
    <3>3. UnjournaledOK(q)'
      <4>1. UnjournaledOK(q) /\ ledger' = ledger
        BY <1>6 DEF Quiet
      <4> QED
        BY <3>1, <4>1 DEF UnjournaledOK, PastCheck, RowsWithKey, ClientKey
    <3>4. ReplayOK(q)'
      <4>1. ReplayOK(q) /\ \A p \in Payments : p \in Applied("payment")
        BY <1>6 DEF JInv
      <4> QED
        BY <1>1, <1>2, <3>1, <4>1 DEF ReplayOK, PaymentsWithKey
    <3> QED
      BY <3>2, <3>3, <3>4
  <2> QED
    BY <2>1
<1> QED
  BY <1>3, <1>4, <1>5, <1>6

LEMMA EndKeepsKInv ==
    ASSUME FInv, JInv, KInv, NEW r \in Requests, Quiet(r), pc'[r] = "done", ReplayOK(r)'
    PROVE  KInv'
  BY QuietKeepsKInv DEF Inserted, PastCheckOK, PastCheck, UnjournaledOK

LEMMA FailureKeepsKInv ==
    ASSUME FInv, JInv, KInv, NEW r \in Requests, Quiet(r),
           Finish(r, "rejected") \/ Finish(r, "aborted")
    PROVE  KInv'
<1>1. pc'[r] = "done" /\ outcome'[r] # "replayed"
  BY DEF FInv, TypeOK, Finish
<1> QED
  BY <1>1, EndKeepsKInv DEF ReplayOK
LEMMA BeginKeepsKInv ==
    ASSUME FInv, JInv, KInv, NEW r \in Requests, Begin(r)
    PROVE  KInv'
<1>1. Quiet(r) /\ pc[r] = "idle"
  BY QuietBegin
<1>2. ASSUME NEW d \in Dues, NEW a \in Amounts, NEW k \in Keys \cup {None}, BeginPayment(r, d, a, k)
      PROVE  KInv'
  <2>1. arg'[r].kind = "payment" /\ arg'[r].key = k
    BY <1>2 DEF BeginPayment, FInv, TypeOK
  <2>2. CASE Finish(r, "replayed")
    <3>1. pc'[r] = "done"
      BY <2>2 DEF FInv, TypeOK, Finish
    <3>2. pc'[r] # "lock_due"
      BY <3>1
    <3>3. PaymentsWithKey(k) # {}
      BY <1>2, <3>2 DEF BeginPayment, FInv, TypeOK
    <3>4. PICK p \in Payments : k # None /\ arg[p].key = k
      BY <3>3 DEF PaymentsWithKey
    <3>5. p \in Payments' /\ arg'[p].key = k
      BY <1>1, <3>4, QuietKeepsApplied DEF JInv, Applied
    <3>6. ReplayOK(r)'
      BY <2>1, <3>4, <3>5 DEF ReplayOK, PaymentsWithKey
    <3> QED
      BY <1>1, <3>1, <3>6, EndKeepsKInv
  <2>3. CASE ~Finish(r, "replayed")
    <3>1. pc'[r] = "lock_due" /\ outcome'[r] = outcome[r]
      BY <1>2, <2>3 DEF BeginPayment, FInv, TypeOK
    <3>2. outcome'[r] # "replayed"
      BY <1>1, <3>1 DEF JInv
    <3> QED
      BY <1>1, <2>1, <3>1, <3>2, QuietKeepsKInv
         DEF Inserted, PastCheckOK, PastCheck, UnjournaledOK, ReplayOK
  <2> QED
    BY <2>2, <2>3
<1>3. ASSUME NEW p \in Requests, NEW a \in Amounts, NEW k \in Keys \cup {None}, BeginRefund(r, p, a, k)
      PROVE  KInv'
  <2>1. pc'[r] = "lock_payment" /\ outcome'[r] = outcome[r]
    BY <1>3 DEF BeginRefund, FInv, TypeOK
  <2>2. outcome'[r] # "replayed"
    BY <1>1, <2>1 DEF JInv
  <2> QED
    BY <1>1, <2>1, <2>2, QuietKeepsKInv
       DEF Inserted, PastCheckOK, PastCheck, UnjournaledOK, ReplayOK
<1> QED
  BY <1>2, <1>3 DEF Begin

LEMMA InsertPaymentKeepsKInv ==
    ASSUME FInv, JInv, KInv, NEW r \in Requests, InsertPayment(r)
    PROVE  KInv'
<1>1. Quiet(r) /\ arg' = arg /\ pc[r] = "insert" /\ outcome[r] = "none"
  BY QuietStep DEF InsertPayment, FInv, TypeOK, Outcomes, JInv
<1>2. arg[r].kind = "payment"
  BY <1>1 DEF FInv, RequestOK
<1>3. CASE Finish(r, "replayed")
  <2>1. pc'[r] = "done"
    BY <1>3 DEF FInv, TypeOK, Finish
  <2>2. PaymentsWithKey(arg[r].key) # {}
    BY <2>1 DEF InsertPayment, FInv, TypeOK
  <2>3. PICK p \in Payments : arg[r].key # None /\ arg[p].key = arg[r].key
    BY <2>2 DEF PaymentsWithKey
  <2>4. ReplayOK(r)'
    BY <1>1, <1>2, <2>3, QuietKeepsApplied DEF ReplayOK, PaymentsWithKey
  <2> QED
    BY <1>1, <2>1, <2>4, EndKeepsKInv
<1>4. CASE ~Finish(r, "replayed")
  <2>1. pc'[r] = "lookup" /\ outcome'[r] = outcome[r] /\ PaymentsWithKey(arg[r].key) = {}
    BY <1>4 DEF InsertPayment, FInv, TypeOK
  <2>2. \A q \in Claims \ {r} : arg[r].key # None => arg[q].key # arg[r].key
    BY <2>1 DEF InsertPayment, KeyPending, PaymentsWithKey, Claims
  <2> QED
    BY <1>1, <1>2, <2>1, <2>2, QuietKeepsKInv
       DEF PastCheckOK, PastCheck, UnjournaledOK, ReplayOK
<1> QED
  BY <1>3, <1>4

(* What a refund that has found a row of its key is told.                  *)
LEMMA RefundReplayed ==
    ASSUME FInv, JInv, KInv, NEW r \in Requests, Quiet(r), arg' = arg, arg[r].kind = "refund",
           NEW i \in RowsWithKey(ClientKey(arg[r].key)), arg[ledger[i].by].pay = arg[r].pay
    PROVE  ReplayOK(r)'
<1>1. ledger[i].by \in Applied("refund") /\ arg[ledger[i].by].key = arg[r].key
  BY ClientRow
<1>2. ledger[i].by \in Applied("refund")'
  BY <1>1, QuietKeepsApplied
<1> QED
  BY <1>1, <1>2 DEF ReplayOK

LEMMA LockPaymentKeepsKInv ==
    ASSUME FInv, JInv, KInv, NEW r \in Requests, LockPayment(r)
    PROVE  KInv'
<1>1. Quiet(r) /\ arg' = arg /\ pc[r] = "lock_payment" /\ outcome[r] = "none"
  BY QuietStep DEF LockPayment, FInv, TypeOK, Outcomes, JInv
<1>2. arg[r].kind = "refund"
  BY <1>1 DEF FInv, RequestOK
<1> DEFINE prior == IF arg[r].key = None THEN {} ELSE RowsWithKey(LedgerKey(r))
<1>3. prior = IF arg[r].key = None THEN {} ELSE RowsWithKey(ClientKey(arg[r].key))
  BY <1>2 DEF LedgerKey, ClientKey
<1>4. CASE \E i \in prior : arg[ledger[i].by].pay = arg[r].pay
  <2>1. pc'[r] = "done"
    BY <1>4 DEF LockPayment, FInv, TypeOK, Finish
  <2>2. PICK i \in RowsWithKey(ClientKey(arg[r].key)) : arg[ledger[i].by].pay = arg[r].pay
    BY <1>3, <1>4
  <2>3. ReplayOK(r)'
    BY <1>1, <1>2, <2>2, RefundReplayed
  <2> QED
    BY <1>1, <2>1, <2>3, EndKeepsKInv
<1>5. CASE ~(\E i \in prior : arg[ledger[i].by].pay = arg[r].pay) /\ Finish(r, "rejected")
  BY <1>1, <1>5, FailureKeepsKInv
<1>6. CASE ~(\E i \in prior : arg[ledger[i].by].pay = arg[r].pay) /\ ~Finish(r, "rejected")
  <2>1. /\ prior = {}
        /\ pc'[r] = "lock_due" /\ outcome' = outcome
        /\ held' = [held EXCEPT ![r] = @ \cup {PaymentRow(arg[r].pay)}]
    BY <1>6 DEF LockPayment, FInv, TypeOK
  <2>2. PaymentRow(arg[r].pay) \in held'[r]
    BY <2>1 DEF FInv, TypeOK
  <2>3. \A q \in Applied("refund") : ~SameRefund(q, r)
    BY <1>3, <2>1 DEF KInv, KeyedRow, SameRefund
  <2>4. PastCheckOK(r)'
    BY <1>1, <2>2, <2>3, QuietKeepsApplied DEF PastCheckOK, SameRefund
  <2> QED
    BY <1>1, <1>2, <2>1, <2>4, QuietKeepsKInv DEF Inserted, UnjournaledOK, ReplayOK
<1> QED
  BY <1>4, <1>5, <1>6

(* Between the lock of the payment and the commit.                         *)
LEMMA AdvanceKeepsKInv ==
    ASSUME FInv, JInv, KInv, NEW r \in Requests, Quiet(r), arg' = arg, outcome' = outcome,
           pc[r] \in {"lock_due", "lookup", "journal"},
           pc'[r] \in {"insert", "lookup", "journal", "commit"},
           arg[r].kind = "payment" => (pc[r] = "lock_due" <=> pc'[r] = "insert"),
           held[r] \subseteq held'[r],
           UnjournaledOK(r)'
    PROVE  KInv'
<1>1. outcome[r] = "none"
  BY DEF JInv, FInv, TypeOK, Outcomes
<1>2. ReplayOK(r)'
  BY <1>1 DEF ReplayOK
<1>3. PastCheckOK(r)'
  BY QuietKeepsApplied DEF KInv, PastCheckOK, PastCheck, SameRefund
<1>4. r \in Inserted' => r \in Inserted
  BY DEF Inserted
<1>5. r \in Inserted => \A q \in Claims \ {r} : arg[r].key # None => arg[q].key # arg[r].key
  BY DEF KInv, OneClaim, Claims
<1> QED
  BY <1>2, <1>3, <1>4, <1>5, QuietKeepsKInv

LEMMA LockDueKeepsKInv ==
    ASSUME FInv, JInv, KInv, NEW r \in Requests, LockDueForPayment(r) \/ LockDueForRefund(r)
    PROVE  KInv'
<1>1. Quiet(r)
  BY QuietStep
<1>2. CASE Finish(r, "rejected")
  BY <1>1, <1>2, FailureKeepsKInv
<1>3. CASE ~Finish(r, "rejected")
  <2>1. /\ pc[r] = "lock_due" /\ arg' = arg /\ outcome' = outcome
        /\ held' = [held EXCEPT ![r] = @ \cup {DueRow(arg[r].due)}]
        /\ pc'[r] = IF arg[r].kind = "payment" THEN "insert" ELSE "lookup"
    BY <1>3 DEF LockDueForPayment, LockDueForRefund, FInv, TypeOK
  <2>2. held[r] \subseteq held'[r]
    BY <2>1 DEF FInv, TypeOK
  <2> QED
    BY <1>1, <2>1, <2>2, AdvanceKeepsKInv DEF UnjournaledOK
<1> QED
  BY <1>2, <1>3

LEMMA LookupKeepsKInv ==
    ASSUME FInv, JInv, KInv, NEW r \in Requests, LookupLedger(r)
    PROVE  KInv'
<1>1. Quiet(r) /\ arg' = arg /\ outcome' = outcome /\ held' = held /\ pc[r] = "lookup" /\ ledger' = ledger
  BY QuietStep DEF LookupLedger, db
<1>2. pc'[r] = IF RowsWithKey(LedgerKey(r)) = {} THEN "journal" ELSE "commit"
  BY DEF LookupLedger, FInv, TypeOK
<1>3. UnjournaledOK(r)'
  <2>1. arg[r].kind = "refund" /\ arg[r].key # None => LedgerKey(r) = ClientKey(arg[r].key)
    BY DEF LedgerKey, ClientKey
  <2>2. pc'[r] = "commit" /\ arg[r].kind = "refund" /\ arg[r].key # None
          => RowsWithKey(ClientKey(arg[r].key)) # {}
    BY <1>2, <2>1
  <2> QED
    BY <1>1, <2>2 DEF UnjournaledOK, PastCheck, RowsWithKey, ClientKey
<1> QED
  BY <1>1, <1>2, <1>3, AdvanceKeepsKInv

LEMMA JournalKeepsKInv ==
    ASSUME FInv, JInv, KInv, NEW r \in Requests, JournalRow(r)
    PROVE  KInv'
<1> DEFINE clash == RowsWithKey(LedgerKey(r))
<1>1. Quiet(r) /\ arg' = arg /\ pc[r] = "journal"
  BY QuietStep DEF JournalRow
<1>2. CASE clash # {} /\ arg[r].key # None /\ \E i \in clash : arg[ledger[i].by].pay = arg[r].pay
  <2>1. pc'[r] = "done"
    BY <1>2 DEF JournalRow, FInv, TypeOK, Finish
  <2>2. arg[r].kind = "refund"
    <3>1. arg[r].kind = "payment" => LedgerKey(r) = <<"payment", r, 0>>
      BY DEF LedgerKey
    <3>2. arg[r].kind = "payment" => outcome[r] = "applied"
      BY <1>2, <3>1, RowOfPayment
    <3> QED
      BY <1>1, <3>2 DEF JInv, FInv, RequestOK, Running
  <2>3. LedgerKey(r) = ClientKey(arg[r].key)
    BY <1>2, <2>2 DEF LedgerKey, ClientKey
  <2>4. PICK i \in RowsWithKey(ClientKey(arg[r].key)) : arg[ledger[i].by].pay = arg[r].pay
    BY <1>2, <2>3
  <2>5. ReplayOK(r)'
    BY <1>1, <2>2, <2>4, RefundReplayed
  <2> QED
    BY <1>1, <2>1, <2>5, EndKeepsKInv
<1>3. CASE Finish(r, "rejected")
  BY <1>1, <1>3, FailureKeepsKInv
<1>4. CASE ~(clash # {} /\ arg[r].key # None /\ \E i \in clash : arg[ledger[i].by].pay = arg[r].pay)
           /\ ~Finish(r, "rejected")
  <2>1. /\ pc' = [pc EXCEPT ![r] = "commit"] /\ outcome' = outcome
        /\ held' = [held EXCEPT ![r] = @ \cup {StudentRow(Student(r))}]
        /\ view' = [view EXCEPT ![r].before = Balance(Student(r)), ![r].journal = TRUE]
    BY <1>4 DEF JournalRow
  <2>2. pc'[r] = "commit" /\ held[r] \subseteq held'[r] /\ view'[r].journal
    BY <2>1 DEF FInv, TypeOK
  <2> QED
    BY <1>1, <2>1, <2>2, AdvanceKeepsKInv DEF UnjournaledOK
<1> QED
  BY <1>2, <1>3, <1>4
-----------------------------------------------------------------------------
(* What a commit adds to the committed state.                              *)
LEMMA WhatCommits ==
    ASSUME FInv, JInv, NEW r \in Requests, CommitPayment(r) \/ CommitRefund(r)
    PROVE  /\ Payments' = IF arg[r].kind = "payment" THEN Payments \cup {r} ELSE Payments
           /\ \A kind : Applied(kind)' =
                 IF arg[r].kind = kind THEN Applied(kind) \cup {r} ELSE Applied(kind)
           /\ \A k : RowsWithKey(k) \subseteq RowsWithKey(k)'
           /\ \A k : view[r].journal /\ k = LedgerKey(r) => RowsWithKey(k)' # {}
<1>1. Commits(r)
  BY CommitsCommit
<1> USE <1>1 DEF Commits, OthersStand
<1>2. Payments' = IF arg[r].kind = "payment" THEN Payments \cup {r} ELSE Payments
  <2>1. CASE CommitPayment(r)
    BY <2>1 DEF CommitPayment, FInv, TypeOK, Payments
  <2>2. CASE CommitRefund(r)
    <3>1. /\ arg[r].kind = "refund" /\ arg[r].pay \in Payments
          /\ pstatus' = [pstatus EXCEPT ![arg[r].pay] =
                            PaymentStatus(view[r].refunded + arg[r].amount, arg[arg[r].pay].amount)]
      BY <2>2, CommitFacts DEF CommitRefund, RequestOK, Running
    <3> QED
      BY <3>1 DEF FInv, TypeOK, Payments, PaymentStatus
  <2> QED
    BY <2>1, <2>2
<1>3. \A kind : Applied(kind)' = IF arg[r].kind = kind THEN Applied(kind) \cup {r} ELSE Applied(kind)
  BY DEF Applied
<1>4. ASSUME NEW k PROVE RowsWithKey(k) \subseteq RowsWithKey(k)'
  BY LedgerGrows DEF FInv, LedgerAfter, RowsWithKey
<1>5. ASSUME NEW k, view[r].journal, k = LedgerKey(r) PROVE RowsWithKey(k)' # {}
  <2>1. /\ Len(ledger) + 1 \in DOMAIN ledger' /\ ledger'[Len(ledger) + 1] = Row(r)
    BY <1>5, LedgerGrows DEF FInv, LedgerAfter
  <2>2. ledger'[Len(ledger) + 1].key = k
    BY <1>5, <2>1 DEF Row
  <2> QED
    BY <2>1, <2>2 DEF RowsWithKey
<1> QED
  BY <1>2, <1>3, <1>4, <1>5

LEMMA CommitKeepsKInv ==
    ASSUME FInv, JInv, KInv, NEW r \in Requests, CommitPayment(r) \/ CommitRefund(r)
    PROVE  KInv'
<1>1. Commits(r)
  BY CommitsCommit
<1> USE <1>1 DEF Commits, OthersStand, KInv
<1>2. /\ Payments' = IF arg[r].kind = "payment" THEN Payments \cup {r} ELSE Payments
      /\ \A kind : Applied(kind)' =
            IF arg[r].kind = kind THEN Applied(kind) \cup {r} ELSE Applied(kind)
      /\ \A k : RowsWithKey(k) \subseteq RowsWithKey(k)'
      /\ \A k : view[r].journal /\ k = LedgerKey(r) => RowsWithKey(k)' # {}
  BY WhatCommits
<1>3. arg[r].kind \in {"payment", "refund"} /\ (arg[r].kind = "refund" => PastCheck(r))
  BY CommitFacts DEF RequestOK, Running, PastCheck
<1>4. OneClaim'
  <2>1. Claims' \subseteq Claims
    BY <1>2, <1>3 DEF Claims, Inserted
  <2> QED
    BY <2>1 DEF OneClaim
<1>5. KeyedRow'
  <2>1. ASSUME arg[r].kind = "refund", arg[r].key # None
        PROVE  RowsWithKey(ClientKey(arg[r].key))' # {}
    <3>1. LedgerKey(r) = ClientKey(arg[r].key)
      BY <2>1 DEF LedgerKey, ClientKey
    <3>2. CASE view[r].journal
      <4>1. PICK k : k = LedgerKey(r)
        OBVIOUS
      <4>2. RowsWithKey(k)' # {}
        BY <1>2, <3>2, <4>1
      <4> QED
        BY <3>1, <4>1, <4>2 DEF RowsWithKey, ClientKey
    <3>3. CASE ~view[r].journal
      <4>1. PICK k : k = ClientKey(arg[r].key)
        OBVIOUS
      <4>2. RowsWithKey(k) # {}
        BY <1>3, <2>1, <3>3, <4>1 DEF UnjournaledOK
      <4>3. RowsWithKey(k)' # {}
        BY <1>2, <4>2
      <4> QED
        BY <4>1, <4>3 DEF RowsWithKey, ClientKey
    <3> QED
      BY <3>2, <3>3
  <2>2. ASSUME NEW q \in Applied("refund"), arg[q].key # None
        PROVE  RowsWithKey(ClientKey(arg[q].key))' # {}
    <3>1. PICK k : k = ClientKey(arg[q].key)
      OBVIOUS
    <3>2. RowsWithKey(k)' # {}
      BY <1>2, <2>2, <3>1 DEF KeyedRow
    <3> QED
      BY <3>1, <3>2 DEF RowsWithKey, ClientKey
  <2> QED
    BY <1>2, <2>1, <2>2 DEF KeyedRow
<1>6. OneRefund'
  BY <1>2, <1>3 DEF OneRefund, SameRefund, PastCheckOK
<1>7. ASSUME NEW q \in Requests, q # r PROVE PastCheckOK(q)' /\ UnjournaledOK(q)' /\ ReplayOK(q)'
  <2>1. /\ pc'[q] = pc[q] /\ arg' = arg /\ view'[q] = view[q]
        /\ held'[q] = held[q] /\ outcome'[q] = outcome[q]
    BY <1>7
  <2>2. PastCheckOK(q)'
    <3>1. ASSUME PastCheck(q), arg[r].kind = "refund" PROVE ~SameRefund(r, q)
      BY <1>3, <1>7, <3>1 DEF PastCheckOK, SameRefund, FInv, LocksExclusive
    <3> QED
      BY <1>2, <1>7, <2>1, <3>1 DEF PastCheckOK, PastCheck, SameRefund
  <2>3. UnjournaledOK(q)'
    <3>1. PICK k : k = ClientKey(arg[q].key)
      OBVIOUS
    <3>2. RowsWithKey(k) # {} => RowsWithKey(k)' # {}
      BY <1>2
    <3>3. UnjournaledOK(q)
      BY <1>7
    <3> QED
      BY <2>1, <3>1, <3>2, <3>3 DEF UnjournaledOK, PastCheck, RowsWithKey, ClientKey
  <2>4. ReplayOK(q)'
    <3>1. ReplayOK(q)
      BY <1>7
    <3> QED
      BY <1>2, <2>1, <3>1 DEF ReplayOK, PaymentsWithKey
  <2> QED
    BY <2>2, <2>3, <2>4
<1>8. PastCheckOK(r)' /\ UnjournaledOK(r)' /\ ReplayOK(r)'
  BY <1>1 DEF PastCheckOK, PastCheck, UnjournaledOK, ReplayOK
<1> QED
  BY <1>4, <1>5, <1>6, <1>7, <1>8

LEMMA KInvInit == Init => KInv
  BY DEF Init, KInv, OneClaim, Claims, Payments, Inserted, KeyedRow, OneRefund, Applied,
         PastCheckOK, PastCheck, UnjournaledOK, ReplayOK

LEMMA KInvStep ==
    ASSUME FInv, JInv, KInv, [Next]_vars
    PROVE  KInv'
<1>1. ASSUME NobodyMoves PROVE KInv'
  <2>1. /\ OneClaim' = OneClaim /\ KeyedRow' = KeyedRow /\ OneRefund' = OneRefund
    BY <1>1 DEF NobodyMoves, OneClaim, Claims, Payments, Inserted, KeyedRow, OneRefund,
                Applied, SameRefund, RowsWithKey, ClientKey
  <2>2. ASSUME NEW r \in Requests
        PROVE  /\ PastCheckOK(r)' = PastCheckOK(r) /\ UnjournaledOK(r)' = UnjournaledOK(r)
               /\ ReplayOK(r)' = ReplayOK(r)
    BY <1>1 DEF NobodyMoves, PastCheckOK, PastCheck, UnjournaledOK, ReplayOK, Applied, Payments,
                PaymentsWithKey, SameRefund, RowsWithKey, ClientKey
  <2> QED
    BY <2>1, <2>2 DEF KInv
<1>2. CASE UNCHANGED vars
  BY <1>1, <1>2 DEF NobodyMoves, vars, db
<1>3. ASSUME NEW s \in Students, CreateDues(s) PROVE KInv'
  BY <1>1, <1>3 DEF CreateDues, NobodyMoves
<1>4. ASSUME NEW r \in Requests, Step(r) \/ Abort(r) PROVE KInv'
  <2>1. ASSUME Abort(r) \/ BreakDeadlock(r) PROVE KInv'
    BY <2>1, QuietStep, FailureKeepsKInv DEF Abort, BreakDeadlock
  <2> QED
    BY <1>4, <2>1, LockDueKeepsKInv, InsertPaymentKeepsKInv, LockPaymentKeepsKInv,
       LookupKeepsKInv, JournalKeepsKInv, CommitKeepsKInv DEF Step
<1> QED
  BY <1>2, <1>3, <1>4, BeginKeepsKInv DEF Next

(* Sets with one element at most.                                          *)
LEMMA AtMostOne ==
    ASSUME NEW S, \A x, y \in S : x = y
    PROVE  Cardinality(S) <= 1
<1>1. CASE S = {}
  BY <1>1, FS_EmptySet
<1>2. CASE S # {}
  <2>1. PICK x \in S : TRUE
    BY <1>2
  <2>2. S = {x}
    BY <2>1
  <2> QED
    BY <2>2, FS_Singleton
<1> QED
  BY <1>1, <1>2

(* For every set of requests and keys, however retries of payments and     *)
(* refunds overlap: a client key records one payment at most, refunds a    *)
(* payment once at most, and nobody is told "replayed" of an effect that   *)
(* is not committed (record_payment, record_refund and the savepoints).    *)
THEOREM KeysHonoured == Spec => []KeysAreHonoured
<1>1. Init => FInv /\ JInv /\ KInv
  BY InitEstablishes, JInvInit, KInvInit
<1>2. FInv /\ JInv /\ KInv /\ [Next]_vars => (FInv /\ JInv /\ KInv)'
  BY NextPreserves, JInvStep, KInvStep
<1>3. ASSUME FInv, JInv, KInv PROVE KeysAreHonoured
  <2>1. ASSUME NEW k \in Keys PROVE Cardinality(PaymentsWithKey(k)) <= 1
    <3>1. \A p, q \in PaymentsWithKey(k) : p = q
      BY <1>3 DEF KInv, OneClaim, Claims, PaymentsWithKey
    <3> QED
      BY <3>1, AtMostOne
  <2>2. ASSUME NEW k \in Keys, NEW p \in Requests
        PROVE  Cardinality({r \in Applied("refund") : arg[r].key = k /\ arg[r].pay = p}) <= 1
    <3>1. k # None
      BY FeeAssumption
    <3> DEFINE S == {r \in Applied("refund") : arg[r].key = k /\ arg[r].pay = p}
    <3>2. \A q, r \in S : q = r
      BY <1>3, <3>1 DEF KInv, OneRefund, SameRefund
    <3> HIDE DEF S
    <3>3. Cardinality(S) <= 1
      BY <3>2, AtMostOne
    <3> QED
      BY <3>3 DEF S
  <2>3. \A r \in Requests : ReplayOK(r)
    BY <1>3 DEF KInv
  <2> QED
    BY <2>1, <2>2, <2>3 DEF KeysAreHonoured, ReplayOK
<1> QED
  BY <1>1, <1>2, <1>3, PTL DEF Spec
-----------------------------------------------------------------------------
(* Counting units of money.                                                *)
LEMMA DisjointUnits ==
    ASSUME NEW S, NEW T, IsFiniteSet(S), IsFiniteSet(T), S \cap T = {}
    PROVE  /\ IsFiniteSet(S \cup T)
           /\ Cardinality(S \cup T) = Cardinality(S) + Cardinality(T)
<1>1. Cardinality(S \cup T) = Cardinality(S) + Cardinality(T) - Cardinality(S \cap T)
  BY FS_Union
<1>2. Cardinality(S \cap T) = 0 /\ Cardinality(S) \in Nat /\ Cardinality(T) \in Nat
  BY FS_EmptySet, FS_CardinalityType
<1> QED
  BY <1>1, <1>2, FS_Union

LEMMA OneStrip ==
    ASSUME NEW x, NEW a \in Nat, NEW b \in Nat, a <= b
    PROVE  /\ IsFiniteSet({x} \X ((a + 1)..b))
           /\ Cardinality({x} \X ((a + 1)..b)) = b - a
<1>1. IsFiniteSet({x}) /\ Cardinality({x}) = 1
  BY FS_Singleton
<1>2. IsFiniteSet((a + 1)..b) /\ Cardinality((a + 1)..b) = b - a
  <2>1. a + 1 \in Int /\ b \in Int
    OBVIOUS
  <2>2. /\ IsFiniteSet((a + 1)..b)
        /\ Cardinality((a + 1)..b) = IF a + 1 > b THEN 0 ELSE b - (a + 1) + 1
    BY <2>1, FS_Interval
  <2> QED
    BY <2>2
<1>3. IsFiniteSet({x} \X ((a + 1)..b)) /\ Cardinality({x} \X ((a + 1)..b)) = Cardinality({x}) * Cardinality((a + 1)..b)
  BY <1>1, <1>2, FS_Product
<1>4. 1 * (b - a) = b - a
  OBVIOUS
<1> QED
  BY <1>1, <1>2, <1>3, <1>4

(* The units that the rows L journal for a student, so that Journaled is   *)
(* their number in the committed ledger.                                   *)
Units(L, s, kind) ==
    {u \in (DOMAIN L) \X Amounts : /\ Student(L[u[1]].by) = s
                                   /\ arg[L[u[1]].by].kind = kind
                                   /\ u[2] <= arg[L[u[1]].by].amount}

Delta(r, s, kind) == IF Student(r) = s /\ arg[r].kind = kind THEN arg[r].amount ELSE 0

LEMMA UnitsFinite ==
    ASSUME TypeOK, NEW s, NEW kind
    PROVE  /\ IsFiniteSet(Units(ledger, s, kind)) /\ Journaled(s, kind) \in Nat
           /\ Journaled(s, kind) = Cardinality(Units(ledger, s, kind))
<1>1. IsFiniteSet((DOMAIN ledger) \X Amounts)
  <2>1. DOMAIN ledger = 1..Len(ledger) /\ Len(ledger) \in Int /\ MaxAmount \in Int /\ 1 \in Int
    BY LedgerGrows, FeeAssumption
  <2>2. IsFiniteSet(DOMAIN ledger)
    BY <2>1, FS_Interval
  <2>3. IsFiniteSet(Amounts)
    BY <2>1, FS_Interval DEF Amounts
  <2> QED
    BY <2>2, <2>3, FS_Product
<1>2. IsFiniteSet(Units(ledger, s, kind))
  BY <1>1, FS_Subset DEF Units
<1>3. Journaled(s, kind) = Cardinality(Units(ledger, s, kind))
  BY DEF Journaled, Units
<1> QED
  BY <1>2, <1>3, FS_CardinalityType

LEMMA UnitsAppended ==
    ASSUME TypeOK, NEW r \in Requests, NEW row, row.by = r, arg[r].amount \in Amounts,
           NEW s, NEW kind
    PROVE  Cardinality(Units(Append(ledger, row), s, kind)) = Journaled(s, kind) + Delta(r, s, kind)
<1> DEFINE n == Len(ledger)
           L == Append(ledger, row)
           T == IF Student(r) = s /\ arg[r].kind = kind THEN {n + 1} \X ((0 + 1)..arg[r].amount) ELSE {}
<1>1. arg[r].amount \in Nat /\ arg[r].amount <= MaxAmount /\ MaxAmount \in Nat
  BY FeeAssumption DEF Amounts
<1>2. IsFiniteSet(T) /\ Cardinality(T) = Delta(r, s, kind)
  <2>1. /\ IsFiniteSet({n + 1} \X ((0 + 1)..arg[r].amount))
        /\ Cardinality({n + 1} \X ((0 + 1)..arg[r].amount)) = arg[r].amount
    <3>1. 0 \in Nat /\ 0 <= arg[r].amount /\ arg[r].amount - 0 = arg[r].amount
      BY <1>1
    <3> QED
      BY <1>1, <3>1, OneStrip
  <2> QED
    BY <2>1, FS_EmptySet DEF Delta
<1>3. Units(L, s, kind) = Units(ledger, s, kind) \cup T
  <2>1. /\ n \in Nat /\ DOMAIN ledger = 1..n /\ DOMAIN L = (1..n) \cup {n + 1}
        /\ L[n + 1] = row /\ \A i \in 1..n : L[i] = ledger[i]
    BY LedgerGrows
  <2> HIDE DEF L, n
  <2>2. Units(L, s, kind) \subseteq Units(ledger, s, kind) \cup T
    BY <1>1, <2>1 DEF Units, Amounts
  <2>3. Units(ledger, s, kind) \subseteq Units(L, s, kind)
    BY <2>1 DEF Units
  <2>4. T \subseteq Units(L, s, kind)
    BY <1>1, <2>1 DEF Units, Amounts
  <2> HIDE DEF T
  <2> QED
    BY <2>2, <2>3, <2>4
<1>4. Units(ledger, s, kind) \cap T = {}
  BY LedgerGrows DEF Units
<1>5. Cardinality(Units(ledger, s, kind) \cup T) = Cardinality(Units(ledger, s, kind)) + Cardinality(T)
  <2>1. IsFiniteSet(Units(ledger, s, kind))
    BY UnitsFinite
  <2> HIDE DEF T
  <2> QED
    BY <1>2, <1>4, <2>1, DisjointUnits
<1> QED
  BY <1>2, <1>3, <1>5, UnitsFinite
-----------------------------------------------------------------------------
(* The running balance.                                                    *)

RowsOf(s) == {i \in DOMAIN ledger : Student(ledger[i].by) = s}

(* The student's last row closed with the student's balance.               *)
Closes(s) ==
    IF RowsOf(s) = {} THEN Balance(s) = 0
    ELSE \E i \in RowsOf(s) : (\A j \in RowsOf(s) : j <= i) /\ ledger[i].after = Balance(s)

(* Row i opens with the balance the student's previous row closed with.    *)
Opens(i) ==
    IF Earlier(i) = {} THEN ledger[i].before = 0
    ELSE \E j \in Earlier(i) : (\A k \in Earlier(i) : k <= j) /\ ledger[i].before = ledger[j].after

(* A request about to commit a row holds the student, so that the balance  *)
(* it has computed is still the student's.                                 *)
KnowsBalance(r) ==
    view[r].journal => /\ pc[r] = "commit"
                       /\ StudentRow(Student(r)) \in held[r]
                       /\ view[r].before = Balance(Student(r))

CInv ==
    /\ \A i \in DOMAIN ledger : Opens(i)
    /\ \A s : Closes(s)
    /\ \A r \in Requests : KnowsBalance(r)

LEMMA CInvInit == Init => CInv
<1> SUFFICES ASSUME Init PROVE CInv
  OBVIOUS
<1>1. DOMAIN ledger = {}
  BY DEF Init
<1>2. ASSUME NEW s PROVE Closes(s)
  <2>1. RowsOf(s) = {}
    BY <1>1 DEF RowsOf
  <2>2. \A kind : Journaled(s, kind) = 0
    <3>1. \A kind : Units(ledger, s, kind) = {}
      BY <1>1 DEF Units
    <3> QED
      BY <3>1, FS_EmptySet DEF Journaled, Units
  <2> QED
    BY <2>1, <2>2 DEF Closes, Balance
<1> QED
  BY <1>1, <1>2 DEF Init, CInv, KnowsBalance, NoView

(* Steps that leave the ledger and the requests behind it alone.           *)
LEMMA LedgerStands ==
    ASSUME TypeOK, ledger' = ledger, \A i \in DOMAIN ledger : arg'[ledger[i].by] = arg[ledger[i].by]
    PROVE  /\ \A s : RowsOf(s)' = RowsOf(s)
           /\ \A s, kind : Journaled(s, kind)' = Journaled(s, kind)
           /\ \A s : Balance(s)' = Balance(s)
           /\ \A i \in DOMAIN ledger : Earlier(i)' = Earlier(i)
<1>1. \A s : RowsOf(s)' = RowsOf(s)
  BY DEF RowsOf, Student
<1>2. ASSUME NEW s, NEW kind PROVE Journaled(s, kind)' = Journaled(s, kind)
  BY DEF Journaled, Student
<1>3. \A s : Balance(s)' = Balance(s)
  BY <1>2 DEF Balance
<1>4. ASSUME NEW i \in DOMAIN ledger PROVE Earlier(i)' = Earlier(i)
  <2>1. \A j \in 1..(i - 1) : j \in DOMAIN ledger
    BY LedgerGrows
  <2> QED
    BY <2>1 DEF Earlier, Student
<1> QED
  BY <1>1, <1>2, <1>3, <1>4
-----------------------------------------------------------------------------
LEMMA QuietKeepsBalances ==
    ASSUME FInv, JInv, NEW r \in Requests, Quiet(r)
    PROVE  /\ ledger' = ledger
           /\ \A i \in DOMAIN ledger : arg'[ledger[i].by] = arg[ledger[i].by]
           /\ \A s : Balance(s)' = Balance(s)
<1>1. ASSUME NEW i \in DOMAIN ledger PROVE arg'[ledger[i].by] = arg[ledger[i].by]
  BY <1>1, RowTyped, QuietKeepsApplied DEF FInv, JInv, RowOK
<1>2. ledger' = ledger
  BY DEF Quiet
<1> QED
  BY <1>1, <1>2, LedgerStands DEF FInv

LEMMA StandingKeepsRows ==
    ASSUME TypeOK, CInv, ledger' = ledger, \A i \in DOMAIN ledger : arg'[ledger[i].by] = arg[ledger[i].by]
    PROVE  (\A i \in DOMAIN ledger : Opens(i))' /\ (\A s : Closes(s)')
<1>1. /\ \A s : RowsOf(s)' = RowsOf(s)
      /\ \A s : Balance(s)' = Balance(s)
      /\ \A i \in DOMAIN ledger : Earlier(i)' = Earlier(i)
  BY LedgerStands
<1>2. ASSUME NEW i \in DOMAIN ledger PROVE Opens(i)'
  <2>1. Opens(i) /\ Earlier(i)' = Earlier(i)
    BY <1>1, <1>2 DEF CInv
  <2> QED
    BY <2>1 DEF Opens
<1>3. ASSUME NEW s PROVE Closes(s)'
  <2>1. Closes(s) /\ RowsOf(s)' = RowsOf(s) /\ Balance(s)' = Balance(s)
    BY <1>1 DEF CInv
  <2> QED
    BY <2>1 DEF Closes
<1> QED
  BY <1>2, <1>3

LEMMA QuietKeepsCInv ==
    ASSUME FInv, JInv, CInv, NEW r \in Requests, Quiet(r), KnowsBalance(r)'
    PROVE  CInv'
<1>1. (\A i \in DOMAIN ledger : Opens(i))' /\ (\A s : Closes(s)')
  BY QuietKeepsBalances, StandingKeepsRows DEF FInv
<1>2. ASSUME NEW q \in Requests PROVE KnowsBalance(q)'
  <2>1. CASE q # r
    <3>1. PICK s : s = Student(q)
      OBVIOUS
    <3>2. /\ pc'[q] = pc[q] /\ arg'[q] = arg[q] /\ view'[q] = view[q] /\ held'[q] = held[q]
      BY <1>2, <2>1 DEF Quiet, OthersStand
    <3>3. Student(q)' = s /\ Balance(s)' = Balance(s) /\ KnowsBalance(q)
      BY <1>2, <3>1, <3>2, QuietKeepsBalances DEF Student, CInv
    <3>4. Balance(Student(q))' = Balance(s)'
      BY <3>3
    <3> QED
      BY <3>1, <3>2, <3>3, <3>4 DEF KnowsBalance
  <2> QED
    BY <2>1
<1> QED
  BY <1>1, <1>2 DEF CInv

LEMMA QuietKnowsBalance ==
    ASSUME FInv, JInv, CInv, NEW r \in Requests,
           \/ Begin(r)
           \/ LockDueForPayment(r) \/ InsertPayment(r) \/ LockPayment(r) \/ LockDueForRefund(r)
           \/ LookupLedger(r) \/ JournalRow(r) \/ BreakDeadlock(r) \/ Abort(r)
    PROVE  KnowsBalance(r)'
<1>1. ASSUME NEW o, Finish(r, o) PROVE KnowsBalance(r)'
  BY <1>1 DEF Finish, FInv, TypeOK, KnowsBalance, NoView
<1>2. ASSUME pc[r] # "commit", view'[r].journal = view[r].journal PROVE KnowsBalance(r)'
  BY <1>2 DEF CInv, KnowsBalance
<1>3. CASE Begin(r)
  <2>1. ASSUME NEW d \in Dues, NEW a \in Amounts, NEW k \in Keys \cup {None}, BeginPayment(r, d, a, k)
        PROVE  KnowsBalance(r)'
    BY <2>1, <1>1, <1>2 DEF BeginPayment
  <2>2. ASSUME NEW p \in Requests, NEW a \in Amounts, NEW k \in Keys \cup {None}, BeginRefund(r, p, a, k)
        PROVE  KnowsBalance(r)'
    BY <2>2, <1>2 DEF BeginRefund, FInv, TypeOK
  <2> QED
    BY <1>3, <2>1, <2>2 DEF Begin
<1>4. CASE LockDueForPayment(r) \/ LockDueForRefund(r)
  BY <1>4, <1>1, <1>2 DEF LockDueForPayment, LockDueForRefund, FInv, TypeOK
<1>5. CASE InsertPayment(r) \/ LockPayment(r) \/ LookupLedger(r)
  BY <1>5, <1>1, <1>2 DEF InsertPayment, LockPayment, LookupLedger
<1>6. CASE BreakDeadlock(r) \/ Abort(r)
  BY <1>6, <1>1 DEF BreakDeadlock, Abort
<1>7. CASE JournalRow(r)
  <2>1. ASSUME ~Finish(r, "rejected"), ~Finish(r, "replayed") PROVE KnowsBalance(r)'
    <3> DEFINE b == Balance(Student(r))
    <3>1. /\ pc' = [pc EXCEPT ![r] = "commit"] /\ arg' = arg
          /\ held' = [held EXCEPT ![r] = @ \cup {StudentRow(Student(r))}]
          /\ view' = [view EXCEPT ![r].before = b, ![r].journal = TRUE]
      BY <1>7, <2>1 DEF JournalRow
    <3> HIDE DEF b
    <3>2. pc'[r] = "commit" /\ StudentRow(Student(r)) \in held'[r] /\ view'[r].before = b
      BY <3>1 DEF FInv, TypeOK
    <3>3. PICK s : s = Student(r)
      OBVIOUS
    <3>4. Student(r)' = s /\ Balance(s)' = Balance(s) /\ b = Balance(s)
      BY <1>7, <3>1, <3>3, QuietStep, QuietKeepsBalances DEF Student, b
    <3>5. Balance(Student(r))' = Balance(s)'
      BY <3>4
    <3> QED
      BY <3>2, <3>3, <3>4, <3>5 DEF KnowsBalance
  <2> QED
    BY <1>1, <1>7, <2>1
<1> QED
  BY <1>3, <1>4, <1>5, <1>6, <1>7

(* A journaled row moves the balance of its student, and no other.         *)
LEMMA RowMovesBalance ==
    ASSUME FInv, NEW r \in Requests, pc[r] = "commit", arg' = arg,
           ledger' = Append(ledger, Row(r)), view[r].before = Balance(Student(r)),
           NEW s
    PROVE  Balance(s)' = IF s = Student(r) THEN Row(r).after ELSE Balance(s)
<1>1. arg[r].amount \in Amounts /\ arg[r].amount \in Nat /\ arg[r].kind \in {"payment", "refund"}
  BY CommitFacts DEF RequestOK, Running
<1>2. ASSUME NEW kind PROVE Journaled(s, kind)' = Journaled(s, kind) + Delta(r, s, kind)
  <2>1. Journaled(s, kind)' = Cardinality(Units(Append(ledger, Row(r)), s, kind))
    BY DEF Journaled, Units, Student
  <2>2. Row(r).by = r
    BY DEF Row
  <2> QED
    BY <1>1, <2>1, <2>2, UnitsAppended DEF FInv
<1>3. Journaled(s, "payment") \in Nat /\ Journaled(s, "refund") \in Nat
  BY UnitsFinite DEF FInv
<1>4. Balance(s)' = Balance(s) + Delta(r, s, "payment") - Delta(r, s, "refund")
  BY <1>1, <1>2, <1>3 DEF Balance, Delta
<1>5. Row(r).after = view[r].before + (IF arg[r].kind = "payment" THEN arg[r].amount ELSE -arg[r].amount)
  BY DEF Row
<1>6. Balance(s) \in Int
  BY BalanceIsInt DEF FInv
<1>7. CASE s = Student(r)
  <2>1. view[r].before = Balance(s)
    BY <1>7
  <2> QED
    BY <1>1, <1>4, <1>5, <1>6, <1>7, <2>1 DEF Delta
<1>8. CASE s # Student(r)
  BY <1>1, <1>4, <1>6, <1>8 DEF Delta
<1> QED
  BY <1>7, <1>8

LEMMA RowKeepsChain ==
    ASSUME FInv, CInv, NEW r \in Requests, pc[r] = "commit", arg' = arg,
           ledger' = Append(ledger, Row(r)), view[r].before = Balance(Student(r))
    PROVE  (\A i \in DOMAIN ledger : Opens(i))' /\ (\A s : Closes(s)')
<1> DEFINE n == Len(ledger)
<1>1. /\ n \in Nat /\ DOMAIN ledger = 1..n /\ DOMAIN ledger' = 1..(n + 1)
      /\ ledger'[n + 1] = Row(r) /\ \A i \in 1..n : ledger'[i] = ledger[i]
  BY LedgerGrows DEF FInv
<1>2. Row(r).by = r /\ Row(r).before = Balance(Student(r))
  BY DEF Row
<1> HIDE DEF n
<1>3. \A s : RowsOf(s)' = IF s = Student(r) THEN RowsOf(s) \cup {n + 1} ELSE RowsOf(s)
  BY <1>1, <1>2 DEF RowsOf, Student
<1>4. ASSUME NEW i \in 1..(n + 1) PROVE Opens(i)'
  <2>1. CASE i \in 1..n
    <3>1. Earlier(i)' = Earlier(i) /\ Earlier(i) \subseteq 1..n /\ ledger'[i] = ledger[i]
      BY <1>1, <2>1 DEF Earlier, Student
    <3>2. Opens(i)
      BY <1>1, <2>1 DEF CInv
    <3> QED
      BY <1>1, <3>1, <3>2 DEF Opens
  <2>2. CASE i = n + 1
    <3>1. Earlier(i)' = RowsOf(Student(r))
      BY <1>1, <1>2, <2>2 DEF Earlier, RowsOf, Student
    <3>2. Closes(Student(r)) /\ RowsOf(Student(r)) \subseteq 1..n
      BY <1>1 DEF CInv, RowsOf
    <3> QED
      BY <1>1, <1>2, <2>2, <3>1, <3>2 DEF Opens, Closes
  <2> QED
    BY <1>1, <2>1, <2>2
<1>5. ASSUME NEW s PROVE Closes(s)'
  <2>1. Balance(s)' = IF s = Student(r) THEN Row(r).after ELSE Balance(s)
    BY RowMovesBalance
  <2>2. RowsOf(s) \subseteq 1..n
    BY <1>1 DEF RowsOf
  <2>3. CASE s = Student(r)
    <3>1. RowsOf(s)' = RowsOf(s) \cup {n + 1}
      BY <1>3, <2>3
    <3>2. /\ n + 1 \in RowsOf(s)' /\ \A j \in RowsOf(s)' : j <= n + 1
          /\ ledger'[n + 1].after = Balance(s)'
      BY <1>1, <2>1, <2>2, <2>3, <3>1
    <3> QED
      BY <3>2 DEF Closes
  <2>4. CASE s # Student(r)
    <3>1. RowsOf(s)' = RowsOf(s) /\ Balance(s)' = Balance(s) /\ Closes(s)
      BY <1>3, <2>1, <2>4 DEF CInv
    <3> QED
      BY <1>1, <2>2, <3>1 DEF Closes
  <2> QED
    BY <2>3, <2>4
<1> QED
  BY <1>1, <1>4, <1>5
-----------------------------------------------------------------------------
LEMMA CommitKeepsCInv ==
    ASSUME FInv, JInv, CInv, NEW r \in Requests, CommitPayment(r) \/ CommitRefund(r)
    PROVE  CInv'
<1>1. Commits(r) /\ view'[r] = NoView
  BY CommitsCommit DEF CommitPayment, CommitRefund, Finish, FInv, TypeOK
<1> USE <1>1 DEF Commits, OthersStand
<1>2. CASE view[r].journal
  <2>1. /\ ledger' = Append(ledger, Row(r)) /\ view[r].before = Balance(Student(r))
        /\ StudentRow(Student(r)) \in held[r]
    BY <1>2 DEF LedgerAfter, CInv, KnowsBalance
  <2>2. ASSUME NEW q \in Requests, q # r, view[q].journal PROVE KnowsBalance(q)'
    <3>1. PICK s : s = Student(q)
      OBVIOUS
    <3>2. StudentRow(s) \in held[q] /\ pc[q] = "commit" /\ view[q].before = Balance(s)
      BY <2>2, <3>1 DEF CInv, KnowsBalance
    <3>3. s # Student(r)
      BY <2>1, <2>2, <3>2 DEF FInv, LocksExclusive
    <3>4. Balance(s)' = Balance(s) /\ Student(q)' = s
      BY <2>1, <3>1, <3>3, RowMovesBalance DEF Student
    <3>5. Balance(Student(q))' = Balance(s)'
      BY <3>4
    <3> QED
      BY <2>2, <3>1, <3>2, <3>4, <3>5 DEF KnowsBalance
  <2>3. ASSUME NEW q \in Requests PROVE KnowsBalance(q)'
    BY <2>2, <2>3 DEF KnowsBalance, NoView
  <2> QED
    BY <2>1, <2>3, RowKeepsChain DEF CInv
<1>3. CASE ~view[r].journal
  <2>1. ledger' = ledger
    BY <1>3 DEF LedgerAfter
  <2>2. \A s : Balance(s)' = Balance(s)
    BY <2>1, LedgerStands DEF FInv
  <2>3. ASSUME NEW q \in Requests, q # r, view[q].journal PROVE KnowsBalance(q)'
    <3>1. PICK s : s = Student(q)
      OBVIOUS
    <3>2. StudentRow(s) \in held[q] /\ pc[q] = "commit" /\ view[q].before = Balance(s)
      BY <2>3, <3>1 DEF CInv, KnowsBalance
    <3>3. Student(q)' = s /\ Balance(s)' = Balance(s)
      BY <2>2, <3>1 DEF Student
    <3>4. Balance(Student(q))' = Balance(s)'
      BY <3>3
    <3> QED
      BY <2>3, <3>1, <3>2, <3>3, <3>4 DEF KnowsBalance
  <2>4. ASSUME NEW q \in Requests PROVE KnowsBalance(q)'
    BY <2>3, <2>4 DEF KnowsBalance, NoView
  <2> QED
    BY <2>1, <2>4, StandingKeepsRows DEF FInv, CInv
<1> QED
  BY <1>2, <1>3

LEMMA CInvStep ==
    ASSUME FInv, JInv, CInv, [Next]_vars
    PROVE  CInv'
<1>1. ASSUME NobodyMoves PROVE CInv'
  <2>1. /\ ledger' = ledger /\ arg' = arg /\ view' = view /\ pc' = pc /\ held' = held
    BY <1>1 DEF NobodyMoves
  <2>2. \A q \in Requests : KnowsBalance(q)' = KnowsBalance(q)
    BY <2>1 DEF KnowsBalance, Balance, Journaled, Student
  <2> QED
    BY <2>1, <2>2, StandingKeepsRows DEF FInv, CInv
<1>2. CASE UNCHANGED vars
  BY <1>1, <1>2 DEF NobodyMoves, vars, db
<1>3. ASSUME NEW s \in Students, CreateDues(s) PROVE CInv'
  BY <1>1, <1>3 DEF CreateDues, NobodyMoves
<1>4. ASSUME NEW r \in Requests, Begin(r) PROVE CInv'
  BY <1>4, QuietBegin, QuietKnowsBalance, QuietKeepsCInv
<1>5. ASSUME NEW r \in Requests, Step(r) \/ Abort(r) PROVE CInv'
  <2>1. CASE CommitPayment(r) \/ CommitRefund(r)
    BY <2>1, CommitKeepsCInv
  <2>2. CASE \/ LockDueForPayment(r) \/ InsertPayment(r) \/ LockPayment(r) \/ LockDueForRefund(r)
             \/ LookupLedger(r) \/ JournalRow(r) \/ BreakDeadlock(r) \/ Abort(r)
    BY <2>2, QuietStep, QuietKnowsBalance, QuietKeepsCInv
  <2> QED
    BY <1>5, <2>1, <2>2 DEF Step
<1> QED
  BY <1>2, <1>3, <1>4, <1>5 DEF Next

(* For every set of students and requests: each ledger row opens with the  *)
(* balance the student's previous row closed with (record recomputes the   *)
(* balance under the student's lock and keeps the lock until it commits).  *)
THEOREM BalanceIsChained == Spec => []LedgerChain
<1>1. Init => FInv /\ JInv /\ CInv
  BY InitEstablishes, JInvInit, CInvInit
<1>2. FInv /\ JInv /\ CInv /\ [Next]_vars => (FInv /\ JInv /\ CInv)'
  BY NextPreserves, JInvStep, CInvStep
<1>3. ASSUME FInv, CInv PROVE LedgerChain
  <2> SUFFICES ASSUME NEW i \in DOMAIN ledger
               PROVE  ledger[i].before =
                        IF Earlier(i) = {} THEN 0
                        ELSE ledger[CHOOSE j \in Earlier(i) : \A k \in Earlier(i) : k <= j].after
    BY DEF LedgerChain
  <2>1. Opens(i) /\ Earlier(i) \subseteq Int
    BY <1>3, LedgerGrows DEF CInv, FInv, Earlier
  <2>2. CASE Earlier(i) # {}
    <3> DEFINE j == CHOOSE j \in Earlier(i) : \A k \in Earlier(i) : k <= j
    <3>1. PICK m \in Earlier(i) : (\A k \in Earlier(i) : k <= m) /\ ledger[i].before = ledger[m].after
      BY <2>1, <2>2 DEF Opens
    <3>2. j \in Earlier(i) /\ \A k \in Earlier(i) : k <= j
      BY <3>1
    <3>3. j = m
      BY <2>1, <3>1, <3>2
    <3> QED
      BY <2>2, <3>1, <3>3
  <2> QED
    BY <2>1, <2>2 DEF Opens
<1> QED
  BY <1>1, <1>2, <1>3, PTL DEF Spec
-----------------------------------------------------------------------------
(* Disciplined clients.                                                    *)

OpenRefund(r) == Running(r) /\ arg[r].kind = "refund"

OneOpen == \A q, r \in Requests : OpenRefund(q) /\ OpenRefund(r) /\ arg[q].pay = arg[r].pay => q = r

OneHome ==
    \A q, r \in Requests : /\ arg[q].kind = "refund" /\ arg[r].kind = "refund"
                           /\ arg[q].key # None /\ arg[q].key = arg[r].key
                           => arg[q].pay = arg[r].pay

(* What an open refund has read of its payment is what the payment says.   *)
SeesRefunded(r) == OpenRefund(r) => view[r].refunded = refunded[arg[r].pay]

(* A default refund key names a cumulative amount already reached.         *)
RefundRowOK(i) ==
    \A p \in Requests, n \in Nat : ledger[i].key = <<"refund", p, n>> => n <= refunded[p]

NotYetJournaled(r) ==
    PastCheck(r) /\ pc[r] # "commit" /\ arg[r].key # None => RowsWithKey(ClientKey(arg[r].key)) = {}

(* Nobody commits without a ledger row.                                    *)
WillJournal(r) == pc[r] = "commit" => view[r].journal

SInv ==
    /\ OneOpen
    /\ OneHome
    /\ \A i \in DOMAIN ledger : RefundRowOK(i)
    /\ \A r \in Requests : SeesRefunded(r) /\ NotYetJournaled(r) /\ WillJournal(r)

LEMMA SInvInit == Init => SInv
  BY DEF Init, SInv, OneOpen, OpenRefund, Running, OneHome, Blank, RefundRowOK,
         SeesRefunded, NotYetJournaled, PastCheck, WillJournal

LEMMA SerialIsNext == SerialNext => Next
  BY DEF SerialNext, Next, SerialBegin, Begin

LEMMA QuietKeepsSInv ==
    ASSUME FInv, JInv, SInv, NEW r \in Requests, Quiet(r),
           OneOpen', OneHome', SeesRefunded(r)', NotYetJournaled(r)', WillJournal(r)'
    PROVE  SInv'
<1>1. \A i \in DOMAIN ledger : RefundRowOK(i)'
  BY DEF SInv, RefundRowOK, Quiet
<1>2. ASSUME NEW q \in Requests, q # r PROVE SeesRefunded(q)' /\ NotYetJournaled(q)' /\ WillJournal(q)'
  <2>1. /\ pc'[q] = pc[q] /\ arg'[q] = arg[q] /\ view'[q] = view[q]
        /\ refunded' = refunded /\ ledger' = ledger
    BY <1>2 DEF Quiet, OthersStand
  <2>2. SeesRefunded(q) /\ NotYetJournaled(q) /\ WillJournal(q)
    BY <1>2 DEF SInv
  <2> QED
    BY <2>1, <2>2 DEF SeesRefunded, OpenRefund, Running, NotYetJournaled, PastCheck, WillJournal,
                      RowsWithKey, ClientKey
<1>3. DOMAIN ledger' = DOMAIN ledger
  BY DEF Quiet
<1> QED
  BY <1>1, <1>2, <1>3 DEF SInv

(* Once it has begun, a request keeps its payment and its key.             *)
LEMMA GoingOnKeepsSInv ==
    ASSUME FInv, JInv, SInv, NEW r \in Requests, Quiet(r), pc[r] # "idle",
           pc'[r] # "done" => view'[r].refunded = view[r].refunded,
           NotYetJournaled(r)', WillJournal(r)'
    PROVE  SInv'
<1>1. \A q \in Requests : arg'[q] = arg[q] /\ (OpenRefund(q)' => OpenRefund(q))
  BY DEF Quiet, OthersStand, OpenRefund, Running
<1>2. OneOpen' /\ OneHome'
  BY <1>1 DEF SInv, OneOpen, OneHome
<1>3. SeesRefunded(r)'
  BY <1>1 DEF SInv, SeesRefunded, OpenRefund, Running, Quiet
<1> QED
  BY <1>2, <1>3, QuietKeepsSInv

LEMMA SerialBeginKeepsSInv ==
    ASSUME FInv, JInv, SInv, NEW r \in Requests, SerialBegin(r)
    PROVE  SInv'
<1>1. Quiet(r) /\ pc[r] = "idle"
  BY QuietBegin DEF SerialBegin, Begin
<1>2. \A q \in Requests \ {r} : arg'[q] = arg[q] /\ pc'[q] = pc[q]
  BY <1>1 DEF Quiet, OthersStand
<1>3. ASSUME NEW d \in Dues, NEW a \in Amounts, NEW k \in Keys \cup {None}, BeginPayment(r, d, a, k)
      PROVE  SInv'
  <2>1. arg'[r].kind = "payment" /\ pc'[r] # "commit"
    BY <1>3 DEF BeginPayment, Finish, FInv, TypeOK
  <2>2. OneOpen' /\ OneHome'
    BY <1>2, <2>1 DEF SInv, OneOpen, OneHome, OpenRefund, Running
  <2> QED
    BY <1>1, <2>1, <2>2, QuietKeepsSInv DEF SeesRefunded, OpenRefund, NotYetJournaled, PastCheck, WillJournal
<1>4. ASSUME NEW p \in Requests, NEW a \in Amounts, NEW k \in Keys \cup {None},
             ~RefundOpen(p), ~KeyUsedElsewhere(p, k), BeginRefund(r, p, a, k)
      PROVE  SInv'
  <2>1. /\ arg'[r].kind = "refund" /\ arg'[r].pay = p /\ arg'[r].key = k
        /\ pc'[r] = "lock_payment" /\ view'[r].refunded = refunded[p] /\ refunded' = refunded
    BY <1>4 DEF BeginRefund, FInv, TypeOK, db
  <2>2. OneOpen'
    BY <1>2, <1>4, <2>1 DEF SInv, OneOpen, OpenRefund, Running, RefundOpen
  <2>3. OneHome'
    <3>1. \A q \in Requests \ {r} : arg[q].kind = "refund" /\ k # None /\ arg[q].key = k => arg[q].pay = p
      BY <1>4 DEF KeyUsedElsewhere
    <3> QED
      BY <1>2, <2>1, <3>1 DEF SInv, OneHome
  <2> QED
    BY <1>1, <2>1, <2>2, <2>3, QuietKeepsSInv DEF SeesRefunded, NotYetJournaled, PastCheck, WillJournal
<1> QED
  BY <1>3, <1>4 DEF SerialBegin

LEMMA EndKeepsSInv ==
    ASSUME FInv, JInv, SInv, NEW r \in Requests, Quiet(r), pc[r] # "idle", NEW o, Finish(r, o)
    PROVE  SInv'
<1>1. pc'[r] = "done"
  BY DEF FInv, TypeOK, Finish
<1> QED
  BY <1>1, GoingOnKeepsSInv DEF NotYetJournaled, PastCheck, WillJournal
-----------------------------------------------------------------------------
(* Nothing is journaled under the key of a refund that is still on its way.*)
LEMMA StillNotJournaled ==
    ASSUME FInv, JInv, SInv, NEW r \in Requests, Quiet(r), arg' = arg, PastCheck(r), pc[r] # "commit"
    PROVE  NotYetJournaled(r)'
<1>1. NotYetJournaled(r) /\ ledger' = ledger
  BY DEF SInv, Quiet
<1> QED
  BY <1>1 DEF NotYetJournaled, PastCheck, RowsWithKey, ClientKey

(* The lookup finds no row: the request's effect has not been journaled.   *)
LEMMA LookupFindsNothing ==
    ASSUME FInv, JInv, KInv, SInv, NEW r \in Requests, pc[r] = "lookup"
    PROVE  RowsWithKey(LedgerKey(r)) = {}
<1>1. /\ RequestOK(r) /\ arg[r].kind \in {"payment", "refund"} /\ arg[r].amount \in Nat \ {0}
      /\ OpenRefund(r) \/ arg[r].kind = "payment"
  BY FeeAssumption DEF FInv, RequestOK, Running, OpenRefund, Amounts
<1>2. CASE arg[r].kind = "payment"
  <2>1. outcome[r] # "applied"
    BY DEF JInv
  <2> QED
    BY <1>2, <2>1, RowOfPayment DEF LedgerKey
<1>3. CASE arg[r].kind = "refund" /\ arg[r].key # None
  BY <1>3 DEF SInv, NotYetJournaled, PastCheck, LedgerKey, ClientKey
<1>4. CASE arg[r].kind = "refund" /\ arg[r].key = None
  <2> DEFINE p == arg[r].pay
             n == view[r].refunded + arg[r].amount
  <2>1. LedgerKey(r) = <<"refund", p, n>>
    BY <1>4 DEF LedgerKey
  <2>2. p \in Requests
    BY <1>1, <1>4 DEF RequestOK, Running, Payments
  <2>3. view[r].refunded \in Nat /\ view[r].refunded = refunded[p] /\ n \in Nat /\ n > refunded[p]
    BY <1>1, <1>4, <2>2 DEF SInv, SeesRefunded, FInv, TypeOK
  <2>4. refunded[p] \in Int /\ n \in Int
    BY <2>3
  <2> HIDE DEF p, n
  <2>5. ASSUME NEW i \in DOMAIN ledger, ledger[i].key = <<"refund", p, n>> PROVE FALSE
    <3>1. n <= refunded[p]
      BY <2>2, <2>3, <2>5 DEF SInv, RefundRowOK
    <3> QED
      BY <2>3, <2>4, <3>1
  <2> QED
    BY <2>1, <2>5 DEF RowsWithKey
<1> QED
  BY <1>1, <1>2, <1>3, <1>4

LEMMA QuietStepKeepsSInv ==
    ASSUME FInv, JInv, KInv, SInv, NEW r \in Requests,
           \/ LockDueForPayment(r) \/ InsertPayment(r) \/ LockPayment(r) \/ LockDueForRefund(r)
           \/ LookupLedger(r) \/ JournalRow(r) \/ BreakDeadlock(r) \/ Abort(r)
    PROVE  SInv'
<1>1. Quiet(r) /\ pc[r] # "idle"
  BY QuietStep
<1>2. CASE \E o : Finish(r, o)
  BY <1>1, <1>2, EndKeepsSInv
<1>3. CASE ~\E o : Finish(r, o)
  <2>0. \A o : ~Finish(r, o)
    BY <1>3
  <2>1. CASE LockDueForPayment(r) \/ InsertPayment(r)
    <3>1. /\ pc[r] \in {"lock_due", "insert"} /\ pc'[r] \in {"insert", "lookup"} /\ arg' = arg
          /\ view'[r].refunded = view[r].refunded
      BY <2>0, <2>1 DEF LockDueForPayment, InsertPayment, FInv, TypeOK
    <3>2. arg[r].kind = "payment"
      BY <2>1 DEF LockDueForPayment, InsertPayment, FInv, RequestOK
    <3> QED
      BY <1>1, <3>1, <3>2, GoingOnKeepsSInv DEF NotYetJournaled, PastCheck, WillJournal
  <2>2. CASE LockPayment(r)
    <3>1. /\ pc'[r] = "lock_due" /\ arg' = arg /\ ledger' = ledger
          /\ view'[r].refunded = view[r].refunded
          /\ arg[r].key # None => RowsWithKey(LedgerKey(r)) = {}
      BY <2>0, <2>2 DEF LockPayment, FInv, TypeOK, db
    <3>2. arg[r].kind = "refund"
      BY <2>2 DEF LockPayment, FInv, RequestOK
    <3>3. arg[r].key # None => RowsWithKey(ClientKey(arg[r].key)) = {}
      BY <3>1, <3>2 DEF LedgerKey, ClientKey
    <3>4. NotYetJournaled(r)'
      BY <3>1, <3>3 DEF NotYetJournaled, RowsWithKey, ClientKey
    <3> QED
      BY <1>1, <3>1, <3>4, GoingOnKeepsSInv DEF WillJournal
  <2>3. CASE LockDueForRefund(r)
    <3>1. /\ pc[r] = "lock_due" /\ arg[r].kind = "refund" /\ pc'[r] = "lookup" /\ arg' = arg
          /\ view'[r].refunded = view[r].refunded
      BY <2>0, <2>3 DEF LockDueForRefund, FInv, TypeOK
    <3>2. NotYetJournaled(r)'
      BY <1>1, <3>1, StillNotJournaled DEF PastCheck
    <3> QED
      BY <1>1, <3>1, <3>2, GoingOnKeepsSInv DEF WillJournal
  <2>4. CASE LookupLedger(r)
    <3>1. pc[r] = "lookup" /\ pc'[r] = "journal" /\ arg' = arg /\ view' = view
      BY <2>4, LookupFindsNothing DEF LookupLedger, FInv, TypeOK
    <3>2. NotYetJournaled(r)'
      BY <1>1, <3>1, StillNotJournaled DEF PastCheck, NotYetJournaled
    <3> QED
      BY <1>1, <3>1, <3>2, GoingOnKeepsSInv DEF WillJournal
  <2>5. CASE JournalRow(r)
    <3>1. /\ pc' = [pc EXCEPT ![r] = "commit"]
          /\ view' = [view EXCEPT ![r].before = Balance(Student(r)), ![r].journal = TRUE]
      BY <2>0, <2>5 DEF JournalRow
    <3>2. pc'[r] = "commit" /\ view'[r].journal /\ view'[r].refunded = view[r].refunded
      BY <3>1 DEF FInv, TypeOK
    <3> QED
      BY <1>1, <3>2, GoingOnKeepsSInv DEF NotYetJournaled, WillJournal
  <2>6. ~BreakDeadlock(r) /\ ~Abort(r)
    BY <2>0 DEF BreakDeadlock, Abort
  <2> QED
    BY <2>1, <2>2, <2>3, <2>4, <2>5, <2>6
<1> QED
  BY <1>2, <1>3

LEMMA CommitsKeepSInv ==
    ASSUME FInv, JInv, SInv, NEW r \in Requests, Commits(r), view' = [view EXCEPT ![r] = NoView],
           \A q \in Requests : /\ refunded[q] \in Nat /\ refunded'[q] \in Nat
                               /\ refunded[q] <= refunded'[q]
                               /\ refunded'[q] # refunded[q] => OpenRefund(r) /\ q = arg[r].pay,
           arg[r].kind = "refund" => refunded'[arg[r].pay] = view[r].refunded + arg[r].amount
    PROVE  SInv'
<1> USE DEF Commits, OthersStand
<1>1. \A q \in Requests : OpenRefund(q)' => q # r /\ OpenRefund(q)
  BY DEF OpenRefund, Running
<1>2. OneOpen' /\ OneHome'
  BY <1>1 DEF SInv, OneOpen, OneHome
<1>3. arg[r].kind = "refund" => OpenRefund(r)
  BY DEF OpenRefund, Running
<1>4. ASSUME NEW q \in Requests, q # r PROVE SeesRefunded(q)'
  <2>1. ASSUME OpenRefund(q) PROVE view[q].refunded = refunded'[arg[q].pay]
    <3>1. arg[q].pay \in Requests
      BY <1>4, <2>1 DEF FInv, RequestOK, OpenRefund, Payments
    <3>2. OpenRefund(r) => arg[q].pay # arg[r].pay
      BY <1>4, <2>1 DEF SInv, OneOpen
    <3> QED
      BY <1>4, <2>1, <3>1, <3>2 DEF SInv, SeesRefunded
  <2> QED
    BY <1>1, <1>4, <2>1 DEF SeesRefunded
<1>5. ASSUME NEW i \in DOMAIN ledger'
      PROVE  (i \in DOMAIN ledger /\ ledger'[i] = ledger[i]) \/ (ledger'[i] = Row(r) /\ view[r].journal)
  BY <1>5, LedgerGrows DEF FInv, LedgerAfter
<1>6. ASSUME NEW i \in DOMAIN ledger' PROVE RefundRowOK(i)'
  <2>1. CASE i \in DOMAIN ledger /\ ledger'[i] = ledger[i]
    <3>1. RefundRowOK(i)
      BY <2>1 DEF SInv
    <3> QED
      BY <2>1, <3>1 DEF RefundRowOK
  <2>2. CASE ledger'[i] = Row(r)
    <3>1. ledger'[i].key = LedgerKey(r)
      BY <2>2 DEF Row
    <3>2. ASSUME NEW p \in Requests, NEW n \in Nat, LedgerKey(r) = <<"refund", p, n>>
          PROVE  n <= refunded'[p]
      <4>1. arg[r].kind # "payment" /\ p = arg[r].pay /\ n = view[r].refunded + arg[r].amount
        BY <3>2 DEF LedgerKey
      <4>2. arg[r].kind = "refund"
        BY <4>1 DEF FInv, RequestOK, Running
      <4> QED
        BY <4>1, <4>2
    <3> QED
      BY <3>1, <3>2 DEF RefundRowOK
  <2> QED
    BY <1>5, <1>6, <2>1, <2>2
<1>7. ASSUME NEW q \in Requests, q # r PROVE NotYetJournaled(q)'
  <2>1. ASSUME PastCheck(q), pc[q] # "commit", arg[q].key # None,
               NEW i \in DOMAIN ledger', ledger'[i].key = ClientKey(arg[q].key)
        PROVE  FALSE
    <3>1. OpenRefund(q)
      BY <2>1 DEF PastCheck, OpenRefund, Running
    <3>2. RowsWithKey(ClientKey(arg[q].key)) = {}
      BY <1>7, <2>1 DEF SInv, NotYetJournaled
    <3>3. LedgerKey(r) = ClientKey(arg[q].key)
      BY <1>5, <2>1, <3>2 DEF RowsWithKey, Row
    <3>4. arg[r].kind # "payment" /\ arg[r].key = arg[q].key
      BY <3>3 DEF LedgerKey, ClientKey
    <3>5. arg[r].kind = "refund"
      BY <3>4 DEF FInv, RequestOK, Running
    <3> QED
      BY <1>3, <1>7, <2>1, <3>1, <3>4, <3>5 DEF SInv, OneHome, OneOpen, PastCheck
  <2> QED
    BY <1>7, <2>1 DEF NotYetJournaled, PastCheck, RowsWithKey, ClientKey
<1>8. SeesRefunded(r)' /\ NotYetJournaled(r)'
  BY DEF SeesRefunded, OpenRefund, Running, NotYetJournaled, PastCheck
<1>9. ASSUME NEW q \in Requests PROVE WillJournal(q)'
  BY <1>9 DEF SInv, WillJournal
<1> QED
  BY <1>2, <1>4, <1>6, <1>7, <1>8, <1>9 DEF SInv

LEMMA CommitKeepsSInv ==
    ASSUME FInv, JInv, KInv, SInv, NEW r \in Requests, CommitPayment(r) \/ CommitRefund(r)
    PROVE  SInv'
<1>1. Commits(r) /\ view' = [view EXCEPT ![r] = NoView]
  BY CommitsCommit DEF CommitPayment, CommitRefund, Finish
<1>2. RequestOK(r) /\ arg[r].amount \in Nat \ {0} /\ arg[r].kind \in {"payment", "refund"}
  BY <1>1, CommitFacts DEF RequestOK, Running, Commits
<1> DEFINE p == arg[r].pay
           n == view[r].refunded + arg[r].amount
<1>3. CASE CommitPayment(r)
  <2>1. arg[r].kind = "payment" /\ refunded' = refunded
    BY <1>3 DEF CommitPayment
  <2>2. \A q \in Requests : /\ refunded[q] \in Nat /\ refunded'[q] = refunded[q]
                            /\ refunded[q] <= refunded[q]
    BY <2>1 DEF FInv, TypeOK
  <2> QED
    BY <1>1, <2>1, <2>2, CommitsKeepSInv
<1>4. CASE CommitRefund(r)
  <2>1. /\ arg[r].kind = "refund" /\ OpenRefund(r) /\ p \in Requests
        /\ refunded' = [refunded EXCEPT ![p] = n]
    BY <1>2, <1>4 DEF CommitRefund, RequestOK, OpenRefund, Running, Payments
  <2>2. n \in Nat /\ n > refunded[p] /\ refunded[p] \in Nat
    BY <1>2, <2>1 DEF SInv, SeesRefunded, FInv, TypeOK
  <2>3. \A q \in Requests : /\ refunded[q] \in Nat /\ refunded'[q] \in Nat
                            /\ refunded[q] <= refunded'[q]
                            /\ refunded'[q] # refunded[q] => OpenRefund(r) /\ q = arg[r].pay
    BY <2>1, <2>2 DEF FInv, TypeOK
  <2>4. refunded'[arg[r].pay] = view[r].refunded + arg[r].amount
    BY <2>1 DEF FInv, TypeOK
  <2> QED
    BY <1>1, <2>3, <2>4, CommitsKeepSInv
<1> QED
  BY <1>3, <1>4
-----------------------------------------------------------------------------
LEMMA SInvStep ==
    ASSUME FInv, JInv, KInv, SInv, [SerialNext]_vars
    PROVE  SInv'
<1>1. ASSUME NobodyMoves PROVE SInv'
  <2>1. /\ refunded' = refunded /\ ledger' = ledger /\ arg' = arg /\ view' = view /\ pc' = pc
    BY <1>1 DEF NobodyMoves
  <2>2. /\ OneOpen' = OneOpen /\ OneHome' = OneHome
        /\ \A i \in DOMAIN ledger : RefundRowOK(i)' = RefundRowOK(i)
    BY <2>1 DEF OneOpen, OpenRefund, Running, OneHome, RefundRowOK
  <2>3. \A q \in Requests : /\ SeesRefunded(q)' = SeesRefunded(q)
                            /\ NotYetJournaled(q)' = NotYetJournaled(q)
                            /\ WillJournal(q)' = WillJournal(q)
    BY <2>1 DEF SeesRefunded, OpenRefund, Running, NotYetJournaled, PastCheck, WillJournal,
                RowsWithKey, ClientKey
  <2> QED
    BY <2>1, <2>2, <2>3 DEF SInv
<1>2. CASE UNCHANGED vars
  BY <1>1, <1>2 DEF NobodyMoves, vars, db
<1>3. ASSUME NEW s \in Students, CreateDues(s) PROVE SInv'
  BY <1>1, <1>3 DEF CreateDues, NobodyMoves
<1>4. ASSUME NEW r \in Requests, Step(r) \/ Abort(r) PROVE SInv'
  BY <1>4, QuietStepKeepsSInv, CommitKeepsSInv DEF Step
<1> QED
  BY <1>2, <1>3, <1>4, SerialBeginKeepsSInv DEF SerialNext

(* What disciplined clients keep true of the fees service.                 *)
Disciplined == FInv /\ JInv /\ KInv /\ CInv /\ SInv

LEMMA SerialInvariance == SerialSpec => []Disciplined
<1>1. Init => Disciplined
  BY InitEstablishes, JInvInit, KInvInit, CInvInit, SInvInit DEF Disciplined
<1>2. Disciplined /\ [SerialNext]_vars => Disciplined'
  BY NextPreserves, JInvStep, KInvStep, CInvStep, SInvStep, SerialIsNext DEF Disciplined
<1> QED
  BY <1>1, <1>2, PTL DEF SerialSpec

-----------------------------------------------------------------------------
(* Every account of the same money.                                        *)

(* Units of money held by the dues of student s.                           *)
DueUnits(s) ==
    {u \in Dues \X Nat : StudentOf[u[1]] = s /\ u[2] \in 1..dues[u[1]].paid}

(* r has one ledger row if it took effect, and none otherwise.             *)
JournaledOnce(r) ==
    IF outcome[r] = "applied"
    THEN \E i \in DOMAIN ledger : \A j \in DOMAIN ledger : ledger[j].by = r <=> j = i
    ELSE \A j \in DOMAIN ledger : ledger[j].by # r

NInv ==
    /\ \A p \in Requests : Cardinality(RefundUnits(p)) = refunded[p]
    /\ \A d \in Dues : Cardinality(NetUnits(d)) = dues[d].paid
    /\ \A s \in Students : IsFiniteSet(DueUnits(s)) /\ Cardinality(DueUnits(s)) = Balance(s)
    /\ \A r \in Requests : JournaledOnce(r)

LEMMA UnitSetsFinite ==
    /\ \A p \in Requests : IsFiniteSet(RefundUnits(p))
    /\ \A d \in Dues : IsFiniteSet(NetUnits(d))
<1>1. IsFiniteSet(Amounts)
  BY FeeAssumption, FS_Interval DEF Amounts
<1>2. IsFiniteSet(Requests \X Amounts)
  BY <1>1, FeeAssumption, FS_Product
<1>3. \A p \in Requests : RefundUnits(p) \subseteq Requests \X Amounts
  BY DEF RefundUnits, Applied
<1>4. \A d \in Dues : NetUnits(d) \subseteq Requests \X Amounts
  BY DEF NetUnits
<1> QED
  BY <1>2, <1>3, <1>4, FS_Subset

LEMMA NInvInit == Init => NInv
<1> SUFFICES ASSUME Init PROVE NInv
  OBVIOUS
<1>1. \A p \in Requests : RefundUnits(p) = {}
  BY DEF Init, RefundUnits, Applied
<1>2. \A d \in Dues : NetUnits(d) = {}
  BY DEF Init, NetUnits
<1>3. \A s \in Students : DueUnits(s) = {} /\ Balance(s) = 0
  <2>1. \A s \in Students : DueUnits(s) = {}
    BY DEF Init, DueUnits
  <2>2. ASSUME NEW s PROVE Balance(s) = 0
    BY CInvInit DEF CInv, Closes, Init, RowsOf
  <2> QED
    BY <2>1, <2>2
<1>4. \A r \in Requests : JournaledOnce(r)
  BY DEF Init, JournaledOnce
<1> QED
  BY <1>1, <1>2, <1>3, <1>4, FS_EmptySet DEF Init, NInv

(* Steps that move no money.                                               *)
LEMMA MoneyStands ==
    ASSUME FInv, JInv, NInv,
           UNCHANGED <<pstatus, refunded, ledger>>,
           \A d \in Dues : dues'[d].paid = dues[d].paid,
           \A r \in Requests : /\ outcome'[r] = "applied" <=> outcome[r] = "applied"
                               /\ outcome[r] = "applied" => arg'[r] = arg[r]
    PROVE  NInv'
<1>1. \A kind : Applied(kind)' = Applied(kind)
  BY DEF Applied
<1>2. \A p \in Requests : RefundUnits(p)' = RefundUnits(p)
  BY <1>1 DEF RefundUnits, Applied
<1>3. \A p \in Requests : pstatus[p] # "none" => arg'[p] = arg[p]
  BY DEF JInv, Payments, Applied
<1>4. \A d \in Dues : NetUnits(d)' = NetUnits(d)
  BY <1>3 DEF NetUnits
<1>5. \A s \in Students : DueUnits(s)' = DueUnits(s)
  BY DEF DueUnits
<1>6. \A s \in Students : Balance(s)' = Balance(s)
  <2>1. \A i \in DOMAIN ledger : arg'[ledger[i].by] = arg[ledger[i].by]
    BY RowTyped DEF FInv, JInv, RowOK
  <2> QED
    BY <2>1, LedgerStands DEF FInv
<1>7. ASSUME NEW r \in Requests PROVE JournaledOnce(r)'
  <2>1. JournaledOnce(r) /\ ledger' = ledger
    BY <1>7 DEF NInv
  <2> QED
    BY <1>7, <2>1 DEF JournaledOnce
<1> QED
  BY <1>2, <1>4, <1>5, <1>6, <1>7 DEF NInv
-----------------------------------------------------------------------------
(* The units lo..hi of one payment or due.                                 *)
LEMMA Strip ==
    ASSUME NEW x, NEW lo \in Nat \ {0}, NEW hi \in Nat, lo <= hi + 1
    PROVE  IsFiniteSet({x} \X (lo..hi)) /\ Cardinality({x} \X (lo..hi)) = hi - lo + 1
<1> DEFINE a == lo - 1
<1>1. a \in Nat /\ a <= hi /\ a + 1 = lo /\ hi - a = hi - lo + 1
  OBVIOUS
<1>2. IsFiniteSet({x} \X ((a + 1)..hi)) /\ Cardinality({x} \X ((a + 1)..hi)) = hi - a
  <2> HIDE DEF a
  <2> QED
    BY <1>1, OneStrip
<1> QED
  BY <1>1, <1>2

LEMMA FirstUnits ==
    ASSUME NEW x, NEW a \in Nat
    PROVE  IsFiniteSet({x} \X (1..a)) /\ Cardinality({x} \X (1..a)) = a
<1>1. 0 <= a /\ a - 0 = a /\ (0 + 1)..a = 1..a
  OBVIOUS
<1>2. IsFiniteSet({x} \X ((0 + 1)..a)) /\ Cardinality({x} \X ((0 + 1)..a)) = a - 0
  BY <1>1, OneStrip
<1> QED
  BY <1>1, <1>2

-----------------------------------------------------------------------------
(* No refund applies twice.                                                *)

(* Units refunded by a commit come on top of those refunded before.        *)
LEMMA RefundAddsUnits ==
    ASSUME FInv, JInv, NEW r \in Requests, CommitRefund(r), NEW q \in Requests
    PROVE  /\ Cardinality(RefundUnits(q)) \in Nat
           /\ Cardinality(RefundUnits(q))' =
                 Cardinality(RefundUnits(q)) + (IF q = arg[r].pay THEN arg[r].amount ELSE 0)
<1> DEFINE a == arg[r].amount
           D == {r} \X (1..a)
<1>1. /\ Commits(r) /\ arg' = arg /\ arg[r].kind = "refund" /\ a \in Nat /\ a \in Amounts
      /\ outcome[r] # "applied"
  BY CommitsCommit, CommitFacts DEF CommitRefund, Commits, JInv
<1>2. Applied("refund")' = Applied("refund") \cup {r} /\ r \notin Applied("refund")
  BY <1>1, WhatCommits DEF Applied
<1>3. IsFiniteSet(RefundUnits(q)) /\ Cardinality(RefundUnits(q)) \in Nat
  BY UnitSetsFinite, FS_CardinalityType
<1>4. CASE q = arg[r].pay
  <2>1. \A n \in Amounts : n \in Nat \ {0}
    BY FeeAssumption DEF Amounts
  <2>2. \A n \in 1..a : n \in Amounts /\ n <= a
    BY <1>1, FeeAssumption DEF Amounts
  <2>3. RefundUnits(q) \subseteq RefundUnits(q)' /\ D \subseteq RefundUnits(q)'
    BY <1>1, <1>2, <1>4, <2>2 DEF RefundUnits
  <2>4. ASSUME NEW u \in RefundUnits(q)' PROVE u \in RefundUnits(q) \cup D
    <3>1. u \in (Applied("refund") \cup {r}) \X Amounts /\ u[2] <= arg[u[1]].amount /\ arg[u[1]].pay = q
      BY <1>1, <1>2, <2>4 DEF RefundUnits
    <3>2. CASE u[1] = r
      <4>1. u = <<r, u[2]>> /\ u[2] \in Nat \ {0} /\ u[2] <= a
        BY <2>1, <3>1, <3>2
      <4>2. u[2] \in 1..a
        BY <1>1, <4>1
      <4> QED
        BY <4>1, <4>2
    <3>3. CASE u[1] # r
      BY <3>1, <3>3 DEF RefundUnits
    <3> QED
      BY <3>2, <3>3
  <2>5. RefundUnits(q)' = RefundUnits(q) \cup D
    BY <2>3, <2>4
  <2>6. RefundUnits(q) \cap D = {}
    BY <1>2 DEF RefundUnits
  <2>7. IsFiniteSet(D) /\ Cardinality(D) = a
    BY <1>1, FirstUnits
  <2> HIDE DEF D, a
  <2>8. Cardinality(RefundUnits(q) \cup D) = Cardinality(RefundUnits(q)) + Cardinality(D)
    BY <1>3, <2>6, <2>7, DisjointUnits
  <2> QED
    BY <1>3, <1>4, <2>5, <2>7, <2>8 DEF a
<1>5. CASE q # arg[r].pay
  <2>1. RefundUnits(q)' = RefundUnits(q)
    BY <1>1, <1>2, <1>5 DEF RefundUnits
  <2> QED
    BY <1>3, <1>5, <2>1
<1> QED
  BY <1>4, <1>5

(* The refund r asks for has already taken effect.                         *)
TookEffect(r) == \E q \in Applied("refund") : SameRefund(q, r)

(* What an open refund has read of its payment was refunded, and is what   *)
(* the payment says now, unless r is late: another refund of the payment   *)
(* crossed it, or it is a retry of one that has taken effect.              *)
ReadsRefunded(r) ==
    OpenRefund(r) =>
        /\ view[r].refunded <= Cardinality(RefundUnits(arg[r].pay))
        /\ \/ arg[r].pay \in crossed
           \/ TookEffect(r)
           \/ view[r].refunded = refunded[arg[r].pay]

RowsAccount(p) ==
    /\ refunded[p] <= Cardinality(RefundUnits(p))
    /\ p \notin crossed => refunded[p] = Cardinality(RefundUnits(p))

RInv == \A r \in Requests : RowsAccount(r) /\ ReadsRefunded(r)

LEMMA RInvInit == Init => RInv
<1> SUFFICES ASSUME Init PROVE RInv
  OBVIOUS
<1>1. \A p \in Requests : RefundUnits(p) = {}
  BY DEF Init, RefundUnits, Applied
<1>2. \A p \in Requests : RowsAccount(p)
  <2>1. \A p \in Requests : Cardinality(RefundUnits(p)) = 0 /\ refunded[p] = 0
    BY <1>1, FS_EmptySet DEF Init
  <2> QED
    BY <2>1 DEF RowsAccount
<1>3. \A r \in Requests : ReadsRefunded(r)
  BY DEF Init, ReadsRefunded, OpenRefund, Running
<1> QED
  BY <1>2, <1>3 DEF RInv

LEMMA QuietKeepsRInv ==
    ASSUME FInv, JInv, RInv, NEW r \in Requests, Quiet(r),
           \/ OpenRefund(r)' => OpenRefund(r) /\ arg'[r] = arg[r] /\ view'[r].refunded = view[r].refunded
           \/ arg'[r].pay \in Requests /\ view'[r].refunded = refunded[arg'[r].pay]
    PROVE  RInv'
<1>1. /\ Applied("refund")' = Applied("refund") /\ refunded' = refunded /\ crossed' = crossed
      /\ \A q \in Applied("refund") : arg'[q] = arg[q]
  BY QuietKeepsApplied DEF Applied, Quiet
<1>2. \A p : RefundUnits(p)' = RefundUnits(p)
  BY <1>1 DEF RefundUnits
<1>3. ASSUME NEW p \in Requests PROVE RowsAccount(p)'
  BY <1>1, <1>2, <1>3 DEF RInv, RowsAccount
<1>4. ASSUME NEW q \in Requests, OpenRefund(q)' => OpenRefund(q) /\ arg'[q] = arg[q],
             view'[q].refunded = view[q].refunded
      PROVE  ReadsRefunded(q)'
  <2>1. ReadsRefunded(q)
    BY <1>4 DEF RInv
  <2>2. ASSUME OpenRefund(q)' PROVE TookEffect(q)' <=> TookEffect(q)
    BY <1>1, <1>4, <2>2 DEF TookEffect, SameRefund
  <2> QED
    BY <1>1, <1>2, <1>4, <2>1, <2>2 DEF ReadsRefunded
<1>5. ASSUME NEW q \in Requests, q # r PROVE ReadsRefunded(q)'
  BY <1>4, <1>5 DEF Quiet, OthersStand, OpenRefund, Running
<1>6. ReadsRefunded(r)'
  <2>1. CASE arg'[r].pay \in Requests /\ view'[r].refunded = refunded[arg'[r].pay]
    <3>1. RowsAccount(arg'[r].pay)
      BY <2>1 DEF RInv
    <3> QED
      BY <1>1, <1>2, <2>1, <3>1 DEF ReadsRefunded, RowsAccount
  <2>2. CASE OpenRefund(r)' => OpenRefund(r) /\ arg'[r] = arg[r] /\ view'[r].refunded = view[r].refunded
    <3>1. CASE OpenRefund(r)'
      BY <1>4, <2>2, <3>1
    <3>2. CASE ~OpenRefund(r)'
      BY <3>2 DEF ReadsRefunded
    <3> QED
      BY <3>1, <3>2
  <2> QED
    BY <2>1, <2>2
<1> QED
  BY <1>3, <1>5, <1>6 DEF RInv

(* A session keeps its copy of the payment until the transaction ends.     *)
LEMMA CopyIsKept ==
    ASSUME FInv, NEW r \in Requests,
           \/ LockDueForPayment(r) \/ InsertPayment(r) \/ LockPayment(r) \/ LockDueForRefund(r)
           \/ LookupLedger(r) \/ JournalRow(r) \/ BreakDeadlock(r) \/ Abort(r)
    PROVE  pc'[r] = "done" \/ view'[r].refunded = view[r].refunded
<1>1. CASE \E o : Finish(r, o)
  BY <1>1 DEF Finish, FInv, TypeOK
<1>2. CASE ~\E o : Finish(r, o)
  <2>0. \A o : ~Finish(r, o)
    BY <1>2
  <2>1. ~BreakDeadlock(r) /\ ~Abort(r)
    BY <2>0 DEF BreakDeadlock, Abort
  <2>2. CASE LockDueForPayment(r) \/ InsertPayment(r)
    BY <2>0, <2>2 DEF LockDueForPayment, InsertPayment, FInv, TypeOK
  <2>3. CASE LockPayment(r) \/ LockDueForRefund(r) \/ LookupLedger(r)
    BY <2>0, <2>3 DEF LockPayment, LockDueForRefund, LookupLedger, FInv, TypeOK
  <2>4. CASE JournalRow(r)
    <3>1. view' = [view EXCEPT ![r].before = Balance(Student(r)), ![r].journal = TRUE]
      BY <2>0, <2>4 DEF JournalRow
    <3> QED
      BY <3>1 DEF FInv, TypeOK
  <2> QED
    BY <2>1, <2>2, <2>3, <2>4
<1> QED
  BY <1>1, <1>2

LEMMA BeginKeepsRInv ==
    ASSUME FInv, JInv, RInv, NEW r \in Requests, Begin(r)
    PROVE  RInv'
<1>1. Quiet(r)
  BY QuietBegin
<1>2. ASSUME NEW d \in Dues, NEW a \in Amounts, NEW k \in Keys \cup {None}, BeginPayment(r, d, a, k)
      PROVE  RInv'
  <2>1. arg'[r].kind = "payment"
    BY <1>2 DEF BeginPayment, FInv, TypeOK
  <2> QED
    BY <1>1, <2>1, QuietKeepsRInv DEF OpenRefund
<1>3. ASSUME NEW p \in Requests, NEW a \in Amounts, NEW k \in Keys \cup {None}, BeginRefund(r, p, a, k)
      PROVE  RInv'
  <2>1. arg'[r].pay = p /\ view'[r].refunded = refunded[p]
    BY <1>3 DEF BeginRefund, FInv, TypeOK
  <2> QED
    BY <1>1, <2>1, QuietKeepsRInv
<1> QED
  BY <1>2, <1>3 DEF Begin

LEMMA PaymentKeepsRInv ==
    ASSUME FInv, JInv, RInv, NEW r \in Requests, CommitPayment(r)
    PROVE  RInv'
<1>1. /\ Commits(r) /\ arg' = arg /\ arg[r].kind = "payment"
      /\ refunded' = refunded /\ crossed' = crossed
  BY CommitsCommit DEF CommitPayment
<1>2. Applied("refund")' = Applied("refund")
  BY <1>1, WhatCommits
<1>3. \A p : RefundUnits(p)' = RefundUnits(p)
  BY <1>1, <1>2 DEF RefundUnits
<1>4. ASSUME NEW q \in Requests PROVE RowsAccount(q)'
  BY <1>1, <1>3, <1>4 DEF RInv, RowsAccount
<1>5. ASSUME NEW q \in Requests PROVE ReadsRefunded(q)'
  <2>1. OpenRefund(q)' => OpenRefund(q) /\ q # r /\ view'[q] = view[q]
    BY <1>1, <1>5 DEF Commits, OthersStand, OpenRefund, Running
  <2>2. TookEffect(q)' <=> TookEffect(q)
    BY <1>1, <1>2 DEF TookEffect, SameRefund
  <2>3. ReadsRefunded(q)
    BY <1>5 DEF RInv
  <2> QED
    BY <1>1, <1>3, <2>1, <2>2, <2>3 DEF ReadsRefunded
<1> QED
  BY <1>4, <1>5 DEF RInv

LEMMA RefundKeepsRInv ==
    ASSUME FInv, JInv, KInv, RInv, NEW r \in Requests, CommitRefund(r)
    PROVE  RInv'
<1> DEFINE p == arg[r].pay
           a == arg[r].amount
           Returned(q) == Cardinality(RefundUnits(q))
<1>1. /\ Commits(r) /\ arg' = arg /\ arg[r].kind = "refund" /\ pc[r] = "commit"
      /\ p \in Requests /\ a \in Nat /\ view[r].refunded \in Nat
  BY CommitsCommit, CommitFacts DEF CommitRefund, RequestOK, Running, Payments
<1>2. /\ refunded'[p] = view[r].refunded + a
      /\ \A q \in Requests \ {p} : refunded'[q] = refunded[q]
      /\ \A q \in Requests : refunded[q] \in Nat /\ refunded'[q] \in Nat
  <2>1. refunded' = [refunded EXCEPT ![p] = view[r].refunded + a] /\ refunded \in [Requests -> Nat]
    BY DEF CommitRefund, FInv, TypeOK
  <2>2. view[r].refunded + a \in Nat
    BY <1>1
  <2> HIDE DEF p, a
  <2> QED
    BY <1>1, <2>1, <2>2
<1>3. /\ crossed \subseteq crossed' /\ crossed' \subseteq crossed \cup {p}
      /\ p \notin crossed' => ~Crosses(r)
  BY DEF CommitRefund
<1>4. ASSUME NEW q \in Requests PROVE Returned(q) \in Nat /\ Returned(q)' = Returned(q) + (IF q = p THEN a ELSE 0)
  <2>1. /\ Cardinality(RefundUnits(q)) \in Nat
        /\ Cardinality(RefundUnits(q))' =
              Cardinality(RefundUnits(q)) + (IF q = arg[r].pay THEN arg[r].amount ELSE 0)
    BY <1>4, RefundAddsUnits
  <2> QED
    BY <2>1
<1>5. Applied("refund")' = Applied("refund") \cup {r}
  BY <1>1, WhatCommits
<1>6. /\ view[r].refunded <= Returned(p)
      /\ p \notin crossed => view[r].refunded = Returned(p)
  <2>1. OpenRefund(r) /\ ReadsRefunded(r) /\ RowsAccount(p)
    BY <1>1 DEF RInv, OpenRefund, Running
  <2>2. ~TookEffect(r)
    BY <1>1 DEF KInv, PastCheckOK, PastCheck, TookEffect
  <2> QED
    BY <2>1, <2>2 DEF ReadsRefunded, RowsAccount
<1> HIDE DEF Returned
<1>7. ASSUME NEW q \in Requests PROVE refunded'[q] <= Returned(q)' /\ (q \notin crossed' => refunded'[q] = Returned(q)')
  <2>1. refunded[q] <= Returned(q) /\ (q \notin crossed => refunded[q] = Returned(q))
    BY <1>7 DEF RInv, RowsAccount, Returned
  <2>2. CASE q = p
    BY <1>1, <1>2, <1>3, <1>4, <1>6, <2>2
  <2>3. CASE q # p
    BY <1>2, <1>3, <1>4, <1>7, <2>1, <2>3
  <2> QED
    BY <2>2, <2>3
<1>8. ASSUME NEW q \in Requests, OpenRefund(q)'
      PROVE  \E x \in Requests :
                /\ x = arg[q].pay
                /\ view'[q].refunded <= Returned(x)'
                /\ x \in crossed' \/ TookEffect(q)' \/ view'[q].refunded = refunded'[x]
  <2>1. q # r /\ OpenRefund(q) /\ view'[q] = view[q] /\ view[q].refunded \in Nat /\ arg[q].pay \in Requests
    <3>1. q # r /\ OpenRefund(q) /\ view'[q] = view[q]
      BY <1>1, <1>8 DEF Commits, OthersStand, OpenRefund, Running
    <3> QED
      BY <3>1 DEF FInv, TypeOK, RequestOK, OpenRefund, Payments
  <2>2. PICK x \in Requests : x = arg[q].pay
    BY <2>1
  <2>3. /\ view[q].refunded <= Returned(x)
        /\ x \in crossed \/ TookEffect(q) \/ view[q].refunded = refunded[x]
    BY <1>8, <2>1, <2>2 DEF RInv, ReadsRefunded, Returned
  <2>4. view'[q].refunded <= Returned(x)'
    <3>1. Returned(x) \in Nat /\ Returned(x)' \in Nat /\ Returned(x) <= Returned(x)'
      BY <1>1, <1>4
    <3> QED
      BY <2>1, <2>3, <3>1
  <2>5. TookEffect(q) => TookEffect(q)'
    BY <1>1, <1>5 DEF TookEffect, SameRefund
  <2>6. CASE x = p
    <3>1. Crosses(r) \/ SameRefund(q, r)
      BY <2>1, <2>2, <2>6 DEF Crosses, OpenRefund
    <3>2. SameRefund(q, r) => TookEffect(q)'
      BY <1>1, <1>5 DEF TookEffect, SameRefund
    <3> QED
      BY <1>3, <2>2, <2>4, <2>6, <3>1, <3>2
  <2>7. CASE x # p
    BY <1>2, <1>3, <2>1, <2>2, <2>3, <2>4, <2>5, <2>7
  <2> QED
    BY <2>6, <2>7
<1>9. ASSUME NEW q \in Requests PROVE ReadsRefunded(q)'
  <2>1. CASE OpenRefund(q)'
    <3>1. PICK x \in Requests : /\ x = arg[q].pay
                                /\ view'[q].refunded <= Cardinality(RefundUnits(x))'
                                /\ x \in crossed' \/ TookEffect(q)' \/ view'[q].refunded = refunded'[x]
      BY <1>8, <2>1 DEF Returned
    <3>2. arg'[q].pay = x
      BY <1>1, <3>1
    <3> QED
      BY <3>1, <3>2 DEF ReadsRefunded
  <2>2. CASE ~OpenRefund(q)'
    BY <2>2 DEF ReadsRefunded
  <2> QED
    BY <2>1, <2>2
<1> QED
  BY <1>7, <1>9 DEF RInv, RowsAccount, Returned

LEMMA RInvStep ==
    ASSUME FInv, JInv, KInv, RInv, [Next]_vars
    PROVE  RInv'
<1>1. CASE UNCHANGED vars
  BY <1>1 DEF vars, db, RInv, RowsAccount, ReadsRefunded, OpenRefund, Running, RefundUnits, Applied,
              TookEffect, SameRefund
<1>2. ASSUME NEW s \in Students, CreateDues(s) PROVE RInv'
  BY <1>2 DEF CreateDues, RInv, RowsAccount, ReadsRefunded, OpenRefund, Running, RefundUnits, Applied,
              TookEffect, SameRefund
<1>3. ASSUME NEW r \in Requests, Begin(r) PROVE RInv'
  BY <1>3, BeginKeepsRInv
<1>4. ASSUME NEW r \in Requests, Step(r) \/ Abort(r), ~CommitPayment(r), ~CommitRefund(r) PROVE RInv'
  <2>1. \/ LockDueForPayment(r) \/ InsertPayment(r) \/ LockPayment(r) \/ LockDueForRefund(r)
        \/ LookupLedger(r) \/ JournalRow(r) \/ BreakDeadlock(r) \/ Abort(r)
    BY <1>4 DEF Step
  <2>2. Quiet(r) /\ pc[r] # "idle"
    BY <2>1, QuietStep
  <2>3. OpenRefund(r)' => OpenRefund(r) /\ arg'[r] = arg[r] /\ view'[r].refunded = view[r].refunded
    BY <2>1, <2>2, CopyIsKept DEF Quiet, OpenRefund, Running
  <2> QED
    BY <2>2, <2>3, QuietKeepsRInv
<1>5. ASSUME NEW r \in Requests, CommitPayment(r) \/ CommitRefund(r) PROVE RInv'
  BY <1>5, PaymentKeepsRInv, RefundKeepsRInv
<1> QED
  BY <1>1, <1>2, <1>3, <1>4, <1>5 DEF Next

(* For every set of requests and every interleaving of them, crashes,      *)
(* deadlocks and retries included: a payment row never says that more was  *)
(* returned than refunds returned, nor more than was paid; and the refunds *)
(* add up to what it says, unless two different refunds of it overlapped.  *)
THEOREM RefundsAddUp == Spec => []NoDoubleRefund
<1>1. Init => FInv /\ JInv /\ KInv /\ RInv
  BY InitEstablishes, JInvInit, KInvInit, RInvInit
<1>2. FInv /\ JInv /\ KInv /\ RInv /\ [Next]_vars => (FInv /\ JInv /\ KInv /\ RInv)'
  BY NextPreserves, JInvStep, KInvStep, RInvStep
<1>3. ASSUME FInv, RInv PROVE NoDoubleRefund
  <2>1. ASSUME NEW p \in Payments
        PROVE  p \in Requests /\ refunded[p] <= arg[p].amount /\ RowsAccount(p)
    BY <1>3, <2>1 DEF FInv, PaymentOK, Payments, RInv
  <2> QED
    BY <2>1 DEF NoDoubleRefund, RowsAccount
<1> QED
  BY <1>1, <1>2, <1>3, PTL DEF Spec
-----------------------------------------------------------------------------
(* A request that commits has one ledger row.                              *)
LEMMA RowOnce ==
    ASSUME Disciplined, NInv, NEW r \in Requests, Commits(r)
    PROVE  \A q \in Requests : JournaledOnce(q)'
<1> USE DEF Commits, OthersStand
<1>1. ledger' = Append(ledger, Row(r)) /\ outcome[r] # "applied"
  BY DEF Disciplined, SInv, WillJournal, LedgerAfter, JInv
<1> DEFINE n == Len(ledger)
<1>2. /\ n \in Nat /\ DOMAIN ledger = 1..n /\ DOMAIN ledger' = 1..(n + 1)
      /\ ledger'[n + 1] = Row(r) /\ \A i \in 1..n : ledger'[i] = ledger[i]
  BY <1>1, LedgerGrows DEF Disciplined, FInv
<1>3. ledger'[n + 1].by = r
  BY <1>2 DEF Row
<1> HIDE DEF n
<1>4. CASE TRUE
  <2>1. \A j \in 1..n : ledger'[j].by # r
    BY <1>1, <1>2 DEF NInv, JournaledOnce
  <2>2. JournaledOnce(r)'
    <3>1. /\ n + 1 \in DOMAIN ledger'
          /\ \A j \in DOMAIN ledger' : ledger'[j].by = r <=> j = n + 1
      BY <1>2, <1>3, <2>1
    <3>2. \E i \in DOMAIN ledger' : \A j \in DOMAIN ledger' : ledger'[j].by = r <=> j = i
      BY <3>1
    <3>3. outcome'[r] = "applied"
      OBVIOUS
    <3> QED
      BY <3>2, <3>3 DEF JournaledOnce
  <2>3. ASSUME NEW q \in Requests, q # r PROVE JournaledOnce(q)'
    <3>1. JournaledOnce(q) /\ outcome'[q] = outcome[q]
      BY <2>3 DEF NInv
    <3>2. CASE outcome[q] = "applied"
      <4>1. PICK i \in DOMAIN ledger : \A j \in DOMAIN ledger : ledger[j].by = q <=> j = i
        BY <3>1, <3>2 DEF JournaledOnce
      <4>2. i \in DOMAIN ledger' /\ \A j \in DOMAIN ledger' : ledger'[j].by = q <=> j = i
        BY <1>2, <1>3, <2>3, <4>1
      <4> QED
        BY <3>1, <3>2, <4>2 DEF JournaledOnce
    <3>3. CASE outcome[q] # "applied"
      BY <1>2, <1>3, <2>3, <3>1, <3>3 DEF JournaledOnce
    <3> QED
      BY <3>2, <3>3
  <2> QED
    BY <2>2, <2>3
<1> QED
  BY <1>4

(* A commit moves the balance of one student by the amount.                *)
LEMMA CommitMovesBalance ==
    ASSUME Disciplined, NEW r \in Requests, Commits(r), NEW s
    PROVE  Balance(s)' = IF s # Student(r) THEN Balance(s)
                         ELSE IF arg[r].kind = "payment" THEN Balance(s) + arg[r].amount
                         ELSE Balance(s) - arg[r].amount
<1>1. /\ pc[r] = "commit" /\ arg' = arg /\ ledger' = Append(ledger, Row(r))
      /\ view[r].before = Balance(Student(r))
  BY DEF Disciplined, SInv, WillJournal, LedgerAfter, CInv, KnowsBalance, Commits
<1>2. Balance(s)' = IF s = Student(r) THEN Row(r).after ELSE Balance(s)
  BY <1>1, RowMovesBalance DEF Disciplined
<1>3. Row(r).after = view[r].before + (IF arg[r].kind = "payment" THEN arg[r].amount ELSE -arg[r].amount)
  BY DEF Row
<1>4. arg[r].amount \in Int /\ view[r].before \in Int
  BY <1>1, CommitFacts DEF Disciplined, FInv, TypeOK
<1> QED
  BY <1>1, <1>2, <1>3, <1>4

LEMMA PaymentKeepsMoney ==
    ASSUME Disciplined, NInv, NEW r \in Requests, CommitPayment(r)
    PROVE  NInv'
<1> DEFINE d == arg[r].due
           a == arg[r].amount
           old == dues[d].paid
<1>1. Commits(r) /\ FInv /\ JInv
  BY CommitsCommit DEF Disciplined
<1>2. /\ d \in Dues /\ a \in Nat /\ a \in Amounts /\ old \in Nat /\ view[r].paid = old
      /\ arg[r].kind = "payment" /\ StudentOf[d] \in Students
      /\ outcome[r] # "applied" /\ pstatus[r] = "none" /\ refunded[r] = 0 /\ outcome'[r] = "applied"
      /\ arg' = arg
  <2>1. d \in Dues /\ a \in Nat /\ a \in Amounts /\ view[r].paid = old /\ arg[r].kind = "payment"
    BY <1>1, CommitFacts DEF CommitPayment, HoldsDue
  <2>2. old \in Nat /\ StudentOf[d] \in Students
    BY <1>1, <2>1, FeeAssumption DEF FInv, TypeOK
  <2>3. outcome[r] # "applied" /\ outcome'[r] = "applied" /\ arg' = arg
    BY <1>1 DEF Commits, JInv
  <2>4. pstatus[r] = "none" /\ refunded[r] = 0
    BY <1>1 DEF Commits, FInv, PaymentOK
  <2> QED
    BY <2>1, <2>2, <2>3, <2>4
<1>3. /\ refunded' = refunded /\ pstatus' = [pstatus EXCEPT ![r] = "completed"]
      /\ dues'[d].paid = old + a /\ \A e \in Dues \ {d} : dues'[e] = dues[e]
  BY <1>1, <1>2 DEF CommitPayment, FInv, TypeOK
<1>4. ASSUME NEW p \in Requests PROVE Cardinality(RefundUnits(p))' = refunded'[p]
  <2>1. Applied("refund")' = Applied("refund")
    BY <1>1, <1>2, WhatCommits DEF CommitPayment
  <2>2. RefundUnits(p)' = RefundUnits(p)
    BY <1>2, <2>1 DEF RefundUnits
  <2> QED
    BY <1>3, <2>2 DEF NInv
<1> HIDE DEF d, a, old
<1>5. ASSUME NEW e \in Dues PROVE Cardinality(NetUnits(e))' = dues'[e].paid
  <2>1. CASE e = d
    <3> DEFINE D == {r} \X (1..a)
    <3>1. NetUnits(e)' = NetUnits(e) \cup D
      <4>1. \A q \in Requests : pstatus'[q] # "none" <=> (q = r \/ pstatus[q] # "none")
        BY <1>1, <1>3 DEF FInv, TypeOK
      <4>2. \A n \in Amounts : n \in Nat \ {0}
        BY FeeAssumption DEF Amounts
      <4>3. \A n \in 1..a : n \in Amounts /\ 0 < n /\ n <= a
        BY <1>2, FeeAssumption DEF Amounts
      <4>4. NetUnits(e) \subseteq NetUnits(e)'
        BY <1>2, <1>3, <4>1 DEF NetUnits
      <4>5. {r} \X (1..a) \subseteq NetUnits(e)'
        BY <1>2, <1>3, <2>1, <4>1, <4>3 DEF NetUnits, d, a
      <4>6. ASSUME NEW u \in NetUnits(e)' PROVE u \in NetUnits(e) \cup ({r} \X (1..a))
        <5>1. CASE u[1] = r
          BY <1>2, <4>2, <4>6, <5>1 DEF NetUnits, a
        <5>2. CASE u[1] # r
          BY <1>2, <1>3, <4>1, <4>6, <5>2 DEF NetUnits
        <5> QED
          BY <5>1, <5>2
      <4> QED
        BY <4>4, <4>5, <4>6
    <3>2. NetUnits(e) \cap D = {}
      BY <1>2 DEF NetUnits
    <3>3. IsFiniteSet(D) /\ Cardinality(D) = a
      BY <1>2, FirstUnits
    <3> HIDE DEF D
    <3>4. Cardinality(NetUnits(e) \cup D) = Cardinality(NetUnits(e)) + Cardinality(D)
      BY <1>5, <3>2, <3>3, UnitSetsFinite, DisjointUnits
    <3>5. Cardinality(NetUnits(e)) = old
      BY <1>5, <2>1 DEF NInv, old
    <3> QED
      BY <1>3, <2>1, <3>1, <3>3, <3>4, <3>5
  <2>2. CASE e # d
    <3>1. NetUnits(e)' = NetUnits(e)
      BY <1>1, <1>2, <1>3, <2>2 DEF NetUnits, FInv, TypeOK, d
    <3> QED
      BY <1>3, <1>5, <2>2, <3>1 DEF NInv
  <2> QED
    BY <2>1, <2>2
<1>6. ASSUME NEW s \in Students PROVE (IsFiniteSet(DueUnits(s)) /\ Cardinality(DueUnits(s)) = Balance(s))'
  <2>1. IsFiniteSet(DueUnits(s)) /\ Cardinality(DueUnits(s)) = Balance(s)
    BY <1>6 DEF NInv
  <2>2. Balance(s)' = IF s # Student(r) THEN Balance(s) ELSE Balance(s) + a
    BY <1>1, <1>2, CommitMovesBalance DEF a
  <2>3. CASE s = StudentOf[d]
    <3> DEFINE D == {d} \X ((old + 1)..(old + a))
    <3>1. DueUnits(s)' = DueUnits(s) \cup D
      <4>1. \A e \in Dues : dues'[e].paid = IF e = d THEN old + a ELSE dues[e].paid
        BY <1>3
      <4>2. dues[d].paid = old
        BY DEF old
      <4>3. DueUnits(s) \subseteq DueUnits(s)'
        BY <1>2, <4>1, <4>2 DEF DueUnits
      <4>4. {d} \X ((old + 1)..(old + a)) \subseteq DueUnits(s)'
        BY <1>2, <2>3, <4>1 DEF DueUnits
      <4>5. DueUnits(s)' \subseteq DueUnits(s) \cup ({d} \X ((old + 1)..(old + a)))
        BY <1>2, <4>1, <4>2 DEF DueUnits
      <4> QED
        BY <4>3, <4>4, <4>5
    <3>2. DueUnits(s) \cap D = {}
      BY <1>2 DEF DueUnits, old
    <3>3. IsFiniteSet(D) /\ Cardinality(D) = a
      <4>1. /\ old + a \in Nat /\ old + 1 \in Nat \ {0} /\ old + 1 <= (old + a) + 1
            /\ (old + a) - (old + 1) + 1 = a
        BY <1>2
      <4> QED
        BY <4>1, Strip
    <3> HIDE DEF D
    <3>4. /\ IsFiniteSet(DueUnits(s) \cup D)
          /\ Cardinality(DueUnits(s) \cup D) = Cardinality(DueUnits(s)) + Cardinality(D)
      BY <2>1, <3>2, <3>3, DisjointUnits
    <3> QED
      BY <2>1, <2>2, <2>3, <3>1, <3>3, <3>4 DEF Student, d
  <2>4. CASE s # StudentOf[d]
    <3>1. DueUnits(s)' = DueUnits(s)
      BY <1>3, <2>4 DEF DueUnits
    <3> QED
      BY <2>1, <2>2, <2>4, <3>1 DEF Student, d
  <2> QED
    BY <2>3, <2>4
<1> QED
  BY <1>1, <1>4, <1>5, <1>6, RowOnce DEF NInv
-----------------------------------------------------------------------------
LEMMA RefundKeepsMoney ==
    ASSUME Disciplined, NInv, NEW r \in Requests, CommitRefund(r)
    PROVE  NInv'
<1> DEFINE d == arg[r].due
           p == arg[r].pay
           a == arg[r].amount
           old == dues[d].paid
           back == refunded[p]
<1>1. Commits(r) /\ FInv /\ JInv
  BY CommitsCommit DEF Disciplined
<1>2. /\ d \in Dues /\ p \in Requests /\ a \in Nat /\ a \in Amounts /\ old \in Nat
      /\ view[r].paid = old /\ a <= old /\ view[r].refunded = back /\ back \in Nat
      /\ arg[r].kind = "refund" /\ StudentOf[d] \in Students
  <2>1. d \in Dues /\ a \in Nat /\ a \in Amounts /\ view[r].paid = old /\ arg[r].kind = "refund" /\ a <= old
        /\ RequestOK(r) /\ OpenRefund(r)
    BY <1>1, CommitFacts DEF CommitRefund, HoldsDue, OpenRefund, Running
  <2>2. p \in Requests /\ view[r].refunded = back
    BY <2>1 DEF RequestOK, OpenRefund, Payments, Disciplined, SInv, SeesRefunded
  <2>3. old \in Nat /\ StudentOf[d] \in Students /\ back \in Nat
    BY <1>1, <2>1, <2>2, FeeAssumption DEF FInv, TypeOK
  <2> QED
    BY <2>1, <2>2, <2>3
<1>3. /\ outcome[r] # "applied" /\ outcome'[r] = "applied" /\ arg' = arg
      /\ pstatus[p] # "none" /\ arg[p].due = d /\ back + a <= arg[p].amount /\ arg[p].amount \in Amounts
  <2>1. outcome[r] # "applied" /\ outcome'[r] = "applied" /\ arg' = arg /\ RequestOK(r) /\ Running(r)
    BY <1>1 DEF Commits, JInv, FInv, Running
  <2>2. pstatus[p] # "none" /\ arg[p].due = d /\ a <= arg[p].amount - back
    BY <1>1, <1>2, <2>1 DEF RequestOK, Commits, Payments
  <2>3. arg[p].amount \in Amounts
    BY <1>1, <1>2, <2>2 DEF FInv, PaymentOK
  <2>4. back + a <= arg[p].amount
    BY <1>2, <2>2, <2>3, FeeAssumption DEF Amounts
  <2> QED
    BY <2>1, <2>2, <2>3, <2>4
<1>4. /\ refunded' = [refunded EXCEPT ![p] = back + a]
      /\ \A q \in Requests : pstatus'[q] # "none" <=> pstatus[q] # "none"
      /\ dues'[d].paid = old - a /\ \A e \in Dues \ {d} : dues'[e] = dues[e]
  BY <1>1, <1>2, <1>3 DEF CommitRefund, FInv, TypeOK, PaymentStatus
<1>5. refunded'[p] = back + a /\ \A q \in Requests \ {p} : refunded'[q] = refunded[q]
  BY <1>1, <1>2, <1>4 DEF FInv, TypeOK
<1>6. Applied("refund")' = Applied("refund") \cup {r} /\ r \notin Applied("refund")
  BY <1>1, <1>2, <1>3, WhatCommits DEF CommitRefund, Applied
<1>7. arg[r].pay = p /\ arg[r].amount = a /\ dues[d].paid = old /\ refunded[p] = back
  OBVIOUS
<1> HIDE DEF d, p, a, old, back
<1>8. ASSUME NEW q \in Requests PROVE Cardinality(RefundUnits(q))' = refunded'[q]
  <2>1. Cardinality(RefundUnits(q))' = Cardinality(RefundUnits(q)) + (IF q = p THEN a ELSE 0)
    BY <1>1, <1>7, <1>8, RefundAddsUnits
  <2>2. Cardinality(RefundUnits(q)) = refunded[q] /\ refunded[q] \in Nat
    BY <1>1, <1>8 DEF NInv, FInv, TypeOK
  <2> QED
    BY <1>2, <1>5, <1>7, <1>8, <2>1, <2>2
<1>9. ASSUME NEW e \in Dues PROVE Cardinality(NetUnits(e))' = dues'[e].paid
  <2>1. CASE e = d
    <3> DEFINE D == {p} \X ((back + 1)..(back + a))
    <3>1. NetUnits(e) = NetUnits(e)' \cup D
      <4>1. \A n \in Amounts : n \in Nat
        BY FeeAssumption DEF Amounts
      <4>2. \A n \in (back + 1)..(back + a) : n \in Amounts /\ back < n /\ n <= arg[p].amount
        BY <1>2, <1>3, FeeAssumption DEF Amounts
      <4>3. NetUnits(e)' \subseteq NetUnits(e)
        <5>1. ASSUME NEW u \in NetUnits(e)' PROVE refunded[u[1]] < u[2]
          <6>1. u[1] \in Requests /\ u[2] \in Nat /\ refunded'[u[1]] < u[2]
            BY <4>1, <5>1 DEF NetUnits
          <6> QED
            BY <1>2, <1>5, <1>7, <6>1
        <5> QED
          BY <1>3, <1>4, <5>1 DEF NetUnits
      <4>4. D \subseteq NetUnits(e)
        BY <1>2, <1>3, <1>7, <2>1, <4>2 DEF NetUnits
      <4>5. ASSUME NEW u \in NetUnits(e) PROVE u \in NetUnits(e)' \cup D
        <5>1. u[1] \in Requests /\ u[2] \in Nat /\ u = <<u[1], u[2]>>
          BY <4>1, <4>5 DEF NetUnits
        <5>2. CASE refunded'[u[1]] < u[2]
          BY <1>3, <1>4, <4>5, <5>2 DEF NetUnits
        <5>3. CASE ~(refunded'[u[1]] < u[2])
          <6>1. refunded[u[1]] < u[2]
            BY <4>5 DEF NetUnits
          <6>2. u[1] = p
            BY <1>5, <5>1, <5>3, <6>1
          <6>3. u[2] \in (back + 1)..(back + a)
            BY <1>2, <1>5, <1>7, <5>1, <5>3, <6>1, <6>2
          <6> QED
            BY <5>1, <6>2, <6>3
        <5> QED
          BY <5>2, <5>3
      <4> QED
        BY <4>3, <4>4, <4>5
    <3>2. NetUnits(e)' \cap D = {}
      BY <1>2, <1>5 DEF NetUnits
    <3>3. IsFiniteSet(D) /\ Cardinality(D) = a
      <4>1. back + 1 \in Nat \ {0} /\ back + a \in Nat /\ back + 1 <= (back + a) + 1
            /\ (back + a) - (back + 1) + 1 = a
        BY <1>2
      <4> QED
        BY <4>1, Strip
    <3>4. IsFiniteSet(NetUnits(e)')
      <4>1. NetUnits(e)' \in SUBSET NetUnits(e)
        BY <3>1
      <4>2. IsFiniteSet(NetUnits(e))
        BY <1>9, UnitSetsFinite
      <4> HIDE DEF D
      <4> QED
        BY <4>1, <4>2, FS_Subset
    <3> HIDE DEF D
    <3>5. Cardinality(NetUnits(e)' \cup D) = Cardinality(NetUnits(e)') + Cardinality(D) /\ Cardinality(NetUnits(e)') \in Nat
      BY <3>2, <3>3, <3>4, DisjointUnits, FS_CardinalityType
    <3>6. Cardinality(NetUnits(e)) = old
      BY <1>7, <1>9, <2>1 DEF NInv
    <3>7. Cardinality(NetUnits(e)') = old - a
      BY <1>2, <3>1, <3>3, <3>5, <3>6
    <3> QED
      BY <1>4, <2>1, <3>7
  <2>2. CASE e # d
    <3>1. NetUnits(e)' = NetUnits(e)
      <4>1. \A q \in Requests : arg[q].due = e => refunded'[q] = refunded[q]
        BY <1>3, <1>5, <2>2
      <4> QED
        BY <1>3, <1>4, <4>1 DEF NetUnits
    <3> QED
      BY <1>4, <1>9, <2>2, <3>1 DEF NInv
  <2> QED
    BY <2>1, <2>2
<1>10. ASSUME NEW s \in Students PROVE (IsFiniteSet(DueUnits(s)) /\ Cardinality(DueUnits(s)) = Balance(s))'
  <2>1. IsFiniteSet(DueUnits(s)) /\ Cardinality(DueUnits(s)) = Balance(s)
    BY <1>10 DEF NInv
  <2>2. Balance(s)' = IF s # Student(r) THEN Balance(s) ELSE Balance(s) - a
    BY <1>1, <1>2, <1>7, CommitMovesBalance
  <2>3. CASE s = StudentOf[d]
    <3> DEFINE D == {d} \X ((old - a + 1)..old)
    <3>0. \A e \in Dues : dues'[e].paid = IF e = d THEN old - a ELSE dues[e].paid
      BY <1>4
    <3>1. DueUnits(s) = DueUnits(s)' \cup D
      <4>1. DueUnits(s)' \subseteq DueUnits(s)
        BY <1>2, <1>7, <3>0 DEF DueUnits
      <4>2. D \subseteq DueUnits(s)
        BY <1>2, <1>7, <2>3 DEF DueUnits
      <4>3. DueUnits(s) \subseteq DueUnits(s)' \cup D
        BY <1>2, <1>7, <3>0 DEF DueUnits
      <4> QED
        BY <4>1, <4>2, <4>3
    <3>2. DueUnits(s)' \cap D = {}
      BY <1>2, <3>0 DEF DueUnits
    <3>3. IsFiniteSet(D) /\ Cardinality(D) = a
      <4>1. old - a + 1 \in Nat \ {0} /\ old \in Nat /\ old - a + 1 <= old + 1
            /\ old - (old - a + 1) + 1 = a
        BY <1>2
      <4> QED
        BY <4>1, Strip
    <3>4. IsFiniteSet(DueUnits(s)')
      BY <2>1, <3>1, FS_Subset
    <3> HIDE DEF D
    <3>5. Cardinality(DueUnits(s)' \cup D) = Cardinality(DueUnits(s)') + Cardinality(D) /\ Cardinality(DueUnits(s)') \in Nat
      BY <3>2, <3>3, <3>4, DisjointUnits, FS_CardinalityType
    <3> QED
      BY <1>2, <2>1, <2>2, <2>3, <3>1, <3>3, <3>4, <3>5 DEF Student, d
  <2>4. CASE s # StudentOf[d]
    <3>1. DueUnits(s)' = DueUnits(s)
      BY <1>4, <2>4 DEF DueUnits
    <3> QED
      BY <2>1, <2>2, <2>4, <3>1 DEF Student, d
  <2> QED
    BY <2>3, <2>4
<1> QED
  BY <1>1, <1>8, <1>9, <1>10, RowOnce DEF NInv
-----------------------------------------------------------------------------
(* Steps that move money are commits.                                      *)
PaidStands == \A d \in Dues : dues'[d].paid = dues[d].paid

LEMMA MoneyKinds ==
    ASSUME FInv, [Next]_vars
    PROVE  \/ \E r \in Requests : CommitPayment(r) \/ CommitRefund(r)
           \/ \E r \in Requests : Quiet(r)
           \/ NobodyMoves /\ PaidStands
<1>1. CASE UNCHANGED vars
  BY <1>1 DEF vars, db, NobodyMoves, PaidStands
<1>2. ASSUME NEW s \in Students, CreateDues(s) PROVE NobodyMoves /\ PaidStands
  <2>1. ASSUME NEW d \in Dues PROVE dues'[d].paid = dues[d].paid
    <3>1. StudentOf[d] = s => dues[d].paid = 0
      BY <1>2, <2>1 DEF CreateDues, FInv, DueOK
    <3> QED
      BY <1>2, <2>1, <3>1 DEF CreateDues
  <2> QED
    BY <1>2, <2>1 DEF CreateDues, NobodyMoves, PaidStands
<1>3. ASSUME NEW r \in Requests, Begin(r) PROVE Quiet(r)
  BY <1>3, QuietBegin
<1>4. ASSUME NEW r \in Requests, Step(r) \/ Abort(r)
      PROVE  Quiet(r) \/ CommitPayment(r) \/ CommitRefund(r)
  BY <1>4, QuietStep DEF Step
<1> QED
  BY <1>1, <1>2, <1>3, <1>4 DEF Next

LEMMA NInvStep ==
    ASSUME Disciplined, NInv, [SerialNext]_vars
    PROVE  NInv'
<1>1. ASSUME NEW r \in Requests, Quiet(r) PROVE NInv'
  <2>1. outcome[r] = "none"
    BY <1>1 DEF Quiet, Disciplined, JInv, FInv, TypeOK, Outcomes
  <2>2. \A q \in Requests : outcome'[q] = "applied" <=> outcome[q] = "applied"
    BY <1>1, <2>1 DEF Quiet, OthersStand
  <2> QED
    BY <1>1, <2>2, QuietKeepsApplied, MoneyStands DEF Quiet, Disciplined
<1>2. ASSUME NobodyMoves, PaidStands PROVE NInv'
  BY <1>2, MoneyStands DEF NobodyMoves, PaidStands, Disciplined
<1>3. [Next]_vars
  BY SerialIsNext
<1> QED
  BY <1>1, <1>2, <1>3, MoneyKinds, PaymentKeepsMoney, RefundKeepsMoney DEF Disciplined

LEMMA MoneyInvariance == SerialSpec => [](Disciplined /\ NInv)
<1>1. Disciplined /\ NInv /\ [SerialNext]_vars => NInv'
  BY NInvStep
<1>2. Init => NInv
  BY NInvInit
<1> QED
  BY <1>1, <1>2, SerialInvariance, PTL DEF SerialSpec

(* For every set of requests, dues and students under disciplined clients: *)
(* the dues, the payments, the student balances, the ledger rows, the      *)
(* audit rows and the outbox all tell of the same money.                   *)
THEOREM AccountsAgree == SerialSpec => []AmountsAgree
<1>1. ASSUME Disciplined, NInv PROVE AmountsAgree
  <2>1. \A d \in Dues : dues[d].paid = Cardinality(NetUnits(d))
    BY <1>1 DEF NInv
  <2>2. ASSUME NEW s \in Students
        PROVE  Balance(s) = Cardinality(UNION {{d} \X (1..dues[d].paid) :
                                                  d \in {e \in Dues : StudentOf[e] = s}})
    <3> DEFINE U == UNION {{d} \X (1..dues[d].paid) : d \in {e \in Dues : StudentOf[e] = s}}
    <3>1. \A d \in Dues : dues[d].paid \in Nat
      BY <1>1 DEF Disciplined, FInv, TypeOK
    <3>2. U = DueUnits(s)
      <4>1. U \subseteq DueUnits(s)
        BY <3>1 DEF DueUnits
      <4>2. DueUnits(s) \subseteq U
        BY <3>1 DEF DueUnits
      <4> QED
        BY <4>1, <4>2
    <3> HIDE DEF U
    <3>3. Balance(s) = Cardinality(U)
      BY <1>1, <2>2, <3>2 DEF NInv
    <3> QED
      BY <3>3 DEF U
  <2>3. audited = Applied("payment") \cup Applied("refund") /\ outbox \subseteq Payments
    BY <1>1 DEF Disciplined, JInv
  <2>4. ASSUME NEW r \in Requests
        PROVE  Cardinality({i \in DOMAIN ledger : ledger[i].by = r}) = (IF r \in audited THEN 1 ELSE 0)
    <3> DEFINE R == {i \in DOMAIN ledger : ledger[i].by = r}
    <3>1. r \in audited <=> outcome[r] = "applied"
      BY <1>1, <2>3, <2>4 DEF Disciplined, JInv, AppliedOK, Applied
    <3>2. CASE outcome[r] = "applied"
      <4>1. PICK i \in DOMAIN ledger : \A j \in DOMAIN ledger : ledger[j].by = r <=> j = i
        BY <1>1, <2>4, <3>2 DEF NInv, JournaledOnce
      <4>2. R = {i}
        BY <4>1
      <4> HIDE DEF R
      <4>3. Cardinality(R) = 1
        BY <4>2, FS_Singleton
      <4> QED
        BY <3>1, <3>2, <4>3 DEF R
    <3>3. CASE outcome[r] # "applied"
      <4>1. R = {}
        BY <1>1, <2>4, <3>3 DEF NInv, JournaledOnce
      <4> HIDE DEF R
      <4>2. Cardinality(R) = 0
        BY <4>1, FS_EmptySet
      <4> QED
        BY <3>1, <3>3, <4>2 DEF R
    <3> QED
      BY <3>2, <3>3
  <2> QED
    BY <2>1, <2>2, <2>3, <2>4 DEF AmountsAgree
<1> QED
  BY <1>1, MoneyInvariance, PTL
-----------------------------------------------------------------------------
(* The abstract account.                                                   *)

LEMMA AccountInit == Init => Account!Init
  BY DEF Init, Account!Init

LEMMA AccountStands ==
    ASSUME FInv, JInv, PaidStands, UNCHANGED <<pstatus, refunded>>,
           \A p \in Payments : arg'[p] = arg[p]
    PROVE  UNCHANGED Account!vars
  BY DEF PaidStands, Payments, Account!vars

LEMMA PaymentPays ==
    ASSUME Disciplined, NEW r \in Requests, CommitPayment(r)
    PROVE  Account!Next
<1> DEFINE d == arg[r].due
           a == arg[r].amount
<1>1. Commits(r) /\ FInv
  BY CommitsCommit DEF Disciplined
<1>2. /\ d \in Dues /\ a \in Amounts /\ a \in Nat /\ view[r].paid = dues[d].paid
      /\ dues[d].paid + a <= Original[d]
  BY <1>1, CommitFacts DEF CommitPayment, HoldsDue
<1>3. pstatus[r] = "none" /\ refunded[r] = 0
  BY <1>1 DEF Commits, FInv, PaymentOK
<1>4. /\ refunded' = refunded /\ pstatus' = [pstatus EXCEPT ![r] = "completed"] /\ arg' = arg
      /\ dues'[d].paid = dues[d].paid + a /\ \A e \in Dues \ {d} : dues'[e] = dues[e]
  BY <1>1, <1>2 DEF CommitPayment, FInv, TypeOK
<1>5. Account!Pay(r, d, a)
  <2>1. [p \in Requests |-> IF pstatus[p] = "none" THEN None ELSE arg[p].due][r] = None
    BY <1>3
  <2>2. [e \in Dues |-> dues[e].paid][d] + a <= Original[d]
    BY <1>2
  <2>3. [e \in Dues |-> dues'[e].paid] = [[e \in Dues |-> dues[e].paid] EXCEPT ![d] = @ + a]
    BY <1>2, <1>4
  <2>4. \A p \in Requests : pstatus'[p] = IF p = r THEN "completed" ELSE pstatus[p]
    BY <1>1, <1>4 DEF FInv, TypeOK
  <2>5. [p \in Requests |-> IF pstatus'[p] = "none" THEN 0 ELSE arg'[p].amount - refunded'[p]]
          = [[p \in Requests |-> IF pstatus[p] = "none" THEN 0 ELSE arg[p].amount - refunded[p]] EXCEPT ![r] = a]
    <3>1. \A p \in Requests : pstatus'[p] # "none" <=> p = r \/ pstatus[p] # "none"
      BY <2>4
    <3>2. a - refunded[r] = a
      BY <1>2, <1>3
    <3>3. \A p \in Requests :
             (IF pstatus'[p] = "none" THEN 0 ELSE arg'[p].amount - refunded'[p])
               = IF p = r THEN a ELSE IF pstatus[p] = "none" THEN 0 ELSE arg[p].amount - refunded[p]
      BY <1>4, <3>1, <3>2
    <3> HIDE DEF a
    <3> QED
      BY <3>3
  <2>6. [p \in Requests |-> IF pstatus'[p] = "none" THEN None ELSE arg'[p].due]
          = [[p \in Requests |-> IF pstatus[p] = "none" THEN None ELSE arg[p].due] EXCEPT ![r] = d]
    <3>1. \A p \in Requests : pstatus'[p] # "none" <=> p = r \/ pstatus[p] # "none"
      BY <2>4
    <3>2. \A p \in Requests :
             (IF pstatus'[p] = "none" THEN None ELSE arg'[p].due)
               = IF p = r THEN d ELSE IF pstatus[p] = "none" THEN None ELSE arg[p].due
      BY <1>4, <3>1
    <3> HIDE DEF d
    <3> QED
      BY <3>2
  <2> HIDE DEF d, a
  <2> QED
    BY <2>1, <2>2, <2>3, <2>5, <2>6 DEF Account!Pay
<1>6. \A x \in Dues, y \in Amounts : x = d /\ y = a => Account!Pay(r, x, y)
  BY <1>5 DEF Account!Pay
<1>7. PICK x \in Dues, y \in Amounts : x = d /\ y = a
  BY <1>2
<1>8. Account!Pay(r, x, y)
  BY <1>6, <1>7
<1> QED
  BY <1>8 DEF Account!Next

LEMMA RefundRefunds ==
    ASSUME Disciplined, NEW r \in Requests, CommitRefund(r)
    PROVE  Account!Next
<1> DEFINE d == arg[r].due
           p == arg[r].pay
           a == arg[r].amount
<1>1. Commits(r) /\ FInv
  BY CommitsCommit DEF Disciplined
<1>2. /\ d \in Dues /\ a \in Amounts /\ a \in Nat /\ view[r].paid = dues[d].paid
      /\ RequestOK(r) /\ OpenRefund(r) /\ dues[d].paid \in Nat
  BY <1>1, CommitFacts DEF CommitRefund, HoldsDue, OpenRefund, Running
<1>3. /\ p \in Requests /\ pstatus[p] # "none" /\ arg[p].due = d /\ view[r].refunded = refunded[p]
      /\ refunded[p] \in Nat /\ PaymentOK(p) /\ a <= arg[p].amount - view[r].refunded
  BY <1>1, <1>2 DEF RequestOK, OpenRefund, Commits, Payments, Disciplined, SInv, SeesRefunded, FInv, TypeOK
<1>4. arg[p].amount \in Nat
  BY <1>3, FeeAssumption DEF PaymentOK, Amounts
<1>5. /\ refunded' = [refunded EXCEPT ![p] = refunded[p] + a] /\ arg' = arg
      /\ \A q \in Requests : pstatus'[q] # "none" <=> pstatus[q] # "none"
      /\ dues'[d].paid = dues[d].paid - a /\ \A e \in Dues \ {d} : dues'[e] = dues[e]
  BY <1>1, <1>2, <1>3 DEF CommitRefund, FInv, TypeOK, PaymentStatus
<1>6. Account!Refund(p, a)
  <2>1. [q \in Requests |-> IF pstatus[q] = "none" THEN None ELSE arg[q].due][p] = d /\ d # None
    BY <1>2, <1>3, FeeAssumption
  <2>2. a <= [q \in Requests |-> IF pstatus[q] = "none" THEN 0 ELSE arg[q].amount - refunded[q]][p]
    BY <1>3
  <2>3. [e \in Dues |-> dues'[e].paid] = [[e \in Dues |-> dues[e].paid] EXCEPT ![d] = @ - a]
    BY <1>2, <1>5
  <2>4. \A q \in Requests : refunded'[q] = IF q = p THEN refunded[p] + a ELSE refunded[q]
    BY <1>1, <1>5 DEF FInv, TypeOK
  <2>5. [q \in Requests |-> IF pstatus'[q] = "none" THEN 0 ELSE arg'[q].amount - refunded'[q]]
          = [[q \in Requests |-> IF pstatus[q] = "none" THEN 0 ELSE arg[q].amount - refunded[q]] EXCEPT ![p] = @ - a]
    BY <1>2, <1>3, <1>4, <1>5, <2>4
  <2>6. [q \in Requests |-> IF pstatus'[q] = "none" THEN None ELSE arg'[q].due]
          = [q \in Requests |-> IF pstatus[q] = "none" THEN None ELSE arg[q].due]
    BY <1>5
  <2> HIDE DEF d, p, a
  <2> QED
    BY <2>1, <2>2, <2>3, <2>5, <2>6 DEF Account!Refund
<1>7. \A x \in Requests, y \in Amounts : x = p /\ y = a => Account!Refund(x, y)
  BY <1>6 DEF Account!Refund
<1>8. PICK x \in Requests, y \in Amounts : x = p /\ y = a
  BY <1>2, <1>3
<1>9. Account!Refund(x, y)
  BY <1>7, <1>8
<1> QED
  BY <1>9 DEF Account!Next

LEMMA AccountStep ==
    ASSUME Disciplined, [SerialNext]_vars
    PROVE  [Account!Next]_(Account!vars)
<1>1. ASSUME NEW r \in Requests, Quiet(r) PROVE UNCHANGED Account!vars
  BY <1>1, QuietKeepsApplied, AccountStands DEF Disciplined, JInv, Applied, Quiet, PaidStands
<1>2. ASSUME NobodyMoves, PaidStands PROVE UNCHANGED Account!vars
  BY <1>2, AccountStands DEF NobodyMoves, Disciplined
<1>3. [Next]_vars
  BY SerialIsNext
<1> QED
  BY <1>1, <1>2, <1>3, MoneyKinds, PaymentPays, RefundRefunds DEF Disciplined

(* Under disciplined clients the fees service, with its transactions, row  *)
(* locks, savepoints, aborts and deadlocks, implements the abstract        *)
(* account: money moves only by a payment that fits its due or by a refund *)
(* of what a payment still holds, off the same due.                        *)
THEOREM FeesImplementAccount == SerialSpec => ImplementsAccount
<1> QED
  BY AccountInit, AccountStep, SerialInvariance, PTL DEF SerialSpec, ImplementsAccount, Account!Spec
=============================================================================
