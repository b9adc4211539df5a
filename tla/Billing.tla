------------------------------- MODULE Billing ------------------------------
(***************************************************************************)
(* The subscription of each campus, its invoices, and the three parties    *)
(* that change them: the campus and the administrator, the daily jobs that *)
(* invoice ended periods and expire unpaid subscriptions, and the payment  *)
(* provider, whose webhooks arrive late, twice or out of order.            *)
(*                                                                         *)
(* A request reads the subscription row, and later flushes and commits the *)
(* columns it changed (Commit).  Only the job that invoices takes a row    *)
(* lock; its SELECT FOR UPDATE answers the object the session loaded       *)
(* before, so the columns are those of the first read.                     *)
(***************************************************************************)
EXTENDS Integers, FiniteSets, SequencesExt

CONSTANTS
    Sessions, Campuses,
    Plans, Price, Length,   \* per plan: the price and the length of a period
    TrialPlan,              \* get_or_create_trial's plan; it has trial days
    Events, Event,          \* provider events: [campus, kind, amount]
    Horizon,                \* bound: the clock stops here
    NoValue

ASSUME BillingAssumption ==
    /\ TrialPlan \in Plans /\ Price \in [Plans -> Nat] /\ Length \in [Plans -> Nat \ {0}]
    /\ Horizon \in Nat /\ NoValue \notin Nat \cup Events
    /\ \A e \in Events : /\ Event[e].campus \in Campuses
                         /\ Event[e].kind \in {"captured", "failed"}
                         /\ Event[e].amount \in Nat \cup {NoValue}   \* NoValue: not a number

VARIABLES
    now,
    sub,        \* subscriptions, one per campus
    invoice,    \* invoices, in the order of their ids
    seen,       \* webhook_events
    session,    \* what each session has read and is about to write
    raced       \* campuses whose row was written while another session had read it

billingVars == <<now, sub, invoice, seen, session, raced>>

IdleSession == [op |-> "idle"]
Nothing == <<>>     \* no column is assigned
NoSub == [status |-> "none", plan |-> TrialPlan, start |-> 0, end |-> 0, cape |-> FALSE]

BillingInit ==
    /\ now = 0
    /\ sub = [s \in Campuses |-> NoSub]
    /\ invoice = <<>>
    /\ seen = {}
    /\ session = [c \in Sessions |-> IdleSession]
    /\ raced = {}

-----------------------------------------------------------------------------
Known == {s \in Campuses : sub[s] # NoSub}
Over(r) == r.status \in {"cancelled", "expired"}

InvoicesOf(s) == {i \in DOMAIN invoice : invoice[i].campus = s}
Pending(s) == {i \in InvoicesOf(s) : invoice[i].status = "pending"}

(* The UPDATE of a flush: of the columns a session assigned (w) it names   *)
(* those that differ from what the session loaded, and a new date always   *)
(* does; the others keep what is stored by then.                           *)
Merge(stored, read, w) ==
    [f \in DOMAIN stored |->
        IF f \in DOMAIN w /\ (f \in {"start", "end"} \/ w[f] # read[f]) THEN w[f] ELSE stored[f]]

(* The rows a session has read and may still write.                        *)
Reads(r) ==
    CASE r.op = "row"    -> {r.campus}
      [] r.op = "expire" -> r.campuses
      [] r.op = "bill"   -> DOMAIN r.read
      [] r.op = "idle"   -> {}

Locked(c) == IF session[c].op = "bill" THEN session[c].done ELSE {}
Unlocked(c, S) == \A d \in Sessions \ {c} : Locked(d) \cap S = {}

Begin(c, r) ==
    /\ session[c] = IdleSession
    /\ session' = [session EXCEPT ![c] = r]
    /\ UNCHANGED <<now, sub, invoice, seen, raced>>

(* Session c ends, having written the rows S.                              *)
End(c, S) ==
    /\ Unlocked(c, S)
    /\ session' = [session EXCEPT ![c] = IdleSession]
    /\ raced' = raced \cup {s \in S : \E d \in Sessions \ {c} : s \in Reads(session[d])}

(* A request that found row s and assigned w; a webhook also records its   *)
(* event e and may settle the invoice i.                                   *)
Request(c, s, w, e, i) ==
    Begin(c, [op |-> "row", campus |-> s, read |-> sub[s], write |-> w,
              event |-> e, settles |-> i])

Change(c, s, w) == Request(c, s, w, NoValue, NoValue)

-----------------------------------------------------------------------------
(* get_or_create_trial, when the campus has no subscription.               *)
GetOrCreateTrial(c, s) ==
    /\ s \notin Known
    /\ Change(c, s, [status |-> "trial", plan |-> TrialPlan, start |-> now,
                     end |-> now + Length[TrialPlan], cape |-> FALSE])

ChangePlan(c, s, p) ==
    /\ s \in Known
    /\ Change(c, s, [plan |-> p])

(* cancel: at the end of the period, or now.                               *)
Cancel(c, s, atEnd) ==
    /\ s \in Known
    /\ Change(c, s, IF atEnd THEN [cape |-> TRUE] ELSE [status |-> "cancelled", cape |-> FALSE])

(* Broken variant: a subscription that is over may be renewed.             *)
RenewAny(c, s) ==
    /\ s \in Known
    /\ sub[s].status = "active" => sub[s].cape
    /\ Change(c, s, [status |-> "active", cape |-> FALSE, start |-> now,
                     end |-> now + Length[sub[s].plan]])

(* renew, and the administrator's reactivate: a new period from now on.    *)
Renew(c, s) ==
    /\ s \in Known /\ ~Over(sub[s])
    /\ sub[s].status = "active" => sub[s].cape
    /\ Change(c, s, [status |-> "active", cape |-> FALSE, start |-> now,
                     end |-> now + Length[sub[s].plan]])

(* _apply_payment_captured: the pending invoice of this very amount, else  *)
(* the newest one; its amount must be covered.                             *)
Match(s, a) == {i \in Pending(s) : invoice[i].amount = a}
Newest(S) == CHOOSE i \in S : \A j \in S : j <= i
Chosen(s, a) == Newest(IF Match(s, a) # {} THEN Match(s, a) ELSE Pending(s))

(* Broken variant: the amount of the capture is taken as read.             *)
SettlesAnyAmount(s, a) == Pending(s) = {} \/ a # NoValue

Settles(s, a) == Pending(s) = {} \/ (a # NoValue /\ a >= invoice[Chosen(s, a)].amount)

(* A webhook that is not in the ledger of events yet.                      *)
PaymentCaptured(c, e) ==
    LET s == Event[e].campus  a == Event[e].amount IN
    /\ Event[e].kind = "captured" /\ e \notin seen
    /\ IF s \in Known /\ ~Over(sub[s]) /\ Settles(s, a)
       THEN Request(c, s, [status |-> "active", cape |-> FALSE], e,
                    IF Pending(s) = {} THEN NoValue ELSE Chosen(s, a))
       ELSE Request(c, s, Nothing, e, NoValue)

(* _apply_payment_failed: money received outranks money not received.      *)
PaymentFailed(c, e) ==
    LET s == Event[e].campus IN
    /\ Event[e].kind = "failed" /\ e \notin seen
    /\ Request(c, s, IF sub[s].status \in {"trial", "past_due"}
                     THEN [status |-> "past_due"] ELSE Nothing, e, NoValue)

Settle(i, e) == [invoice EXCEPT ![i].status = "paid", ![i].by = @ \cup {e}]

(* The flush and the commit of a request: under the unique campus of a new *)
(* subscription and the unique key of an event.                            *)
Commit(c) ==
    LET r == session[c]  s == r.campus IN
    /\ r.op = "row"
    /\ r.read = NoSub /\ r.write # Nothing => s \notin Known
    /\ r.event \notin seen
    /\ sub' = [sub EXCEPT ![s] = Merge(@, r.read, r.write)]
    /\ invoice' = IF r.settles = NoValue THEN invoice ELSE Settle(r.settles, r.event)
    /\ seen' = IF r.event = NoValue THEN seen ELSE seen \cup {r.event}
    /\ End(c, IF r.write = Nothing THEN {} ELSE {s})
    /\ UNCHANGED now

-----------------------------------------------------------------------------
(* expire_past_due: the subscriptions to expire are listed once; the       *)
(* administrator's expire names any one.                                   *)
ExpirePastDue(c) ==
    LET late == {s \in Known : sub[s].status = "past_due" /\ sub[s].end < now} IN
    late # {} /\ Begin(c, [op |-> "expire", campuses |-> late])

ExpireOne(c, s) == s \in Known /\ Begin(c, [op |-> "expire", campuses |-> {s}])

(* The UPDATEs, by id, whatever the rows hold by now.                      *)
CommitExpire(c) ==
    /\ session[c].op = "expire"
    /\ LET S == session[c].campuses IN
          /\ sub' = [s \in Campuses |-> IF s \in S THEN [sub[s] EXCEPT !.status = "expired"] ELSE sub[s]]
          /\ End(c, S)
    /\ UNCHANGED <<now, invoice, seen>>

(* process_period_end lists the live subscriptions whose period is over.   *)
ProcessPeriodEnd(c) ==
    LET due == {s \in Known : sub[s].status \in {"trial", "active"} /\ sub[s].end <= now} IN
    /\ due # {}
    /\ Begin(c, [op |-> "bill", read |-> [s \in due |-> sub[s]], done |-> {}, bills |-> <<>>])

Bill(s, r) == [campus |-> s, start |-> r.start, end |-> r.end, amount |-> Price[r.plan],
               status |-> "pending", by |-> {}]

(* Broken variant: an unpaid invoice does not stop the next one.           *)
NothingOwedUnchecked(s) == TRUE

NothingOwed(s) == Pending(s) = {}

(* One round of its loop: lock the row, skip it if an invoice is unpaid,   *)
(* else add an invoice of the period as it was listed.                     *)
LockRow(c, s) ==
    LET r == session[c] IN
    /\ r.op = "bill"
    /\ s \in DOMAIN r.read \ r.done
    /\ Unlocked(c, {s})
    /\ session' = [session EXCEPT ![c].done = @ \cup {s},
                      ![c].bills = IF NothingOwed(s) THEN Append(@, Bill(s, r.read[s])) ELSE @]
    /\ UNCHANGED <<now, sub, invoice, seen, raced>>

(* The next period of a billed subscription, or its end.                   *)
Advance(r) == [start |-> r.end, end |-> r.end + Length[r.plan],
               status |-> IF r.cape THEN "cancelled" ELSE r.status]

Billed(bills) == {b.campus : b \in ToSet(bills)}

NewPeriod(b) == \A i \in InvoicesOf(b.campus) : invoice[i].start # b.start

(* All invoices of the run in one transaction: one that exists already     *)
(* (the unique period of a subscription) fails them all.                   *)
CommitPeriodEnd(c) ==
    LET r == session[c]  S == Billed(r.bills) IN
    /\ r.op = "bill"
    /\ r.done = DOMAIN r.read
    /\ \A b \in ToSet(r.bills) : NewPeriod(b)
    /\ invoice' = invoice \o r.bills
    /\ sub' = [s \in Campuses |-> IF s \in S THEN Merge(sub[s], r.read[s], Advance(r.read[s]))
                                  ELSE sub[s]]
    /\ End(c, S)
    /\ UNCHANGED <<now, seen>>

(* The session fails, or a constraint refuses its write.                   *)
RollBack(c) ==
    /\ session[c] # IdleSession
    /\ session' = [session EXCEPT ![c] = IdleSession]
    /\ UNCHANGED <<now, sub, invoice, seen, raced>>

Tick ==
    /\ now < Horizon
    /\ now' = now + 1
    /\ UNCHANGED <<sub, invoice, seen, session, raced>>

-----------------------------------------------------------------------------
BillingNext ==
    \/ Tick
    \/ \E c \in Sessions :
          \/ \E s \in Campuses :
                \/ GetOrCreateTrial(c, s)
                \/ \E p \in Plans : ChangePlan(c, s, p)
                \/ \E atEnd \in BOOLEAN : Cancel(c, s, atEnd)
                \/ Renew(c, s)
                \/ ExpireOne(c, s)
                \/ LockRow(c, s)
          \/ \E e \in Events : PaymentCaptured(c, e) \/ PaymentFailed(c, e)
          \/ Commit(c)
          \/ ExpirePastDue(c)
          \/ CommitExpire(c)
          \/ ProcessPeriodEnd(c)
          \/ CommitPeriodEnd(c)
          \/ RollBack(c)

BillingSpec == BillingInit /\ [][BillingNext]_billingVars

-----------------------------------------------------------------------------
Sub == [status : {"none", "trial", "active", "past_due", "cancelled", "expired"},
        plan : Plans, start : Nat, end : Nat, cape : BOOLEAN]

(* Types; a period never ends before it starts.                            *)
BillingTypeOK ==
    /\ now \in 0 .. Horizon
    /\ sub \in [Campuses -> Sub]
    /\ \A i \in DOMAIN invoice :
          /\ invoice[i].campus \in Known /\ invoice[i].start < invoice[i].end
          /\ invoice[i].status \in {"pending", "paid"} /\ invoice[i].by \subseteq seen
    /\ \A s \in Known : sub[s].start < sub[s].end
    /\ seen \subseteq Events

(* However late the jobs run and whatever they race with, a campus owes at *)
(* most one invoice: the row lock makes the pending check of two runs one  *)
(* after the other.                                                        *)
OneInvoiceOwed == \A s \in Campuses : Cardinality(Pending(s)) <= 1

(* A paid invoice was paid in full, by events that paid no other one,      *)
(* however often they were delivered.  Unless sessions raced on its campus *)
(* it was paid by one event, the periods invoiced do not overlap and the   *)
(* current one comes after them, so the next run will not meet the unique  *)
(* key that would fail the invoices of every campus.                       *)
OnlyRacesMisbill ==
    /\ \A i \in DOMAIN invoice : \A e \in invoice[i].by :
          /\ Event[e].amount >= invoice[i].amount
          /\ \A j \in DOMAIN invoice \ {i} : e \notin invoice[j].by
    /\ \A s \in Campuses \ raced : \A i \in InvoicesOf(s) :
          /\ Cardinality(invoice[i].by) = IF invoice[i].status = "paid" THEN 1 ELSE 0
          /\ invoice[i].end <= sub[s].start
          /\ \A j \in InvoicesOf(s) \ {i} :
                invoice[i].end <= invoice[j].start \/ invoice[j].end <= invoice[i].start

(* A subscription that is over stays over, whatever payments or renewals   *)
(* arrive, except for a session that had read it when it was not.          *)
OverIsFinal == [][\A s \in Campuses : Over(sub[s]) /\ ~Over(sub'[s]) => s \in raced]_billingVars
=============================================================================
