------------------------------- MODULE Ledger -------------------------------
(***************************************************************************)
(* The double-entry ledger of one campus: the chart of accounts, the       *)
(* accounting periods, and journal entries that are drafted, posted and    *)
(* reversed by sessions that run at the same time.                         *)
(*                                                                         *)
(* A session reads what it checks (the actions named after the service's   *)
(* methods) and later flushes and commits (the Commit actions).  Nothing   *)
(* it read is locked in between.  The lines of an entry are kept as the    *)
(* amounts debited and credited per account.                               *)
(***************************************************************************)
EXTENDS Integers, FiniteSets, Functions

CONSTANTS
    Sessions,
    Accounts,
    Periods, Covers,    \* Covers[p]: the dates of period p
    Dates,
    Keys,               \* idempotency keys
    Data,               \* the entries clients send: [lines |-> [dr, cr], key]
    Retired,            \* the accounts an administrator switches off and on
    Ids,                \* journal entry ids
    MaxCreated,         \* bound: no entry is begun once so many are no reversals
    None

Lines == [dr : [Accounts -> Nat], cr : [Accounts -> Nat]]

ASSUME LedgerAssumption ==
    /\ Ids \subseteq Nat /\ MaxCreated \in Nat
    /\ Covers \in [Periods -> SUBSET Dates]
    /\ \A x \in Data : x.lines \in Lines /\ x.key \in Keys \cup {None}
    /\ Retired \subseteq Accounts
    /\ None \notin Keys \cup Ids

VARIABLES
    account,    \* ledger_accounts: absent, active or inactive
    period,     \* accounting_periods: absent, open or closed
    entry,      \* journal_entries with their lines
    session,    \* what each session is about to write
    raced       \* rows a session wrote while another one had read them

vars == <<account, period, entry, session, raced>>

Idle  == [op |-> "idle"]
NoEntry == [status |-> "none"]

Entry(status, p, d, lines, totals, key, of) ==
    [status |-> status, period |-> p, date |-> d, lines |-> lines, totals |-> totals,
     key |-> key, of |-> of, by |-> None]

Init ==
    /\ account = [a \in Accounts |-> "absent"]
    /\ period = [p \in Periods |-> "absent"]
    /\ entry = [i \in Ids |-> NoEntry]
    /\ session = [c \in Sessions |-> Idle]
    /\ raced = {}

-----------------------------------------------------------------------------
Made == {i \in Ids : entry[i] # NoEntry}
Booked == {i \in Made : entry[i].status \in {"posted", "reversed"}}

Total(f) == FoldFunction(+, 0, f)

(* Broken variant: both sums are taken over the debit lines.               *)
SumLinesOneSided(v) == <<Total(v.dr), Total(v.dr)>>

(* sum_lines: the debits and the credits of an entry.                      *)
SumLines(v) == <<Total(v.dr), Total(v.cr)>>

Used(v) == {a \in Accounts : v.dr[a] > 0 \/ v.cr[a] > 0}

(* Broken variant: the lines are copied as they are.                       *)
MirrorSameSides(v) == v

(* The lines of a reversal: debits and credits change sides.               *)
Mirror(v) == [dr |-> v.cr, cr |-> v.dr]

(* ck_journal_entry_balanced *)
Balances(status, totals) == status = "draft" \/ totals[1] = totals[2]

(* The rows an operation has read, and those its commit writes; posting    *)
(* writes lines on the accounts it uses.                                   *)
Rows(kind, S) == {<<kind, x>> : x \in S}

Reads(r) ==
    CASE r.op = "post"    -> Rows("entry", {r.id}) \cup Rows("period", {r.p}) \cup Rows("account", Used(r.lines))
      [] r.op = "reverse" -> Rows("entry", {r.id}) \cup Rows("period", {r.p})
      [] r.op = "create"  -> Rows("period", {r.p}) \cup Rows("account", Used(r.lines))
      [] r.op = "close"   -> Rows("period", {r.p})
      [] r.op = "switch"  -> Rows("account", {r.a})
      [] r.op = "period"  -> Rows("periods", {None})
      [] r.op = "idle"    -> {}

Writes(r) ==
    CASE r.op \in {"post", "reverse"} -> Rows("entry", {r.id}) \cup Rows("account", Used(r.lines))
      [] r.op = "create"  -> Rows("account", Used(r.lines))
      [] r.op = "close"   -> Rows("period", {r.p})
      [] r.op = "switch"  -> Rows("account", {r.a})
      [] r.op = "period"  -> Rows("periods", {None})

Begin(c, r) ==
    /\ session[c] = Idle
    /\ session' = [session EXCEPT ![c] = r]
    /\ UNCHANGED <<account, period, entry, raced>>

End(c) ==
    /\ session' = [session EXCEPT ![c] = Idle]
    /\ raced' = raced \cup {x \in Writes(session[c]) :
                              \E d \in Sessions \ {c} : x \in Reads(session[d])}

-----------------------------------------------------------------------------
(* seed_default_chart and create_account: accounts come into being active. *)
CreateAccount(a) ==
    /\ account[a] = "absent"
    /\ account' = [account EXCEPT ![a] = "active"]
    /\ UNCHANGED <<period, entry, session, raced>>

UsedInBooks(a) == \E i \in Booked : a \in Used(entry[i].lines)

(* update_account: an account with posted lines is not deactivated.        *)
DeactivateAccount(c, a) ==
    /\ a \in Retired /\ account[a] = "active"
    /\ ~UsedInBooks(a)
    /\ Begin(c, [op |-> "switch", a |-> a, to |-> "inactive"])

ActivateAccount(c, a) ==
    /\ account[a] = "inactive"
    /\ Begin(c, [op |-> "switch", a |-> a, to |-> "active"])

CommitAccount(c) ==
    /\ session[c].op = "switch"
    /\ account' = [account EXCEPT ![session[c].a] = session[c].to]
    /\ End(c)
    /\ UNCHANGED <<period, entry>>

(* create_period: no period of the campus overlaps the new one.            *)
CreatePeriod(c, p) ==
    /\ period[p] = "absent"
    /\ \A q \in Periods : period[q] # "absent" => Covers[p] \cap Covers[q] = {}
    /\ Begin(c, [op |-> "period", p |-> p])

(* The insert; the name of a period is unique.                             *)
CommitPeriod(c) ==
    /\ session[c].op = "period"
    /\ period[session[c].p] = "absent"
    /\ period' = [period EXCEPT ![session[c].p] = "open"]
    /\ End(c)
    /\ UNCHANGED <<account, entry>>

(* close_period: final, there is no reopening.                             *)
ClosePeriod(c, p) ==
    /\ period[p] = "open"
    /\ Begin(c, [op |-> "close", p |-> p])

CommitClose(c) ==
    /\ session[c].op = "close"
    /\ period' = [period EXCEPT ![session[c].p] = "closed"]
    /\ End(c)
    /\ UNCHANGED <<account, entry>>

-----------------------------------------------------------------------------
Original == {i \in Made : entry[i].of = None}

(* _validate_entry_data: the date lies in the period (open or not), there  *)
(* is a debit and a credit, the accounts are active.                       *)
Valid(p, d, v) ==
    /\ period[p] # "absent" /\ d \in Covers[p]
    /\ SumLines(v)[1] > 0 /\ SumLines(v)[2] > 0
    /\ \A a \in Used(v) : account[a] = "active"

(* Broken variant: the status of the period is not looked at.              *)
PostableAnyPeriod(p, d, v) ==
    /\ period[p] # "absent" /\ d \in Covers[p]
    /\ SumLines(v)[1] = SumLines(v)[2]
    /\ \A a \in Used(v) : account[a] = "active"

(* post_entry, the checks: balanced lines, an open period, active accounts.*)
Postable(p, d, v) ==
    /\ period[p] = "open" /\ d \in Covers[p]
    /\ SumLines(v)[1] = SumLines(v)[2]
    /\ \A a \in Used(v) : account[a] = "active"

WithKey(k) == {i \in Made : k # None /\ entry[i].key = k}

Creation(status, p, d, x) ==
    [op |-> "create", status |-> status, p |-> p, date |-> d, lines |-> x.lines, key |-> x.key]

(* create_entry: a draft, balanced or not.                                 *)
CreateDraft(c, p, d, x) ==
    /\ Cardinality(Original) < MaxCreated
    /\ Valid(p, d, x.lines)
    /\ Begin(c, Creation("draft", p, d, x))

(* create_and_post (and post_fee_payment through it): an entry with the    *)
(* key is answered as it is, so only a new key is booked.                  *)
CreateAndPost(c, p, d, x) ==
    /\ Cardinality(Original) < MaxCreated
    /\ WithKey(x.key) = {}
    /\ Valid(p, d, x.lines)
    /\ Postable(p, d, x.lines)
    /\ Begin(c, Creation("posted", p, d, x))

Fresh(i) == i \notin Made /\ \A j \in Ids \ Made : i <= j

(* The inserts, under the unique key and the balance constraint.           *)
CommitCreate(c) ==
    /\ session[c].op = "create"
    /\ LET r == session[c] IN
          /\ WithKey(r.key) = {}
          /\ Balances(r.status, SumLines(r.lines))
          /\ \E i \in Ids :
                /\ Fresh(i)
                /\ entry' = [entry EXCEPT ![i] =
                      Entry(r.status, r.p, r.date, r.lines, SumLines(r.lines), r.key, None)]
    /\ End(c)
    /\ UNCHANGED <<account, period>>

PostEntry(c, i) ==
    /\ i \in Made
    /\ entry[i].status = "draft"
    /\ Postable(entry[i].period, entry[i].date, entry[i].lines)
    /\ Begin(c, [op |-> "post", id |-> i, p |-> entry[i].period, lines |-> entry[i].lines])

(* The UPDATE does not ask whether the entry still is a draft.             *)
CommitPost(c) ==
    /\ session[c].op = "post"
    /\ LET r == session[c] IN
          /\ Balances("posted", SumLines(r.lines))
          /\ entry' = [entry EXCEPT ![r.id].status = "posted", ![r.id].totals = SumLines(r.lines)]
    /\ End(c)
    /\ UNCHANGED <<account, period>>

(* Broken variant: an entry that was reversed before is reversed again.    *)
ReverseAgain(c, i, p, d) ==
    /\ i \in Booked
    /\ period[p] = "open" /\ d \in Covers[p]
    /\ Begin(c, [op |-> "reverse", id |-> i, p |-> p, date |-> d, lines |-> entry[i].lines])

(* reverse_entry: of a posted entry not reversed before, into an open      *)
(* period that covers the date of the reversal.                            *)
ReverseEntry(c, i, p, d) ==
    /\ i \in Booked
    /\ entry[i].by = None
    /\ period[p] = "open" /\ d \in Covers[p]
    /\ Begin(c, [op |-> "reverse", id |-> i, p |-> p, date |-> d, lines |-> entry[i].lines])

(* Insert the mirror, mark the original.                                   *)
CommitReverse(c) ==
    /\ session[c].op = "reverse"
    /\ LET r == session[c]
           m == Mirror(r.lines)
       IN /\ Balances("posted", SumLines(m))
          /\ \E i \in Ids :
                /\ Fresh(i)
                /\ entry' = [entry EXCEPT
                      ![i] = Entry("posted", r.p, r.date, m, SumLines(m), None, r.id),
                      ![r.id].by = i, ![r.id].status = "reversed"]
    /\ End(c)
    /\ UNCHANGED <<account, period>>

(* The request fails, or a constraint refuses its write.                   *)
RollBack(c) ==
    /\ session[c] # Idle
    /\ session' = [session EXCEPT ![c] = Idle]
    /\ UNCHANGED <<account, period, entry, raced>>

-----------------------------------------------------------------------------
Next ==
    \/ \E a \in Accounts : CreateAccount(a)
    \/ \E c \in Sessions :
          \/ \E a \in Accounts : DeactivateAccount(c, a) \/ ActivateAccount(c, a)
          \/ \E p \in Periods : CreatePeriod(c, p) \/ ClosePeriod(c, p)
          \/ \E p \in Periods, d \in Dates, x \in Data :
                CreateDraft(c, p, d, x) \/ CreateAndPost(c, p, d, x)
          \/ \E i \in Ids : PostEntry(c, i)
          \/ \E i \in Ids, p \in Periods, d \in Dates : ReverseEntry(c, i, p, d)
          \/ CommitAccount(c)
          \/ CommitPeriod(c)
          \/ CommitClose(c)
          \/ CommitCreate(c)
          \/ CommitPost(c)
          \/ CommitReverse(c)
          \/ RollBack(c)

Spec == Init /\ [][Next]_vars

-----------------------------------------------------------------------------
(* Types; the dates of the entries lie in their periods.                   *)
TypeOK ==
    /\ account \in [Accounts -> {"absent", "active", "inactive"}]
    /\ period \in [Periods -> {"absent", "open", "closed"}]
    /\ \A i \in Made : /\ entry[i].status \in {"draft", "posted", "reversed"}
                       /\ entry[i].period \in Periods
                       /\ entry[i].date \in Covers[entry[i].period]
                       /\ entry[i].lines \in Lines
                       /\ entry[i].key \in Keys \cup {None}
                       /\ entry[i].of \in Ids \cup {None} /\ entry[i].by \in Ids \cup {None}

(* The core invariant: every entry in the books has equal debits and       *)
(* credits, so every trial balance balances, whatever sessions raced.      *)
BooksBalance == \A i \in Booked : Total(entry[i].lines.dr) = Total(entry[i].lines.cr)

(* A reversal cancels what it reverses, account by account.                *)
ReversalCancels ==
    \A i \in Made : LET o == entry[i].of IN o # None =>
        \A a \in Accounts :
           entry[i].lines.dr[a] + entry[o].lines.dr[a] = entry[i].lines.cr[a] + entry[o].lines.cr[a]

(* Unless sessions raced on the row: an entry is reversed at most once and *)
(* its status says so, an account out of use has nothing in the books, and *)
(* periods do not overlap.                                                 *)
OnlyRacesBreak ==
    /\ \A i \in Made : <<"entry", i>> \notin raced =>
          LET mirrors == {j \in Made : entry[j].of = i} IN
          /\ mirrors = {entry[i].by} \ {None}
          /\ (entry[i].status = "reversed") = (mirrors # {})
    /\ \A a \in Accounts : account[a] = "inactive" /\ <<"account", a>> \notin raced => ~UsedInBooks(a)
    /\ <<"periods", None>> \notin raced =>
          \A p, q \in Periods : p # q /\ period[p] # "absent" /\ period[q] # "absent" =>
              Covers[p] \cap Covers[q] = {}

BooksOf(p) == {<<i, entry[i].date, entry[i].lines>> : i \in {j \in Booked : entry[j].period = p}}

(* A closed period stays closed.  Unless it was closed while a session     *)
(* that books into it was under way, its books stay as they are: nothing   *)
(* is added to them, taken out or changed.  Nor is anything booked into a  *)
(* period that was never opened.                                           *)
ClosedIsFinal ==
    [][\A p \in Periods :
          /\ period[p] = "closed" => period'[p] = "closed"
          /\ period[p] # "open" /\ <<"period", p>> \notin raced => BooksOf(p)' = BooksOf(p)]_vars
=============================================================================
