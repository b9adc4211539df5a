---------------------------- MODULE Ledger_proofs ---------------------------
(***************************************************************************)
(* Proofs about Ledger for every set of sessions, accounts, periods, keys  *)
(* and entries.  What a fold over the accounts adds up to is never needed: *)
(* the proofs rest on where the lines of an entry come from.               *)
(***************************************************************************)
EXTENDS Ledger, Sequences, FiniteSetTheorems, TLAPS

-----------------------------------------------------------------------------
EntryRow ==
    [status : {"draft", "posted", "reversed"}, period : Periods, date : Dates, lines : Lines,
     totals : {SumLines(v) : v \in Lines}, key : Keys \cup {None},
     of : Ids \cup {None}, by : Ids \cup {None}]

Request ==
    {Idle}
    \cup [op : {"switch"}, a : Accounts, to : {"active", "inactive"}]
    \cup [op : {"period", "close"}, p : Periods]
    \cup [op : {"create"}, status : {"draft", "posted"}, p : Periods, date : Dates,
          lines : Lines, key : Keys \cup {None}]
    \cup [op : {"post"}, id : Ids, p : Periods, lines : Lines]
    \cup [op : {"reverse"}, id : Ids, p : Periods, date : Dates, lines : Lines]

Types ==
    /\ account \in [Accounts -> {"absent", "active", "inactive"}]
    /\ period \in [Periods -> {"absent", "open", "closed"}]
    /\ entry \in [Ids -> EntryRow \cup {NoEntry}]
    /\ session \in [Sessions -> Request]

(* The inductive invariant.                                                *)

(* An entry lies in its period, balances once it is in the books, and      *)
(* mirrors the entry it reverses.                                          *)
EntryOK(i) ==
    /\ entry[i].date \in Covers[entry[i].period]
    /\ i \in Booked => Total(entry[i].lines.dr) = Total(entry[i].lines.cr)
    /\ entry[i].of # None => /\ entry[i].of \in Made
                             /\ entry[i].lines = Mirror(entry[entry[i].of].lines)

(* A session that will book into period p found it open, and if it is not  *)
(* open any more, the two are known to have raced.                         *)
FoundOpen(p) == period[p] = "open" \/ <<"period", p>> \in raced

(* What a request has read of an entry does not change.                    *)
RequestOK(r) ==
    /\ r.op = "create" => /\ r.date \in Covers[r.p]
                          /\ r.status = "posted" => FoundOpen(r.p)
    /\ r.op = "post" => /\ r.id \in Made
                        /\ r.lines = entry[r.id].lines /\ r.p = entry[r.id].period
                        /\ FoundOpen(r.p)
    /\ r.op = "reverse" => /\ r.id \in Booked
                           /\ r.lines = entry[r.id].lines
                           /\ r.date \in Covers[r.p]
                           /\ FoundOpen(r.p)

LInv ==
    /\ Types
    /\ \A i \in Made : EntryOK(i)
    /\ \A c \in Sessions : RequestOK(session[c])

-----------------------------------------------------------------------------
LEMMA InitEstablishes == Init => LInv
<1> SUFFICES ASSUME Init PROVE LInv
  OBVIOUS
<1>1. Types
  BY DEF Init, Types, Request
<1>2. Made = {}
  BY DEF Init, Made
<1>3. \A c \in Sessions : RequestOK(session[c])
  BY DEF Init, RequestOK, Idle
<1> QED
  BY <1>1, <1>2, <1>3 DEF LInv

LEMMA MadeRow ==
  ASSUME Types, NEW i \in Ids
  PROVE  /\ i \in Made <=> entry[i] \in EntryRow
         /\ i \in Made => /\ entry[i].lines \in Lines /\ entry[i].period \in Periods
                          /\ entry[i].status \in {"draft", "posted", "reversed"}
  BY DEF Types, Made, EntryRow, NoEntry

(* Entries are never taken back, and keep what they say.                   *)
EntriesKept ==
    /\ \A i \in Made : /\ i \in Made'
                       /\ entry'[i].lines = entry[i].lines /\ entry'[i].period = entry[i].period
                       /\ entry'[i].date = entry[i].date /\ entry'[i].of = entry[i].of
    /\ Booked \subseteq Booked'

(* Requests that are still under way know of the periods closed since.     *)
OpenKept ==
    \A d \in Sessions :
        session'[d] = session[d] /\ session[d].op \in {"create", "post", "reverse"}
            /\ FoundOpen(session[d].p) => FoundOpen(session[d].p)'

(* A step preserves the invariant if the entries that it makes or books    *)
(* and the requests that it begins are as they should be.                  *)
LEMMA Preserves ==
  ASSUME LInv, Types', EntriesKept, OpenKept,
         \A i \in Made' : i \notin Made => EntryOK(i)',
         \A i \in Made : i \in Booked' /\ i \notin Booked =>
             Total(entry[i].lines.dr) = Total(entry[i].lines.cr),
         \A d \in Sessions : session'[d] # session[d] => RequestOK(session[d])'
  PROVE  LInv'
<1>1. ASSUME NEW i \in Made' PROVE EntryOK(i)'
  <2>1. CASE i \notin Made
    BY <1>1, <2>1
  <2>2. CASE i \in Made
    <3>1. /\ EntryOK(i) /\ entry'[i].lines = entry[i].lines /\ entry'[i].period = entry[i].period
          /\ entry'[i].date = entry[i].date /\ entry'[i].of = entry[i].of
      BY <2>2 DEF LInv, EntriesKept
    <3>2. entry[i].of # None => /\ entry[i].of \in Made'
                                /\ entry'[entry[i].of].lines = entry[entry[i].of].lines
      BY <3>1 DEF EntryOK, EntriesKept
    <3>3. i \in Booked' => Total(entry[i].lines.dr) = Total(entry[i].lines.cr)
      BY <2>2, <3>1 DEF EntryOK
    <3> QED
      BY <3>1, <3>2, <3>3 DEF EntryOK
  <2> QED
    BY <2>1, <2>2
<1>2. ASSUME NEW d \in Sessions PROVE RequestOK(session[d])'
  <2>1. CASE session'[d] # session[d]
    BY <2>1
  <2>2. CASE session'[d] = session[d]
    <3>1. RequestOK(session[d])
      BY DEF LInv
    <3>2. session[d].op \in {"create", "post", "reverse"} /\ FoundOpen(session[d].p) => FoundOpen(session[d].p)'
      BY <2>2 DEF OpenKept
    <3>3. session[d].op = "post" => /\ session[d].id \in Made'
                                    /\ entry'[session[d].id].lines = entry[session[d].id].lines
                                    /\ entry'[session[d].id].period = entry[session[d].id].period
      BY <3>1 DEF RequestOK, EntriesKept
    <3>4. session[d].op = "reverse" => /\ session[d].id \in Booked'
                                       /\ entry'[session[d].id].lines = entry[session[d].id].lines
      BY <3>1 DEF RequestOK, EntriesKept, Booked
    <3> QED
      BY <2>2, <3>1, <3>2, <3>3, <3>4 DEF RequestOK
  <2> QED
    BY <2>1, <2>2
<1> QED
  BY <1>1, <1>2 DEF LInv

LEMMA SameEntries ==
  ASSUME entry' = entry
  PROVE  Made' = Made /\ Booked' = Booked /\ EntriesKept
<1>1. Made' = Made
  BY DEF Made
<1>2. Booked' = Booked
  BY <1>1 DEF Booked
<1> QED
  BY <1>1, <1>2 DEF EntriesKept, Booked

(* No period is closed: what was found open is so.                         *)
LEMMA PeriodsKept ==
  ASSUME \A p \in Periods : period[p] = "open" => period'[p] = "open", raced \subseteq raced',
         Types
  PROVE  OpenKept
<1> SUFFICES ASSUME NEW d \in Sessions, session'[d] = session[d],
                    session[d].op \in {"create", "post", "reverse"}, FoundOpen(session[d].p)
             PROVE  FoundOpen(session[d].p)'
  BY DEF OpenKept
<1>1. session[d] \in Request
  BY DEF Types
<1>2. session[d].p \in Periods
  BY <1>1 DEF Request, Idle
<1> QED
  BY <1>2 DEF FoundOpen

LEMMA BeginPreserves ==
  ASSUME LInv, NEW c \in Sessions, NEW r \in Request, Begin(c, r), RequestOK(r)
  PROVE  LInv'
<1>1. Types'
  BY DEF LInv, Types, Begin
<1>2. entry' = entry /\ period' = period /\ raced' = raced
  BY DEF Begin
<1>3. OpenKept
  BY <1>2, PeriodsKept DEF LInv
<1>4. RequestOK(r)'
  BY <1>2, SameEntries DEF RequestOK, FoundOpen
<1>5. \A d \in Sessions : session'[d] # session[d] => d = c /\ session'[d] = r
  BY DEF Begin, LInv, Types
<1>6. \A d \in Sessions : session'[d] # session[d] => RequestOK(session[d])'
  BY <1>2, <1>4, <1>5, SameEntries DEF RequestOK, FoundOpen
<1> QED
  BY <1>1, <1>2, <1>3, <1>6, SameEntries, Preserves

(* A request that has ended is idle.                                       *)
LEMMA EndsIdle ==
  ASSUME LInv, NEW c \in Sessions, session' = [session EXCEPT ![c] = Idle]
  PROVE  /\ session' \in [Sessions -> Request]
         /\ \A d \in Sessions : session'[d] # session[d] => d = c
         /\ \A d \in Sessions : session'[d] # session[d] => RequestOK(session[d])'
<1>1. session' \in [Sessions -> Request] /\ \A d \in Sessions : session'[d] # session[d] => session'[d] = Idle
  BY DEF LInv, Types, Request
<1>2. \A d \in Sessions : session'[d] # session[d] => d = c
  BY DEF LInv, Types
<1>3. \A d \in Sessions : session'[d] = Idle => RequestOK(session[d])'
  BY DEF RequestOK, Idle
<1> QED
  BY <1>1, <1>2, <1>3

(* Closing a period leaves a mark for every session that has read it open. *)
LEMMA CloseIsNoticed ==
  ASSUME LInv, NEW c \in Sessions, CommitClose(c)
  PROVE  OpenKept
<1> SUFFICES ASSUME NEW d \in Sessions, session'[d] = session[d],
                    session[d].op \in {"create", "post", "reverse"}, FoundOpen(session[d].p)
             PROVE  FoundOpen(session[d].p)'
  BY DEF OpenKept
<1> DEFINE q == session[c].p
           p == session[d].p
<1>1. session[c].op = "close" /\ raced \subseteq raced' /\ period' = [period EXCEPT ![q] = "closed"]
  BY DEF CommitClose, End
<1>2. session[d] \in Request /\ p \in Periods
  <2>1. session[d] \in Request
    BY DEF LInv, Types
  <2> QED
    BY <2>1 DEF Request, Idle
<1>3. CASE p # q
  <2>1. period'[p] = period[p]
    BY <1>1, <1>2, <1>3 DEF LInv, Types
  <2> QED
    BY <2>1, <1>1 DEF FoundOpen
<1>4. CASE p = q
  <2>1. d # c
    BY <1>1
  <2>2. <<"period", p>> \in Writes(session[c])
    BY <1>1, <1>4 DEF Writes, Rows
  <2>3. <<"period", p>> \in Reads(session[d])
    BY DEF Reads, Rows
  <2>4. <<"period", p>> \in raced'
    BY <2>1, <2>2, <2>3 DEF CommitClose, End
  <2> QED
    BY <2>4 DEF FoundOpen
<1> QED
  BY <1>3, <1>4

(* The steps that leave the entries alone and end a request.               *)
LEMMA EndPreserves ==
  ASSUME LInv, NEW c \in Sessions, session' = [session EXCEPT ![c] = Idle], entry' = entry,
         account' \in [Accounts -> {"absent", "active", "inactive"}],
         period' \in [Periods -> {"absent", "open", "closed"}],
         OpenKept
  PROVE  LInv'
<1>1. Types'
  BY EndsIdle DEF LInv, Types
<1>2. \A d \in Sessions : session'[d] # session[d] => RequestOK(session[d])'
  BY EndsIdle
<1> QED
  BY <1>1, <1>2, SameEntries, Preserves

-----------------------------------------------------------------------------
(* The steps that write entries.                                           *)

(* The inserts and updates of a commit: at most one new entry, old ones    *)
(* keep all but their status, totals and mark of reversal.                 *)
LEMMA EntriesPreserve ==
  ASSUME LInv, NEW c \in Sessions, End(c), UNCHANGED <<account, period>>,
         entry' \in [Ids -> EntryRow \cup {NoEntry}], EntriesKept,
         \A i \in Made' : i \notin Made => EntryOK(i)',
         \A i \in Made : i \in Booked' /\ i \notin Booked =>
             Total(entry[i].lines.dr) = Total(entry[i].lines.cr)
  PROVE  LInv'
<1>1. session' = [session EXCEPT ![c] = Idle] /\ raced \subseteq raced' /\ period' = period
  BY DEF End
<1>2. Types'
  BY <1>1, EndsIdle DEF LInv, Types
<1>3. OpenKept
  BY <1>1, PeriodsKept DEF LInv
<1>4. \A d \in Sessions : session'[d] # session[d] => RequestOK(session[d])'
  BY <1>1, EndsIdle
<1> QED
  BY <1>2, <1>3, <1>4, Preserves

LEMMA RowIsMade == EntryRow \cap {NoEntry} = {}
  BY DEF EntryRow, NoEntry

LEMMA NewRow ==
  ASSUME NEW status \in {"draft", "posted"}, NEW p \in Periods, NEW d \in Dates, NEW v \in Lines,
         NEW k \in Keys \cup {None}, NEW o \in Ids \cup {None}
  PROVE  Entry(status, p, d, v, SumLines(v), k, o) \in EntryRow
  BY DEF Entry, EntryRow

LEMMA CommitCreatePreserves ==
  ASSUME LInv, NEW c \in Sessions, CommitCreate(c)
  PROVE  LInv' /\ EntriesKept
<1> DEFINE r == session[c]
           n == Entry(r.status, r.p, r.date, r.lines, SumLines(r.lines), r.key, None)
<1>1. r \in Request /\ r.op = "create"
  BY DEF LInv, Types, CommitCreate
<1>2. /\ r.status \in {"draft", "posted"} /\ r.p \in Periods /\ r.date \in Dates
      /\ r.lines \in Lines /\ r.key \in Keys \cup {None}
  BY <1>1 DEF Request, Idle
<1>3. n \in EntryRow
  BY <1>2, NewRow
<1>4. PICK i \in Ids : Fresh(i) /\ entry' = [entry EXCEPT ![i] = n]
  BY DEF CommitCreate
<1>5. i \notin Made /\ entry'[i] = n /\ \A j \in Ids : j # i => entry'[j] = entry[j]
  BY <1>4 DEF Fresh, LInv, Types
<1>6. entry' \in [Ids -> EntryRow \cup {NoEntry}]
  BY <1>3, <1>4 DEF LInv, Types
<1>7. Made' = Made \cup {i}
  BY <1>3, <1>5, RowIsMade DEF Made
<1>8. EntriesKept
  BY <1>5, <1>7 DEF EntriesKept, Made, Booked
<1>9. EntryOK(i)'
  <2>1. r.date \in Covers[r.p]
    BY <1>1 DEF LInv, RequestOK
  <2>2. n.date = r.date /\ n.period = r.p /\ n.of = None /\ n.lines = r.lines /\ n.status = r.status
    BY DEF Entry
  <2>3. i \in Booked' => Total(r.lines.dr) = Total(r.lines.cr)
    <3>1. i \in Booked' => r.status # "draft"
      BY <1>5, <2>2 DEF Booked
    <3>2. Balances(r.status, SumLines(r.lines))
      BY DEF CommitCreate
    <3> QED
      BY <3>1, <3>2 DEF Balances, SumLines
  <2> QED
    BY <1>5, <2>1, <2>2, <2>3 DEF EntryOK
<1>10. \A j \in Made : j \in Booked' => j \in Booked
  BY <1>5 DEF Booked, Made
<1>11. End(c) /\ UNCHANGED <<account, period>>
  BY DEF CommitCreate
<1> QED
  BY <1>6, <1>7, <1>8, <1>9, <1>10, <1>11, EntriesPreserve

LEMMA CommitPostPreserves ==
  ASSUME LInv, NEW c \in Sessions, CommitPost(c)
  PROVE  LInv' /\ EntriesKept
<1> DEFINE r == session[c]
           w == [entry[r.id] EXCEPT !.status = "posted", !.totals = SumLines(r.lines)]
<1>1. r \in Request /\ r.op = "post"
  BY DEF LInv, Types, CommitPost
<1>2. r.id \in Made /\ r.id \in Ids /\ r.lines = entry[r.id].lines /\ r.lines \in Lines
  BY <1>1 DEF LInv, RequestOK, Request, Idle, Made
<1>3. entry[r.id] \in EntryRow
  BY <1>2, MadeRow DEF LInv
<1>4. /\ w \in EntryRow /\ w.status = "posted"
      /\ w.lines = r.lines /\ w.period = entry[r.id].period
      /\ w.date = entry[r.id].date /\ w.of = entry[r.id].of
  <2>1. SumLines(r.lines) \in {SumLines(v) : v \in Lines}
    BY <1>2
  <2> QED
    BY <1>2, <1>3, <2>1 DEF EntryRow
<1>5. entry' = [entry EXCEPT ![r.id] = w]
  BY DEF CommitPost, LInv, Types
<1>6. entry'[r.id] = w /\ \A j \in Ids : j # r.id => entry'[j] = entry[j]
  BY <1>2, <1>5 DEF LInv, Types
<1>7. entry' \in [Ids -> EntryRow \cup {NoEntry}]
  BY <1>4, <1>5 DEF LInv, Types
<1>8. Made' = Made
  BY <1>2, <1>4, <1>6, RowIsMade DEF Made
<1>9. EntriesKept
  BY <1>2, <1>4, <1>6, <1>8 DEF EntriesKept, Made, Booked
<1>10. Total(r.lines.dr) = Total(r.lines.cr)
  BY DEF CommitPost, Balances, SumLines
<1>11. \A j \in Made : j \in Booked' /\ j \notin Booked =>
          Total(entry[j].lines.dr) = Total(entry[j].lines.cr)
  BY <1>2, <1>6, <1>10 DEF Booked, Made
<1>12. End(c) /\ UNCHANGED <<account, period>>
  BY DEF CommitPost
<1> QED
  BY <1>7, <1>8, <1>9, <1>11, <1>12, EntriesPreserve

LEMMA CommitReversePreserves ==
  ASSUME LInv, NEW c \in Sessions, CommitReverse(c)
  PROVE  LInv' /\ EntriesKept
<1> DEFINE r == session[c]
           m == Mirror(r.lines)
           n == Entry("posted", r.p, r.date, m, SumLines(m), None, r.id)
<1>1. r \in Request /\ r.op = "reverse"
  BY DEF LInv, Types, CommitReverse
<1>2. /\ r.id \in Booked /\ r.id \in Made /\ r.id \in Ids
      /\ r.lines = entry[r.id].lines /\ r.lines \in Lines
      /\ r.date \in Covers[r.p] /\ r.date \in Dates /\ r.p \in Periods
  BY <1>1 DEF LInv, RequestOK, Request, Idle, Made, Booked
<1>3. m \in Lines
  BY <1>2 DEF Mirror, Lines
<1>4. n \in EntryRow
  BY <1>2, <1>3, NewRow
<1>5. PICK i \in Ids : /\ Fresh(i)
                       /\ entry' = [entry EXCEPT ![i] = n, ![r.id].by = i, ![r.id].status = "reversed"]
  BY DEF CommitReverse
<1> DEFINE w == [entry[r.id] EXCEPT !.by = i, !.status = "reversed"]
<1>6. i \notin Made /\ i # r.id
  BY <1>2, <1>5 DEF Fresh
<1>7. /\ w \in EntryRow /\ w.status = "reversed"
      /\ w.lines = r.lines /\ w.period = entry[r.id].period
      /\ w.date = entry[r.id].date /\ w.of = entry[r.id].of
  <2>1. entry[r.id] \in EntryRow
    BY <1>2, MadeRow DEF LInv
  <2> QED
    BY <1>2, <2>1 DEF EntryRow
<1>8. entry' = [[entry EXCEPT ![i] = n] EXCEPT ![r.id] = w]
  BY <1>2, <1>5, <1>6 DEF LInv, Types
<1>9. /\ entry'[i] = n /\ entry'[r.id] = w
      /\ \A j \in Ids : j # i /\ j # r.id => entry'[j] = entry[j]
  BY <1>2, <1>6, <1>8 DEF LInv, Types
<1>10. entry' \in [Ids -> EntryRow \cup {NoEntry}]
  BY <1>4, <1>7, <1>8 DEF LInv, Types
<1>11. Made' = Made \cup {i}
  BY <1>2, <1>4, <1>7, <1>9, RowIsMade DEF Made
<1>12. EntriesKept
  BY <1>2, <1>6, <1>7, <1>9, <1>11 DEF EntriesKept, Made, Booked
<1>13. EntryOK(i)'
  <2>1. n.date = r.date /\ n.period = r.p /\ n.of = r.id /\ n.lines = m
    BY DEF Entry
  <2>2. Total(m.dr) = Total(m.cr)
    BY DEF CommitReverse, Balances, SumLines
  <2>3. r.id \in Made' /\ m = Mirror(entry'[r.id].lines)
    BY <1>2, <1>7, <1>9, <1>11
  <2> QED
    BY <1>2, <1>9, <2>1, <2>2, <2>3 DEF EntryOK
<1>14. \A j \in Made : j \in Booked' => j \in Booked
  BY <1>2, <1>6, <1>9 DEF Booked, Made
<1>15. End(c) /\ UNCHANGED <<account, period>>
  BY DEF CommitReverse
<1> QED
  BY <1>10, <1>11, <1>12, <1>13, <1>14, <1>15, EntriesPreserve

-----------------------------------------------------------------------------
(* Requests are begun with what the rows say.                              *)

LEMMA BeginsSwitch ==
  ASSUME LInv, NEW c \in Sessions, NEW a \in Accounts, DeactivateAccount(c, a) \/ ActivateAccount(c, a)
  PROVE  LInv'
<1>1. PICK to \in {"active", "inactive"} : Begin(c, [op |-> "switch", a |-> a, to |-> to])
  BY DEF DeactivateAccount, ActivateAccount
<1>2. [op |-> "switch", a |-> a, to |-> to] \in Request
  BY DEF Request
<1>3. RequestOK([op |-> "switch", a |-> a, to |-> to])
  BY DEF RequestOK
<1> QED
  BY <1>1, <1>2, <1>3, BeginPreserves

LEMMA BeginsPeriod ==
  ASSUME LInv, NEW c \in Sessions, NEW p \in Periods, CreatePeriod(c, p) \/ ClosePeriod(c, p)
  PROVE  LInv'
<1>1. PICK op \in {"period", "close"} : Begin(c, [op |-> op, p |-> p])
  BY DEF CreatePeriod, ClosePeriod
<1>2. [op |-> op, p |-> p] \in Request
  BY DEF Request
<1>3. RequestOK([op |-> op, p |-> p])
  BY DEF RequestOK
<1> QED
  BY <1>1, <1>2, <1>3, BeginPreserves

LEMMA BeginsCreation ==
  ASSUME LInv, NEW c \in Sessions, NEW p \in Periods, NEW d \in Dates, NEW x \in Data,
         CreateDraft(c, p, d, x) \/ CreateAndPost(c, p, d, x)
  PROVE  LInv'
<1>1. PICK status \in {"draft", "posted"} :
         /\ Begin(c, Creation(status, p, d, x))
         /\ d \in Covers[p]
         /\ status = "posted" => period[p] = "open"
  BY DEF CreateDraft, CreateAndPost, Valid, Postable
<1>2. Creation(status, p, d, x) \in Request
  BY LedgerAssumption DEF Creation, Request
<1>3. RequestOK(Creation(status, p, d, x))
  BY <1>1 DEF RequestOK, Creation, FoundOpen
<1> QED
  BY <1>1, <1>2, <1>3, BeginPreserves

LEMMA BeginsPost ==
  ASSUME LInv, NEW c \in Sessions, NEW i \in Ids, PostEntry(c, i)
  PROVE  LInv'
<1> DEFINE r == [op |-> "post", id |-> i, p |-> entry[i].period, lines |-> entry[i].lines]
<1>1. i \in Made /\ Begin(c, r) /\ period[entry[i].period] = "open"
  BY DEF PostEntry, Postable
<1>2. r \in Request
  BY <1>1, MadeRow DEF Request, LInv
<1>3. RequestOK(r)
  BY <1>1 DEF RequestOK, FoundOpen
<1> QED
  BY <1>1, <1>2, <1>3, BeginPreserves

LEMMA BeginsReversal ==
  ASSUME LInv, NEW c \in Sessions, NEW i \in Ids, NEW p \in Periods, NEW d \in Dates,
         ReverseEntry(c, i, p, d)
  PROVE  LInv'
<1> DEFINE r == [op |-> "reverse", id |-> i, p |-> p, date |-> d, lines |-> entry[i].lines]
<1>1. i \in Booked /\ i \in Made /\ Begin(c, r) /\ period[p] = "open" /\ d \in Covers[p]
  BY DEF ReverseEntry, Booked
<1>2. r \in Request
  BY <1>1, MadeRow DEF Request, LInv
<1>3. RequestOK(r)
  BY <1>1 DEF RequestOK, FoundOpen
<1> QED
  BY <1>1, <1>2, <1>3, BeginPreserves

-----------------------------------------------------------------------------
LEMMA StepPreserves == LInv /\ [Next]_vars => LInv'
<1> SUFFICES ASSUME LInv, [Next]_vars PROVE LInv'
  OBVIOUS
<1>1. CASE UNCHANGED vars
  <2>1. /\ entry' = entry /\ period' = period /\ raced' = raced
        /\ session' = session /\ account' = account
    BY <1>1 DEF vars
  <2>2. Types'
    BY <2>1 DEF LInv, Types
  <2>3. OpenKept
    BY <2>1, PeriodsKept DEF LInv
  <2> QED
    BY <2>1, <2>2, <2>3, SameEntries, Preserves
<1>2. ASSUME NEW a \in Accounts, CreateAccount(a) PROVE LInv'
  <2>1. /\ entry' = entry /\ period' = period /\ raced' = raced /\ session' = session
        /\ account' \in [Accounts -> {"absent", "active", "inactive"}]
    BY <1>2 DEF CreateAccount, LInv, Types
  <2>2. Types'
    BY <2>1 DEF LInv, Types
  <2>3. OpenKept
    BY <2>1, PeriodsKept DEF LInv
  <2> QED
    BY <2>1, <2>2, <2>3, SameEntries, Preserves
<1>3. ASSUME NEW c \in Sessions, CommitAccount(c) PROVE LInv'
  <2>1. session[c] \in Request /\ session[c].op = "switch"
    BY <1>3 DEF CommitAccount, LInv, Types
  <2>2. session[c].to \in {"active", "inactive"}
    BY <2>1 DEF Request, Idle
  <2>3. account' \in [Accounts -> {"absent", "active", "inactive"}]
    BY <1>3, <2>2 DEF CommitAccount, LInv, Types
  <2>4. /\ entry' = entry /\ period' = period /\ raced \subseteq raced'
        /\ session' = [session EXCEPT ![c] = Idle]
    BY <1>3 DEF CommitAccount, End
  <2>5. OpenKept
    BY <2>4, PeriodsKept DEF LInv
  <2> QED
    BY <2>3, <2>4, <2>5, EndPreserves DEF LInv, Types
<1>4. ASSUME NEW c \in Sessions, CommitPeriod(c) PROVE LInv'
  <2>1. /\ period' = [period EXCEPT ![session[c].p] = "open"] /\ period[session[c].p] = "absent"
        /\ entry' = entry /\ account' = account /\ raced \subseteq raced'
        /\ session' = [session EXCEPT ![c] = Idle]
    BY <1>4 DEF CommitPeriod, End
  <2>2. /\ period' \in [Periods -> {"absent", "open", "closed"}]
        /\ \A p \in Periods : period[p] = "open" => period'[p] = "open"
    BY <2>1 DEF LInv, Types
  <2>3. OpenKept
    BY <2>1, <2>2, PeriodsKept DEF LInv
  <2> QED
    BY <2>1, <2>2, <2>3, EndPreserves DEF LInv, Types
<1>5. ASSUME NEW c \in Sessions, CommitClose(c) PROVE LInv'
  <2>1. /\ period' \in [Periods -> {"absent", "open", "closed"}]
        /\ entry' = entry /\ account' = account /\ session' = [session EXCEPT ![c] = Idle]
    BY <1>5 DEF CommitClose, End, LInv, Types
  <2> QED
    BY <1>5, <2>1, CloseIsNoticed, EndPreserves DEF LInv, Types
<1>6. ASSUME NEW c \in Sessions, RollBack(c) PROVE LInv'
  <2>1. /\ entry' = entry /\ period' = period /\ account' = account /\ raced' = raced
        /\ session' = [session EXCEPT ![c] = Idle]
    BY <1>6 DEF RollBack
  <2>2. OpenKept
    BY <2>1, PeriodsKept DEF LInv
  <2> QED
    BY <2>1, <2>2, EndPreserves DEF LInv, Types
<1> QED
  BY <1>1, <1>2, <1>3, <1>4, <1>5, <1>6, BeginsSwitch, BeginsPeriod, BeginsCreation, BeginsPost,
     BeginsReversal, CommitCreatePreserves, CommitPostPreserves, CommitReversePreserves DEF Next

(* Every entry made and every request under way is sound.                  *)
THEOREM Invariance == Spec => []LInv
<1>1. Init => LInv
  BY InitEstablishes
<1>2. LInv /\ [Next]_vars => LInv'
  BY StepPreserves
<1> QED
  BY <1>1, <1>2, PTL DEF Spec

(* Every row is of its type, and every entry is dated within its period.   *)
THEOREM TypeCorrect == Spec => []TypeOK
<1>1. LInv => TypeOK
  BY DEF LInv, Types, EntryOK, EntryRow, NoEntry, Made, TypeOK
<1> QED
  BY <1>1, Invariance, PTL

(* Every entry in the books balances, whatever sessions raced.             *)
THEOREM BooksAlwaysBalance == Spec => []BooksBalance
<1>1. LInv => BooksBalance
  BY DEF LInv, BooksBalance, EntryOK, Booked
<1> QED
  BY <1>1, Invariance, PTL

(* Every reversal cancels the entry it reverses, account by account.       *)
THEOREM ReversalsCancel == Spec => []ReversalCancels
<1>1. LInv => ReversalCancels
  <2> SUFFICES ASSUME LInv, NEW i \in Made, entry[i].of # None, NEW a \in Accounts
               PROVE  entry[i].lines.dr[a] + entry[entry[i].of].lines.dr[a]
                      = entry[i].lines.cr[a] + entry[entry[i].of].lines.cr[a]
    BY DEF ReversalCancels
  <2> DEFINE v == entry[entry[i].of].lines
  <2>1. entry[i].of \in Made /\ entry[i].lines = Mirror(v)
    BY DEF LInv, EntryOK
  <2>2. v \in Lines
    BY <2>1, MadeRow DEF LInv, Made
  <2>3. v.dr[a] \in Nat /\ v.cr[a] \in Nat
    BY <2>2 DEF Lines
  <2>4. entry[i].lines.dr[a] = v.cr[a] /\ entry[i].lines.cr[a] = v.dr[a]
    BY <2>1 DEF Mirror
  <2> QED
    BY <2>3, <2>4
<1> QED
  BY <1>1, Invariance, PTL

-----------------------------------------------------------------------------
(* A step that books an entry finds its period open, or knows that it was  *)
(* closed by a session that raced with the one that books.                 *)
LEMMA BooksIntoOpen ==
  ASSUME LInv, [Next]_vars, NEW i \in Ids, i \in Booked', i \notin Booked
  PROVE  FoundOpen(entry'[i].period)
<1>1. entry' # entry
  BY SameEntries
<1>2. PICK c \in Sessions : CommitCreate(c) \/ CommitPost(c) \/ CommitReverse(c)
  BY <1>1 DEF Next, vars, CreateAccount, DeactivateAccount, ActivateAccount, CreatePeriod, ClosePeriod,
     CreateDraft, CreateAndPost, PostEntry, ReverseEntry, CommitAccount, CommitPeriod, CommitClose,
     RollBack, Begin
<1> DEFINE r == session[c]
<1>3. RequestOK(r)
  BY DEF LInv
<1>4. entry \in [Ids -> EntryRow \cup {NoEntry}]
  BY DEF LInv, Types
<1>5. CASE CommitCreate(c)
  <2> DEFINE n == Entry(r.status, r.p, r.date, r.lines, SumLines(r.lines), r.key, None)
  <2>1. PICK k \in Ids : entry' = [entry EXCEPT ![k] = n]
    BY <1>5 DEF CommitCreate
  <2>2. i = k
    BY <1>4, <2>1 DEF Booked, Made
  <2>3. entry'[i] = n /\ n.period = r.p /\ n.status = r.status
    BY <1>4, <2>1, <2>2 DEF Entry
  <2>4. r.status \in {"draft", "posted"}
    <3>1. r \in Request /\ r.op = "create"
      BY <1>5 DEF CommitCreate, LInv, Types
    <3> QED
      BY <3>1 DEF Request, Idle
  <2>5. r.status = "posted"
    BY <2>3, <2>4 DEF Booked
  <2> QED
    BY <1>3, <1>5, <2>3, <2>5 DEF RequestOK, CommitCreate
<1>6. CASE CommitPost(c)
  <2>1. r.op = "post" /\ r.id \in Ids
    BY <1>3, <1>6 DEF CommitPost, RequestOK, Made
  <2>2. i = r.id
    BY <1>4, <1>6, <2>1 DEF CommitPost, Booked, Made
  <2>3. entry[i] \in EntryRow
    BY <1>3, <2>1, <2>2, MadeRow DEF RequestOK, LInv
  <2>4. entry'[i].period = entry[i].period
    <3>1. entry' = [entry EXCEPT ![i] = [entry[i] EXCEPT !.status = "posted", !.totals = SumLines(r.lines)]]
      BY <1>4, <1>6, <2>2 DEF CommitPost
    <3>2. entry'[i] = [entry[i] EXCEPT !.status = "posted", !.totals = SumLines(r.lines)]
      BY <1>4, <3>1
    <3> QED
      BY <2>3, <3>2 DEF EntryRow
  <2> QED
    BY <1>3, <2>1, <2>2, <2>4 DEF RequestOK
<1>7. CASE CommitReverse(c)
  <2> DEFINE m == Mirror(r.lines)
             n == Entry("posted", r.p, r.date, m, SumLines(m), None, r.id)
  <2>1. r.op = "reverse" /\ r.id \in Booked
    BY <1>3, <1>7 DEF CommitReverse, RequestOK
  <2>2. PICK k \in Ids : entry' = [entry EXCEPT ![k] = n, ![r.id].by = k, ![r.id].status = "reversed"]
    BY <1>7 DEF CommitReverse
  <2>3. i # r.id
    BY <2>1
  <2>4. i = k
    BY <1>4, <2>2, <2>3 DEF Booked, Made
  <2>5. entry'[i] = n /\ n.period = r.p
    BY <1>4, <2>2, <2>3, <2>4 DEF Entry
  <2> QED
    BY <1>3, <2>1, <2>5 DEF RequestOK
<1> QED
  BY <1>2, <1>5, <1>6, <1>7

(* Every step keeps what is in the books.                                  *)
LEMMA StepKeepsEntries ==
  ASSUME LInv, [Next]_vars
  PROVE  EntriesKept
<1>1. CASE entry' = entry
  BY <1>1, SameEntries
<1>2. CASE entry' # entry
  <2>1. PICK c \in Sessions : CommitCreate(c) \/ CommitPost(c) \/ CommitReverse(c)
    BY <1>2 DEF Next, vars, CreateAccount, DeactivateAccount, ActivateAccount, CreatePeriod,
       ClosePeriod, CreateDraft, CreateAndPost, PostEntry, ReverseEntry, CommitAccount,
       CommitPeriod, CommitClose, RollBack, Begin
  <2> QED
    BY <2>1, CommitCreatePreserves, CommitPostPreserves, CommitReversePreserves
<1> QED
  BY <1>1, <1>2

(* A closed period is closed for good.                                     *)
LEMMA ClosedStays ==
  ASSUME LInv, [Next]_vars, NEW p \in Periods, period[p] = "closed"
  PROVE  period'[p] = "closed"
<1>1. CASE period' = period
  BY <1>1
<1>2. CASE period' # period
  <2>1. PICK c \in Sessions : CommitPeriod(c) \/ CommitClose(c)
    BY <1>2 DEF Next, vars, CreateAccount, DeactivateAccount, ActivateAccount, CreatePeriod,
       ClosePeriod, CreateDraft, CreateAndPost, PostEntry, ReverseEntry, CommitAccount,
       CommitCreate, CommitPost, CommitReverse, RollBack, Begin
  <2> QED
    BY <2>1 DEF CommitPeriod, CommitClose, LInv, Types
<1> QED
  BY <1>1, <1>2

(* A closed period stays closed, and its books stay as they are unless a   *)
(* session that had found it open raced with its closing.                  *)
THEOREM ClosedStaysClosed == Spec => ClosedIsFinal
<1>1. ASSUME LInv, [Next]_vars, NEW p \in Periods, period[p] # "open", <<"period", p>> \notin raced
      PROVE  BooksOf(p)' = BooksOf(p)
  <2>1. /\ \A i \in Booked : /\ i \in Booked' /\ entry'[i].lines = entry[i].lines
                             /\ entry'[i].date = entry[i].date
                             /\ entry'[i].period = entry[i].period
    BY <1>1, StepKeepsEntries DEF EntriesKept, Booked
  <2>2. ASSUME NEW i \in Booked', i \notin Booked PROVE entry'[i].period # p
    <3>1. i \in Ids
      BY <2>2 DEF Booked, Made
    <3> QED
      BY <1>1, <2>2, <3>1, BooksIntoOpen DEF FoundOpen
  <2>3. {j \in Booked' : entry'[j].period = p} = {j \in Booked : entry[j].period = p}
    BY <2>1, <2>2
  <2> QED
    BY <2>1, <2>3 DEF BooksOf
<1>2. LInv /\ [Next]_vars =>
        [\A p \in Periods :
            /\ period[p] = "closed" => period'[p] = "closed"
            /\ period[p] # "open" /\ <<"period", p>> \notin raced => BooksOf(p)' = BooksOf(p)]_vars
  BY <1>1, ClosedStays
<1> QED
  BY <1>2, Invariance, PTL DEF Spec, ClosedIsFinal

-----------------------------------------------------------------------------
(* What only races break.  A request that nobody raced with still sees     *)
(* what it has checked: the entry it posts is a draft, the one it reverses *)
(* was not reversed, the accounts it books on are active, the one it       *)
(* switches off is in no book, the periods do not cover the new one.       *)
Unraced(kind, x) == <<kind, x>> \notin raced

Mirrors(i) == {j \in Made : entry[j].of = i}

Told(i) ==
    Unraced("entry", i) => /\ Mirrors(i) = {entry[i].by} \ {None}
                           /\ (entry[i].status = "reversed") = (Mirrors(i) # {})

KnowsEntry(r) ==
    /\ r.op = "post" /\ Unraced("entry", r.id) => entry[r.id].status = "draft"
    /\ r.op = "reverse" /\ Unraced("entry", r.id) => entry[r.id].by = None

EntriesTell ==
    /\ \A i \in Made : Told(i)
    /\ \A c \in Sessions : KnowsEntry(session[c])

Books(r) == r.op = "post" \/ (r.op = "create" /\ r.status = "posted")

KnowsAccounts(r) ==
    /\ Books(r) => \A a \in Used(r.lines) : Unraced("account", a) => account[a] = "active"
    /\ r.op = "switch" /\ r.to = "inactive" /\ Unraced("account", r.a) => ~UsedInBooks(r.a)

AccountsTell ==
    /\ \A a \in Accounts : account[a] = "inactive" /\ Unraced("account", a) => ~UsedInBooks(a)
    /\ \A c \in Sessions : KnowsAccounts(session[c])

Apart(p) == \A q \in Periods : p # q /\ period[q] # "absent" => Covers[p] \cap Covers[q] = {}

PeriodsTell ==
    /\ \A c \in Sessions : session[c].op = "close" => period[session[c].p] # "absent"
    /\ Unraced("periods", None) =>
          /\ \A p \in Periods : period[p] # "absent" => Apart(p)
          /\ \A c \in Sessions : session[c].op = "period" => Apart(session[c].p)

RInv == LInv /\ EntriesTell /\ AccountsTell /\ PeriodsTell

-----------------------------------------------------------------------------
LEMMA RacesTold ==
  ASSUME NEW c \in Sessions, NEW d \in Sessions \ {c}, NEW x, End(c),
         x \in Writes(session[c]), x \in Reads(session[d])
  PROVE  x \in raced'
  BY DEF End

LEMMA RacesStay ==
  ASSUME [Next]_vars
  PROVE  raced \subseteq raced'
<1>1. ASSUME NEW c \in Sessions, End(c) PROVE raced \subseteq raced'
  BY <1>1 DEF End
<1>2. ASSUME NEW c \in Sessions, NEW r, Begin(c, r) PROVE raced \subseteq raced'
  BY <1>2 DEF Begin
<1>3. ASSUME NEW c \in Sessions, CommitAccount(c) \/ CommitPeriod(c) \/ CommitClose(c)
                                 \/ CommitCreate(c) \/ CommitPost(c) \/ CommitReverse(c) \/ RollBack(c)
      PROVE  raced \subseteq raced'
  BY <1>1, <1>3 DEF CommitAccount, CommitPeriod, CommitClose, CommitCreate, CommitPost, CommitReverse, RollBack
<1>4. (\E a \in Accounts : CreateAccount(a)) \/ UNCHANGED vars => raced \subseteq raced'
  BY DEF CreateAccount, vars
<1>5. ASSUME NEW c \in Sessions, NEW a \in Accounts, DeactivateAccount(c, a) \/ ActivateAccount(c, a)
      PROVE  raced \subseteq raced'
  BY <1>2, <1>5 DEF DeactivateAccount, ActivateAccount
<1>6. ASSUME NEW c \in Sessions, NEW p \in Periods, CreatePeriod(c, p) \/ ClosePeriod(c, p)
      PROVE  raced \subseteq raced'
  BY <1>2, <1>6 DEF CreatePeriod, ClosePeriod
<1>7. ASSUME NEW c \in Sessions, NEW p \in Periods, NEW e \in Dates, NEW x \in Data,
             CreateDraft(c, p, e, x) \/ CreateAndPost(c, p, e, x)
      PROVE  raced \subseteq raced'
  BY <1>2, <1>7 DEF CreateDraft, CreateAndPost
<1>8. ASSUME NEW c \in Sessions, NEW i \in Ids,
             PostEntry(c, i) \/ \E p \in Periods, e \in Dates : ReverseEntry(c, i, p, e)
      PROVE  raced \subseteq raced'
  BY <1>2, <1>8 DEF PostEntry, ReverseEntry
<1> QED
  BY <1>3, <1>4, <1>5, <1>6, <1>7, <1>8 DEF Next

(* A request is begun knowing what it will rely on, and nothing else moves.*)
LEMMA Begun ==
  ASSUME LInv, [Next]_vars, NEW d \in Sessions, session'[d] # session[d]
  PROVE  \/ session'[d] = Idle
         \/ /\ UNCHANGED <<account, period, entry, raced>>
            /\ KnowsEntry(session'[d]) /\ KnowsAccounts(session'[d])
            /\ session'[d].op = "period" => Apart(session'[d].p)
            /\ session'[d].op = "close" => period[session'[d].p] # "absent"
<1>1. session \in [Sessions -> Request] /\ entry \in [Ids -> EntryRow \cup {NoEntry}]
  BY DEF LInv, Types
<1>2. ASSUME NEW c \in Sessions, NEW a \in Accounts, DeactivateAccount(c, a) \/ ActivateAccount(c, a)
      PROVE  /\ UNCHANGED <<account, period, entry, raced>>
             /\ KnowsEntry(session'[d]) /\ KnowsAccounts(session'[d])
             /\ session'[d].op = "period" => Apart(session'[d].p)
             /\ session'[d].op = "close" => period[session'[d].p] # "absent"
  BY <1>1, <1>2 DEF DeactivateAccount, ActivateAccount, Begin, KnowsEntry, KnowsAccounts, Books
<1>3. ASSUME NEW c \in Sessions, NEW p \in Periods, CreatePeriod(c, p) \/ ClosePeriod(c, p)
      PROVE  /\ UNCHANGED <<account, period, entry, raced>>
             /\ KnowsEntry(session'[d]) /\ KnowsAccounts(session'[d])
             /\ session'[d].op = "period" => Apart(session'[d].p)
             /\ session'[d].op = "close" => period[session'[d].p] # "absent"
  BY <1>1, <1>3 DEF CreatePeriod, ClosePeriod, Begin, KnowsEntry, KnowsAccounts, Books, Apart
<1>4. ASSUME NEW c \in Sessions, NEW p \in Periods, NEW e \in Dates, NEW x \in Data,
             CreateDraft(c, p, e, x) \/ CreateAndPost(c, p, e, x)
      PROVE  /\ UNCHANGED <<account, period, entry, raced>>
             /\ KnowsEntry(session'[d]) /\ KnowsAccounts(session'[d])
             /\ session'[d].op = "period" => Apart(session'[d].p)
             /\ session'[d].op = "close" => period[session'[d].p] # "absent"
  BY <1>1, <1>4 DEF CreateDraft, CreateAndPost, Begin, Creation, Valid, KnowsEntry, KnowsAccounts, Books
<1>5. ASSUME NEW c \in Sessions, NEW i \in Ids, PostEntry(c, i)
      PROVE  /\ UNCHANGED <<account, period, entry, raced>>
             /\ KnowsEntry(session'[d]) /\ KnowsAccounts(session'[d])
             /\ session'[d].op = "period" => Apart(session'[d].p)
             /\ session'[d].op = "close" => period[session'[d].p] # "absent"
  BY <1>1, <1>5 DEF PostEntry, Begin, Postable, KnowsEntry, KnowsAccounts, Books
<1>6. ASSUME NEW c \in Sessions, NEW i \in Ids, NEW p \in Periods, NEW e \in Dates, ReverseEntry(c, i, p, e)
      PROVE  /\ UNCHANGED <<account, period, entry, raced>>
             /\ KnowsEntry(session'[d]) /\ KnowsAccounts(session'[d])
             /\ session'[d].op = "period" => Apart(session'[d].p)
             /\ session'[d].op = "close" => period[session'[d].p] # "absent"
  BY <1>1, <1>6 DEF ReverseEntry, Begin, KnowsEntry, KnowsAccounts, Books
<1>7. ASSUME NEW c \in Sessions, session' = [session EXCEPT ![c] = Idle] PROVE session'[d] = Idle
  BY <1>1, <1>7
<1>8. (\E a \in Accounts : CreateAccount(a)) \/ UNCHANGED vars => session' = session
  BY DEF CreateAccount, vars
<1>9. ASSUME NEW c \in Sessions, CommitAccount(c) \/ CommitPeriod(c) \/ CommitClose(c)
                                 \/ CommitCreate(c) \/ CommitPost(c) \/ CommitReverse(c) \/ RollBack(c)
      PROVE  session' = [session EXCEPT ![c] = Idle]
  BY <1>9 DEF CommitAccount, CommitPeriod, CommitClose, CommitCreate, CommitPost, CommitReverse, RollBack, End
<1> QED
  BY <1>2, <1>3, <1>4, <1>5, <1>6, <1>7, <1>8, <1>9 DEF Next

-----------------------------------------------------------------------------
(* What each commit does to the entries.                                   *)
LEMMA Creates ==
  ASSUME LInv, NEW c \in Sessions, CommitCreate(c)
  PROVE  \E i \in Ids :
            /\ i \notin Made /\ Made' = Made \cup {i}
            /\ \A j \in Ids \ {i} : entry'[j] = entry[j]
            /\ entry'[i].status = session[c].status /\ entry'[i].lines = session[c].lines
            /\ entry'[i].of = None /\ entry'[i].by = None
<1> DEFINE r == session[c]
           n == Entry(r.status, r.p, r.date, r.lines, SumLines(r.lines), r.key, None)
<1>1. PICK i \in Ids : Fresh(i) /\ entry' = [entry EXCEPT ![i] = n]
  BY DEF CommitCreate
<1>2. i \notin Made /\ entry'[i] = n /\ \A j \in Ids : j # i => entry'[j] = entry[j]
  BY <1>1 DEF Fresh, LInv, Types
<1>3. n # NoEntry
  BY DEF Entry, NoEntry
<1>4. Made' = Made \cup {i}
  BY <1>2, <1>3 DEF Made
<1>5. n.status = r.status /\ n.lines = r.lines /\ n.of = None /\ n.by = None
  BY DEF Entry
<1> QED
  BY <1>2, <1>4, <1>5

LEMMA Posts ==
  ASSUME LInv, NEW c \in Sessions, CommitPost(c)
  PROVE  LET i == session[c].id IN
            /\ i \in Made /\ Made' = Made
            /\ \A j \in Ids \ {i} : entry'[j] = entry[j]
            /\ entry'[i].status = "posted" /\ entry'[i].lines = entry[i].lines
            /\ entry'[i].of = entry[i].of /\ entry'[i].by = entry[i].by
            /\ session[c].op = "post" /\ session[c].lines = entry[i].lines
<1> DEFINE r == session[c]
           w == [entry[r.id] EXCEPT !.status = "posted", !.totals = SumLines(r.lines)]
<1>1. r.op = "post" /\ r.id \in Made /\ r.id \in Ids /\ r.lines = entry[r.id].lines
  BY DEF LInv, RequestOK, Made, CommitPost
<1>2. entry[r.id] \in EntryRow
  BY <1>1, MadeRow DEF LInv
<1>3. /\ w.status = "posted" /\ w.lines = entry[r.id].lines /\ w.of = entry[r.id].of /\ w.by = entry[r.id].by
  BY <1>2 DEF EntryRow
<1>4. entry' = [entry EXCEPT ![r.id] = w]
  BY DEF CommitPost, LInv, Types
<1>5. entry'[r.id] = w /\ \A j \in Ids : j # r.id => entry'[j] = entry[j]
  BY <1>1, <1>4 DEF LInv, Types
<1>6. w # NoEntry
  BY <1>2 DEF EntryRow, NoEntry
<1>7. Made' = Made
  BY <1>1, <1>5, <1>6 DEF Made
<1> QED
  BY <1>1, <1>3, <1>5, <1>7

LEMMA Reverses ==
  ASSUME LInv, NEW c \in Sessions, CommitReverse(c)
  PROVE  LET o == session[c].id IN
         /\ o \in Booked /\ session[c].op = "reverse" /\ session[c].lines = entry[o].lines
         /\ entry[o].lines \in Lines
         /\ \E i \in Ids :
            /\ i \notin Made /\ Made' = Made \cup {i}
            /\ \A j \in Ids \ {i, o} : entry'[j] = entry[j]
            /\ entry'[i].status = "posted" /\ entry'[i].lines = Mirror(entry[o].lines)
            /\ entry'[i].of = o /\ entry'[i].by = None
            /\ entry'[o].status = "reversed" /\ entry'[o].lines = entry[o].lines
            /\ entry'[o].of = entry[o].of /\ entry'[o].by = i
<1> DEFINE r == session[c]
           m == Mirror(r.lines)
           n == Entry("posted", r.p, r.date, m, SumLines(m), None, r.id)
<1>1. /\ r.op = "reverse" /\ r.id \in Booked /\ r.id \in Made /\ r.id \in Ids
      /\ r.lines = entry[r.id].lines
  BY DEF LInv, RequestOK, Made, Booked, CommitReverse
<1>2. PICK i \in Ids : /\ Fresh(i)
                       /\ entry' = [entry EXCEPT ![i] = n, ![r.id].by = i, ![r.id].status = "reversed"]
  BY DEF CommitReverse
<1> DEFINE w == [entry[r.id] EXCEPT !.by = i, !.status = "reversed"]
<1>3. i \notin Made /\ i # r.id
  BY <1>1, <1>2 DEF Fresh
<1>4. entry[r.id] \in EntryRow
  BY <1>1, MadeRow DEF LInv
<1>5. /\ w.status = "reversed" /\ w.lines = entry[r.id].lines /\ w.of = entry[r.id].of /\ w.by = i
  BY <1>4 DEF EntryRow
<1>6. entry' = [[entry EXCEPT ![i] = n] EXCEPT ![r.id] = w]
  BY <1>1, <1>2, <1>3 DEF LInv, Types
<1>7. /\ entry'[i] = n /\ entry'[r.id] = w
      /\ \A j \in Ids : j # i /\ j # r.id => entry'[j] = entry[j]
  BY <1>1, <1>3, <1>6 DEF LInv, Types
<1>8. n # NoEntry /\ w # NoEntry
  BY <1>4 DEF EntryRow, NoEntry, Entry
<1>9. Made' = Made \cup {i}
  BY <1>1, <1>7, <1>8 DEF Made
<1>10. n.status = "posted" /\ n.lines = m /\ n.of = r.id /\ n.by = None
  BY DEF Entry
<1>11. entry[r.id].lines \in Lines
  BY <1>4 DEF EntryRow
<1> QED
  BY <1>1, <1>3, <1>5, <1>7, <1>9, <1>10, <1>11
-----------------------------------------------------------------------------
LEMMA WhatMovesEntries ==
  ASSUME [Next]_vars
  PROVE  entry' = entry \/ \E c \in Sessions : CommitCreate(c) \/ CommitPost(c) \/ CommitReverse(c)
  BY DEF Next, vars, CreateAccount, DeactivateAccount, ActivateAccount, CreatePeriod, ClosePeriod,
     CreateDraft, CreateAndPost, PostEntry, ReverseEntry, CommitAccount, CommitPeriod, CommitClose,
     RollBack, Begin

(* The steps that begin a request move nothing else.                       *)
LEMMA BeginsMoveNothing ==
  ASSUME NEW c \in Sessions,
         \/ \E a \in Accounts : DeactivateAccount(c, a) \/ ActivateAccount(c, a)
         \/ \E p \in Periods : CreatePeriod(c, p) \/ ClosePeriod(c, p)
         \/ \E p \in Periods, d \in Dates, x \in Data : CreateDraft(c, p, d, x) \/ CreateAndPost(c, p, d, x)
         \/ \E i \in Ids : PostEntry(c, i)
         \/ \E i \in Ids, p \in Periods, d \in Dates : ReverseEntry(c, i, p, d)
  PROVE  UNCHANGED <<account, period, entry, raced>>
  BY DEF DeactivateAccount, ActivateAccount, CreatePeriod, ClosePeriod, CreateDraft, CreateAndPost,
     PostEntry, ReverseEntry, Begin

LEMMA WhatMovesAccounts ==
  ASSUME [Next]_vars
  PROVE  \/ account' = account
         \/ /\ entry' = entry /\ session' = session
            /\ \E a \in Accounts : account[a] = "absent" /\ account' = [account EXCEPT ![a] = "active"]
         \/ \E c \in Sessions : CommitAccount(c)
<1>1. ASSUME NEW c \in Sessions, CommitPeriod(c) \/ CommitClose(c) \/ CommitCreate(c) \/ CommitPost(c)
                                 \/ CommitReverse(c) \/ RollBack(c)
      PROVE  account' = account
  BY <1>1 DEF CommitPeriod, CommitClose, CommitCreate, CommitPost, CommitReverse, RollBack
<1>2. UNCHANGED vars => account' = account
  BY DEF vars
<1>3. ASSUME NEW a \in Accounts, CreateAccount(a)
      PROVE  /\ entry' = entry /\ session' = session
             /\ account[a] = "absent" /\ account' = [account EXCEPT ![a] = "active"]
  BY <1>3 DEF CreateAccount
<1> QED
  BY <1>1, <1>2, <1>3, BeginsMoveNothing DEF Next

LEMMA WhatMovesPeriods ==
  ASSUME [Next]_vars
  PROVE  period' = period \/ \E c \in Sessions : CommitPeriod(c) \/ CommitClose(c)
<1>1. ASSUME NEW c \in Sessions, CommitAccount(c) \/ CommitCreate(c) \/ CommitPost(c)
                                 \/ CommitReverse(c) \/ RollBack(c)
      PROVE  period' = period
  BY <1>1 DEF CommitAccount, CommitCreate, CommitPost, CommitReverse, RollBack
<1>2. UNCHANGED vars \/ (\E a \in Accounts : CreateAccount(a)) => period' = period
  BY DEF vars, CreateAccount
<1> QED
  BY <1>1, <1>2, BeginsMoveNothing DEF Next

-----------------------------------------------------------------------------
(* Entries and their reversals.                                            *)

(* What a request knows of its entry it still knows, unless the row was    *)
(* written under it.                                                       *)
LEMMA EntryKnown ==
  ASSUME LInv, [Next]_vars, EntriesTell, NEW d \in Sessions,
         session'[d] = session[d] /\ session[d].op \in {"post", "reverse"} /\ <<"entry", session[d].id>> \notin raced' =>
             /\ entry'[session[d].id].status = entry[session[d].id].status
             /\ entry'[session[d].id].by = entry[session[d].id].by
  PROVE  KnowsEntry(session[d])'
<1>1. CASE session'[d] # session[d]
  <2>1. CASE session'[d] = Idle
    BY <2>1 DEF KnowsEntry, Idle
  <2>2. CASE entry' = entry /\ raced' = raced /\ KnowsEntry(session'[d])
    BY <2>2 DEF KnowsEntry, Unraced
  <2> QED
    BY <1>1, <2>1, <2>2, Begun
<1>2. CASE session'[d] = session[d]
  <2>1. KnowsEntry(session[d])
    BY DEF EntriesTell
  <2>2. raced \subseteq raced'
    BY RacesStay
  <2> QED
    BY <1>2, <2>1, <2>2 DEF KnowsEntry, Unraced
<1> QED
  BY <1>1, <1>2

LEMMA EntriesStillTell ==
  ASSUME LInv, [Next]_vars, EntriesTell
  PROVE  EntriesTell'
<1>1. raced \subseteq raced'
  BY RacesStay
<1>2. CASE entry' = entry
  <2>1. Made' = Made
    BY <1>2 DEF Made
  <2>2. ASSUME NEW i \in Made PROVE Told(i)'
    BY <1>1, <1>2, <2>1 DEF EntriesTell, Told, Mirrors, Unraced
  <2>3. ASSUME NEW d \in Sessions PROVE KnowsEntry(session[d])'
    BY <1>2, EntryKnown
  <2> QED
    BY <2>1, <2>2, <2>3 DEF EntriesTell
<1>3. ASSUME NEW c \in Sessions, CommitCreate(c) PROVE EntriesTell'
  <2>1. PICK i \in Ids : /\ i \notin Made /\ Made' = Made \cup {i}
                         /\ \A j \in Ids \ {i} : entry'[j] = entry[j]
                         /\ entry'[i].status = session[c].status
                         /\ entry'[i].of = None /\ entry'[i].by = None
    BY <1>3, Creates
  <2>2. session[c].status \in {"draft", "posted"}
    <3>1. session[c] \in Request /\ session[c].op = "create"
      BY <1>3 DEF CommitCreate, LInv, Types
    <3> QED
      BY <3>1 DEF Request, Idle
  <2>3. ASSUME NEW k \in Made' PROVE Told(k)'
    <3>1. k \in Ids /\ k # None
      BY LedgerAssumption DEF Made
    <3>2. CASE k = i
      <4>1. Mirrors(k)' = {}
        <5>1. \A j \in Made : entry'[j] = entry[j] /\ entry[j].of # i
          BY <2>1, LedgerAssumption DEF LInv, EntryOK, Made
        <5> QED
          BY <2>1, <3>1, <3>2, <5>1 DEF Mirrors
      <4> QED
        BY <2>1, <2>2, <3>2, <4>1 DEF Told
    <3>3. CASE k # i
      <4>1. Mirrors(k)' = Mirrors(k)
        BY <2>1, <3>1 DEF Mirrors, Made
      <4> QED
        BY <1>1, <2>1, <3>1, <3>3, <4>1 DEF Told, EntriesTell, Unraced
    <3> QED
      BY <3>2, <3>3
  <2>4. ASSUME NEW d \in Sessions PROVE KnowsEntry(session[d])'
    <3>1. session[d].op \in {"post", "reverse"} => session[d].id \in Made
      BY DEF LInv, RequestOK, Booked
    <3> QED
      BY <2>1, <3>1, EntryKnown DEF Made
  <2> QED
    BY <2>3, <2>4 DEF EntriesTell
<1>4. ASSUME NEW c \in Sessions, CommitPost(c) PROVE EntriesTell'
  <2> DEFINE i == session[c].id
  <2>1. /\ i \in Made /\ Made' = Made
        /\ \A j \in Ids \ {i} : entry'[j] = entry[j]
        /\ entry'[i].status = "posted" /\ entry'[i].of = entry[i].of /\ entry'[i].by = entry[i].by
        /\ session[c].op = "post"
    BY <1>4, Posts
  <2>2. ASSUME NEW k \in Made' PROVE Told(k)'
    <3>1. Mirrors(k)' = Mirrors(k)
      BY <2>1 DEF Mirrors, Made
    <3>2. CASE k = i
      <4>1. KnowsEntry(session[c]) /\ Told(k)
        BY <2>1, <3>2 DEF EntriesTell
      <4> QED
        BY <1>1, <2>1, <3>1, <3>2, <4>1 DEF Told, KnowsEntry, Unraced
    <3>3. CASE k # i
      BY <1>1, <2>1, <3>1, <3>3 DEF Told, EntriesTell, Unraced, Made
    <3> QED
      BY <3>2, <3>3
  <2>3. ASSUME NEW d \in Sessions PROVE KnowsEntry(session[d])'
    <3>1. ASSUME session'[d] = session[d], session[d].op \in {"post", "reverse"}, session[d].id = i
          PROVE  <<"entry", i>> \in raced'
      <4>1. session'[c] = Idle /\ End(c)
        BY <1>4 DEF CommitPost, End, LInv, Types
      <4>2. d # c
        BY <2>1, <3>1, <4>1 DEF Idle
      <4>3. <<"entry", i>> \in Writes(session[c])
        BY <2>1 DEF Writes, Rows
      <4>4. <<"entry", i>> \in Reads(session[d])
        BY <3>1 DEF Reads, Rows
      <4> QED
        BY <4>1, <4>2, <4>3, <4>4, RacesTold
    <3>2. session[d].op \in {"post", "reverse"} => session[d].id \in Ids
      BY DEF LInv, RequestOK, Booked, Made
    <3> QED
      BY <2>1, <3>1, <3>2, EntryKnown
  <2> QED
    BY <2>2, <2>3 DEF EntriesTell
<1>5. ASSUME NEW c \in Sessions, CommitReverse(c) PROVE EntriesTell'
  <2> DEFINE o == session[c].id
  <2>1. o \in Booked /\ o \in Made /\ session[c].op = "reverse"
    BY <1>5, Reverses DEF Booked
  <2>2. PICK i \in Ids : /\ i \notin Made /\ Made' = Made \cup {i}
                         /\ \A j \in Ids \ {i, o} : entry'[j] = entry[j]
                         /\ entry'[i].status = "posted" /\ entry'[i].of = o /\ entry'[i].by = None
                         /\ entry'[o].status = "reversed" /\ entry'[o].of = entry[o].of /\ entry'[o].by = i
    BY <1>5, Reverses
  <2>3. ASSUME NEW k \in Made' PROVE Told(k)'
    <3>1. k \in Ids /\ k # None /\ i # None
      BY LedgerAssumption DEF Made
    <3>2. \A j \in Made : entry'[j].of = entry[j].of /\ entry[j].of # i
      BY <2>1, <2>2, <3>1, LedgerAssumption DEF LInv, EntryOK, Made
    <3>3. CASE k = i
      <4>1. Mirrors(k)' = {}
        BY <2>1, <2>2, <3>2, <3>3 DEF Mirrors
      <4> QED
        BY <2>2, <3>3, <4>1 DEF Told
    <3>4. CASE k = o
      <4>1. Mirrors(k)' = Mirrors(k) \cup {i}
        BY <2>2, <3>2, <3>4 DEF Mirrors
      <4>2. Told(k) /\ KnowsEntry(session[c])
        BY <2>1, <3>4 DEF EntriesTell
      <4>3. <<"entry", k>> \notin raced' => Mirrors(k) = {}
        BY <1>1, <2>1, <3>4, <4>2 DEF Told, KnowsEntry, Unraced
      <4> QED
        BY <2>2, <3>1, <3>4, <4>1, <4>3 DEF Told, Unraced
    <3>5. CASE k # i /\ k # o
      <4>1. Mirrors(k)' = Mirrors(k)
        BY <2>2, <3>2, <3>5 DEF Mirrors
      <4> QED
        BY <1>1, <2>2, <3>1, <3>5, <4>1 DEF Told, EntriesTell, Unraced
    <3> QED
      BY <3>3, <3>4, <3>5
  <2>4. ASSUME NEW d \in Sessions PROVE KnowsEntry(session[d])'
    <3>1. ASSUME session'[d] = session[d], session[d].op \in {"post", "reverse"}, session[d].id = o
          PROVE  <<"entry", o>> \in raced'
      <4>1. session'[c] = Idle /\ End(c)
        BY <1>5 DEF CommitReverse, End, LInv, Types
      <4>2. d # c
        BY <2>1, <3>1, <4>1 DEF Idle
      <4>3. <<"entry", o>> \in Writes(session[c])
        BY <2>1 DEF Writes, Rows
      <4>4. <<"entry", o>> \in Reads(session[d])
        BY <3>1 DEF Reads, Rows
      <4> QED
        BY <4>1, <4>2, <4>3, <4>4, RacesTold
    <3>2. session[d].op \in {"post", "reverse"} => session[d].id \in Made
      BY DEF LInv, RequestOK, Booked
    <3> QED
      BY <2>2, <3>1, <3>2, EntryKnown DEF Made
  <2> QED
    BY <2>3, <2>4 DEF EntriesTell
<1> QED
  BY <1>2, <1>3, <1>4, <1>5, WhatMovesEntries
-----------------------------------------------------------------------------
(* Accounts and what is booked on them.                                    *)

(* An account comes into the books by a request that knew it active.       *)
LEMMA BooksGrow ==
  ASSUME LInv, [Next]_vars, NEW a \in Accounts, UsedInBooks(a)', ~UsedInBooks(a)
  PROVE  \E c \in Sessions : /\ CommitCreate(c) \/ CommitPost(c)
                             /\ Books(session[c]) /\ a \in Used(session[c].lines)
<1>1. entry' # entry
  BY DEF UsedInBooks, Booked, Made
<1>2. PICK i \in Booked' : a \in Used(entry'[i].lines)
  BY DEF UsedInBooks
<1>3. \A j \in Booked : a \notin Used(entry[j].lines)
  BY DEF UsedInBooks
<1>4. ASSUME NEW c \in Sessions, CommitCreate(c)
      PROVE  Books(session[c]) /\ a \in Used(session[c].lines)
  <2>1. PICK n \in Ids : /\ n \notin Made /\ Made' = Made \cup {n}
                         /\ \A j \in Ids \ {n} : entry'[j] = entry[j]
                         /\ entry'[n].status = session[c].status /\ entry'[n].lines = session[c].lines
    BY <1>4, Creates
  <2>2. i = n
    BY <1>2, <1>3, <2>1 DEF Booked, Made
  <2>3. session[c] \in Request /\ session[c].op = "create"
    BY <1>4 DEF CommitCreate, LInv, Types
  <2>4. session[c].status \in {"draft", "posted"}
    BY <2>3 DEF Request, Idle
  <2> QED
    BY <1>2, <2>1, <2>2, <2>3, <2>4 DEF Booked, Books
<1>5. ASSUME NEW c \in Sessions, CommitPost(c)
      PROVE  Books(session[c]) /\ a \in Used(session[c].lines)
  <2> DEFINE n == session[c].id
  <2>1. /\ n \in Made /\ Made' = Made
        /\ \A j \in Ids \ {n} : entry'[j] = entry[j]
        /\ entry'[n].lines = entry[n].lines
        /\ session[c].op = "post" /\ session[c].lines = entry[n].lines
    BY <1>5, Posts
  <2>2. i = n
    BY <1>2, <1>3, <2>1 DEF Booked, Made
  <2> QED
    BY <1>2, <2>1, <2>2 DEF Books
<1>6. ASSUME NEW c \in Sessions, CommitReverse(c) PROVE FALSE
  <2> DEFINE o == session[c].id
  <2>1. o \in Booked /\ o \in Ids /\ entry[o].lines \in Lines
    BY <1>6, Reverses DEF Booked, Made
  <2>2. PICK n \in Ids : /\ \A j \in Ids \ {n, o} : entry'[j] = entry[j]
                         /\ entry'[n].lines = Mirror(entry[o].lines) /\ Made' = Made \cup {n}
                         /\ entry'[o].lines = entry[o].lines
    BY <1>6, Reverses
  <2>3. Used(Mirror(entry[o].lines)) = Used(entry[o].lines)
    BY DEF Used, Mirror
  <2>4. CASE i = n
    BY <1>2, <1>3, <2>1, <2>2, <2>3, <2>4
  <2>5. CASE i # n
    BY <1>2, <1>3, <2>1, <2>2, <2>5 DEF Booked, Made
  <2> QED
    BY <2>4, <2>5
<1> QED
  BY <1>1, <1>4, <1>5, <1>6, WhatMovesEntries

LEMMA AccountKnown ==
  ASSUME LInv, [Next]_vars, AccountsTell, NEW d \in Sessions
  PROVE  KnowsAccounts(session[d])'
<1>1. CASE session'[d] # session[d]
  <2>1. CASE session'[d] = Idle
    BY <2>1 DEF KnowsAccounts, Books, Idle
  <2>2. CASE account' = account /\ entry' = entry /\ raced' = raced /\ KnowsAccounts(session'[d])
    <3>1. Made' = Made /\ Booked' = Booked
      BY <2>2 DEF Made, Booked
    <3> QED
      BY <2>2, <3>1 DEF KnowsAccounts, Unraced, UsedInBooks, Books, Used
  <2> QED
    BY <1>1, <2>1, <2>2, Begun
<1>2. CASE session'[d] = session[d]
  <2>1. KnowsAccounts(session[d]) /\ raced \subseteq raced' /\ session[d] \in Request
    BY RacesStay DEF AccountsTell, LInv, Types
  <2>2. ASSUME Books(session[d]), NEW a \in Used(session[d].lines), <<"account", a>> \notin raced'
        PROVE  account'[a] = "active"
    <3>1. a \in Accounts /\ account[a] = "active" /\ account \in [Accounts -> {"absent", "active", "inactive"}]
      BY <2>1, <2>2 DEF KnowsAccounts, Unraced, Used, LInv, Types
    <3>2. ASSUME NEW b \in Accounts, account[b] = "absent", account' = [account EXCEPT ![b] = "active"]
          PROVE  account'[a] = "active"
      BY <3>1, <3>2
    <3>3. ASSUME NEW c \in Sessions, CommitAccount(c) PROVE account'[a] = "active"
      <4>1. session[c].op = "switch" /\ End(c) /\ account' = [account EXCEPT ![session[c].a] = session[c].to]
        BY <3>3 DEF CommitAccount
      <4>2. d # c
        BY <2>2, <4>1 DEF Books
      <4>3. <<"account", a>> \in Reads(session[d])
        BY <2>2 DEF Books, Reads, Rows
      <4>4. session[c].a = a => <<"account", a>> \in Writes(session[c])
        BY <4>1 DEF Writes, Rows
      <4>5. session[c].a # a
        BY <2>2, <4>1, <4>2, <4>3, <4>4, RacesTold
      <4> QED
        BY <3>1, <4>1, <4>5
    <3> QED
      BY <3>1, <3>2, <3>3, WhatMovesAccounts
  <2>3. ASSUME session[d].op = "switch", session[d].to = "inactive", <<"account", session[d].a>> \notin raced',
               UsedInBooks(session[d].a)'
        PROVE  FALSE
    <3>1. PICK a \in Accounts : a = session[d].a
      BY <2>1, <2>3 DEF Request, Idle
    <3>2. ~UsedInBooks(a)
      BY <2>1, <2>3, <3>1 DEF KnowsAccounts, Unraced
    <3>3. UsedInBooks(a)'
      BY <1>2, <2>3, <3>1 DEF UsedInBooks
    <3>4. PICK c \in Sessions : /\ CommitCreate(c) \/ CommitPost(c)
                                /\ Books(session[c]) /\ a \in Used(session[c].lines)
      BY <3>2, <3>3, BooksGrow
    <3>5. End(c) /\ session[c].op \in {"create", "post"}
      BY <3>4 DEF CommitCreate, CommitPost
    <3>6. d # c
      BY <2>3, <3>5
    <3>7. <<"account", a>> \in Writes(session[c])
      BY <3>4, <3>5 DEF Writes, Rows
    <3>8. <<"account", a>> \in Reads(session[d])
      BY <2>3, <3>1 DEF Reads, Rows
    <3> QED
      BY <2>3, <3>1, <3>5, <3>6, <3>7, <3>8, RacesTold
  <2> QED
    BY <1>2, <2>2, <2>3 DEF KnowsAccounts, Unraced, Books, Used, UsedInBooks
<1> QED
  BY <1>1, <1>2

LEMMA AccountsStillTell ==
  ASSUME LInv, [Next]_vars, AccountsTell
  PROVE  AccountsTell'
<1>1. raced \subseteq raced'
  BY RacesStay
<1>2. ASSUME NEW a \in Accounts, account'[a] = "inactive", <<"account", a>> \notin raced', UsedInBooks(a)'
      PROVE  FALSE
  <2>1. CASE ~UsedInBooks(a)
    <3>1. PICK c \in Sessions : /\ CommitCreate(c) \/ CommitPost(c)
                                /\ Books(session[c]) /\ a \in Used(session[c].lines)
      BY <1>2, <2>1, BooksGrow
    <3>2. account[a] = "active"
      BY <1>1, <1>2, <3>1 DEF AccountsTell, KnowsAccounts, Unraced
    <3>3. account' = account
      BY <3>1 DEF CommitCreate, CommitPost
    <3> QED
      BY <1>2, <3>2, <3>3
  <2>2. CASE UsedInBooks(a)
    <3>1. account[a] # "inactive"
      BY <1>1, <1>2, <2>2 DEF AccountsTell, Unraced
    <3>2. account \in [Accounts -> {"absent", "active", "inactive"}]
      BY DEF LInv, Types
    <3>3. PICK c \in Sessions : CommitAccount(c)
      BY <1>2, <3>1, <3>2, WhatMovesAccounts
    <3>4. session[c].op = "switch" /\ session[c].a = a /\ session[c].to = "inactive"
      BY <1>2, <3>1, <3>2, <3>3 DEF CommitAccount
    <3> QED
      BY <1>1, <1>2, <2>2, <3>4 DEF AccountsTell, KnowsAccounts, Unraced
  <2> QED
    BY <2>1, <2>2
<1> QED
  BY <1>2, AccountKnown DEF AccountsTell, Unraced

-----------------------------------------------------------------------------
(* Periods.                                                                *)
LEMMA PeriodsStay ==
  ASSUME LInv, [Next]_vars, PeriodsTell
  PROVE  /\ \A p \in Periods : period[p] # "absent" => period'[p] # "absent"
         /\ \A c \in Sessions : session'[c].op = "close" => period'[session'[c].p] # "absent"
<1>1. period \in [Periods -> {"absent", "open", "closed"}]
  BY DEF LInv, Types
<1>2. \A p \in Periods : period[p] # "absent" => period'[p] # "absent"
  BY <1>1, WhatMovesPeriods DEF CommitPeriod, CommitClose
<1>3. ASSUME NEW c \in Sessions, session'[c].op = "close"
      PROVE  period'[session'[c].p] # "absent"
  <2>1. session'[c] # Idle
    BY <1>3 DEF Idle
  <2>2. CASE session'[c] = session[c]
    <3>1. period[session[c].p] # "absent" /\ session[c] \in Request
      BY <1>3, <2>2 DEF PeriodsTell, LInv, Types
    <3>2. session[c].p \in Periods
      BY <1>3, <2>2, <3>1 DEF Request, Idle
    <3> QED
      BY <1>2, <2>2, <3>1, <3>2
  <2>3. CASE session'[c] # session[c]
    BY <1>3, <2>1, <2>3, Begun
  <2> QED
    BY <2>2, <2>3
<1> QED
  BY <1>2, <1>3

LEMMA PeriodsStillTell ==
  ASSUME LInv, [Next]_vars, PeriodsTell
  PROVE  PeriodsTell'
<1> SUFFICES ASSUME <<"periods", None>> \notin raced'
             PROVE  /\ \A p \in Periods : period'[p] # "absent" => Apart(p)'
                    /\ \A d \in Sessions : session'[d].op = "period" => Apart(session[d].p)'
  BY PeriodsStay DEF PeriodsTell, Unraced
<1>1. /\ \A p \in Periods : period[p] # "absent" => Apart(p)
      /\ \A c \in Sessions : session[c].op = "period" => Apart(session[c].p)
  BY RacesStay DEF PeriodsTell, Unraced
<1>2. period \in [Periods -> {"absent", "open", "closed"}]
  BY DEF LInv, Types
<1>3. CASE \A p \in Periods : period'[p] # "absent" => period[p] # "absent"
  <2>1. \A p : Apart(p) => Apart(p)'
    BY <1>3 DEF Apart
  <2>2. ASSUME NEW d \in Sessions, session'[d].op = "period" PROVE Apart(session[d].p)'
    <3>1. PICK p : p = session'[d].p
      OBVIOUS
    <3>2. session'[d] # Idle
      BY <2>2 DEF Idle
    <3>3. Apart(p)
      BY <1>1, <2>2, <3>1, <3>2, Begun
    <3> QED
      BY <2>1, <3>1, <3>3 DEF Apart
  <2> QED
    BY <1>1, <1>3, <2>1, <2>2
<1>4. ASSUME NEW c \in Sessions, CommitPeriod(c)
      PROVE  /\ \A p \in Periods : period'[p] # "absent" => Apart(p)'
             /\ \A d \in Sessions : session'[d].op = "period" => Apart(session[d].p)'
  <2>1. session[c] \in Request /\ session[c].op = "period"
    BY <1>4 DEF CommitPeriod, LInv, Types
  <2>2. PICK n \in Periods : n = session[c].p
    BY <2>1 DEF Request, Idle
  <2>3. period' = [period EXCEPT ![n] = "open"] /\ End(c) /\ Apart(n)
    BY <1>1, <1>4, <2>1, <2>2 DEF CommitPeriod, Apart
  <2>4. ASSUME NEW p \in Periods, period'[p] # "absent" PROVE Apart(p)'
    BY <1>1, <1>2, <2>3, <2>4 DEF Apart
  <2>5. ASSUME NEW d \in Sessions, session'[d].op = "period" PROVE FALSE
    <3>1. session'[d] = session[d] /\ d # c
      BY <2>3, <2>5 DEF End, LInv, Types, Idle
    <3>2. <<"periods", None>> \in Writes(session[c]) /\ <<"periods", None>> \in Reads(session[d])
      BY <2>1, <2>5, <3>1 DEF Writes, Reads, Rows
    <3> QED
      BY <2>3, <3>1, <3>2, RacesTold
  <2> QED
    BY <2>4, <2>5
<1>5. ASSUME NEW c \in Sessions, CommitClose(c)
      PROVE  \A p \in Periods : period'[p] # "absent" => period[p] # "absent"
  <2>1. period[session[c].p] # "absent"
    BY <1>5 DEF CommitClose, PeriodsTell
  <2> QED
    BY <1>2, <1>5, <2>1 DEF CommitClose
<1> QED
  BY <1>3, <1>4, <1>5, WhatMovesPeriods

-----------------------------------------------------------------------------
LEMMA RInvInit == Init => RInv
<1> SUFFICES ASSUME Init PROVE RInv
  OBVIOUS
<1>1. Made = {} /\ Booked = {}
  BY DEF Init, Made, Booked
<1>2. EntriesTell /\ AccountsTell /\ PeriodsTell
  BY <1>1 DEF Init, EntriesTell, AccountsTell, PeriodsTell, KnowsEntry, KnowsAccounts, Books, Idle
<1> QED
  BY <1>2, InitEstablishes DEF RInv

(* What a request knows of the rows it has read stays true, or the rows    *)
(* are known to have been written under it.                                *)
THEOREM RaceInvariance == Spec => []RInv
<1>1. Init => RInv
  BY RInvInit
<1>2. RInv /\ [Next]_vars => RInv'
  BY StepPreserves, EntriesStillTell, AccountsStillTell, PeriodsStillTell DEF RInv
<1> QED
  BY <1>1, <1>2, PTL DEF Spec

(* Unless sessions raced on the very row, an entry is reversed at most     *)
(* once and says so, an account out of use is in no book, and accounting   *)
(* periods do not overlap.                                                 *)
THEOREM RacesAreTheOnlyBreak == Spec => []OnlyRacesBreak
<1>1. RInv => OnlyRacesBreak
  BY DEF RInv, EntriesTell, Told, Mirrors, AccountsTell, PeriodsTell, Apart, Unraced, OnlyRacesBreak
<1> QED
  BY <1>1, RaceInvariance, PTL
=============================================================================
