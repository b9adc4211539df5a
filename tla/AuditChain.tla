----------------------------- MODULE AuditChain -----------------------------
(***************************************************************************)
(* The tamper-evident audit chain: transactions that record audit events   *)
(* and append the chain entries covering them, the backfill of uncovered   *)
(* events, checkpoints, and the verifiers that read the chain.             *)
(*                                                                         *)
(* An entry is identified with what its hashes bind: the hash of an entry  *)
(* is the sequence of the <<event, index>> pairs from the start of its     *)
(* chain, so equal hashes mean equal histories.                            *)
(***************************************************************************)
EXTENDS Integers, FiniteSets, Sequences, SequencesExt

CONSTANTS
    Transactions,   \* each runs at most once
    Campuses,
    MaxEvents,      \* bound on the events one transaction records
    MaxCheckpoints, \* bound on the checkpoints
    Scripts,        \* TRUE: the stand-alone verifier runs; FALSE: the service's
    None

ASSUME ChainAssumption ==
    /\ MaxEvents \in [Transactions -> Nat] /\ MaxCheckpoints \in Nat
    /\ Scripts \subseteq BOOLEAN
    /\ None \notin Campuses

VARIABLES
    audits,         \* committed audit rows
    entries,        \* committed chain entries
    checkpoints,    \* committed checkpoints
    tx,             \* what each transaction is doing and has staged
    reader,         \* the verification under way
    overlapped      \* campuses two transactions appended to at the same time

vars == <<audits, entries, checkpoints, tx, reader, overlapped>>

Events == UNION {{t} \X (1..MaxEvents[t]) : t \in Transactions}
NoEvent == <<None, 0>>
Idle  == [pc |-> "idle", event |-> NoEvent, campus |-> None, prev |-> <<>>, index |-> 0,
          recorded |-> 0, rows |-> {}, links |-> {}]
Asleep == [pc |-> "idle", campus |-> None, entries |-> {}, checkpoints |-> {}, rows |-> {},
           start |-> <<>>, ok |-> TRUE]

(* chain_hash: the hash of an entry binds the previous hash, the event, the *)
(* campus and the index.                                                   *)
Hash(e) == Append(e.prev, <<e.event, e.index>>)

Of(c, S) == {x \in S : x.campus = c}

Init ==
    /\ audits = {}
    /\ entries = {}
    /\ checkpoints = {}
    /\ tx = [t \in Transactions |-> Idle]
    /\ reader = Asleep
    /\ overlapped = {}

(* What t sees: committed entries and its own.                             *)
Visible(t) == entries \cup tx[t].links

Covers(S, a) == \E e \in S : e.event = a

-----------------------------------------------------------------------------
(* AuditService.record, called without a tenant: the chain append is       *)
(* refused, which is logged, and the row stays uncovered.                  *)
RecordUnchained(t, c) ==
    /\ tx[t].pc \in {"idle", "open"}
    /\ tx[t].recorded < MaxEvents[t]
    /\ LET n == tx[t].recorded + 1 IN
          tx' = [tx EXCEPT ![t].pc = "open", ![t].recorded = n,
                 ![t].rows = @ \cup {[event |-> <<t, n>>, campus |-> c, chained |-> FALSE]}]
    /\ UNCHANGED <<audits, entries, checkpoints, reader, overlapped>>

(* AuditService.record with a tenant: the row is inserted and its chain    *)
(* entry is about to be.                                                   *)
Record(t, c) ==
    /\ tx[t].pc \in {"idle", "open"}
    /\ tx[t].recorded < MaxEvents[t]
    /\ LET n == tx[t].recorded + 1 IN
          tx' = [tx EXCEPT ![t].pc = "read_head", ![t].recorded = n,
                 ![t].event = <<t, n>>, ![t].campus = c,
                 ![t].rows = @ \cup {[event |-> <<t, n>>, campus |-> c, chained |-> TRUE]}]
    /\ UNCHANGED <<audits, entries, checkpoints, reader, overlapped>>

(* append_for_audit_ids: a committed row without an entry is chained.      *)
Backfill(t) ==
    /\ tx[t].pc \in {"idle", "open"}
    /\ \E row \in audits :
          /\ ~Covers(Visible(t), row.event)
          /\ tx' = [tx EXCEPT ![t].pc = "read_head", ![t].event = row.event,
                              ![t].campus = row.campus]
    /\ UNCHANGED <<audits, entries, checkpoints, reader, overlapped>>

(* Broken variant: the head of any campus.                                 *)
HeadsOfAll(t) ==
    {e \in Visible(t) : \A f \in Visible(t) : f.index <= e.index}

(* last_entry: an entry with the highest index of the campus.              *)
Heads(t) ==
    LET S == Of(tx[t].campus, Visible(t)) IN {e \in S : \A f \in S : f.index <= e.index}

(* The campuses a transaction has read the head of or appended to.         *)
Touches(t) ==
    {e.campus : e \in tx[t].links} \cup (IF tx[t].pc = "append" THEN {tx[t].campus} ELSE {})

(* append_for_audit, first half: read the head of the chain.               *)
ReadHead(t) ==
    /\ tx[t].pc = "read_head"
    /\ IF Heads(t) = {}
       THEN tx' = [tx EXCEPT ![t].pc = "append", ![t].prev = <<>>, ![t].index = 0]
       ELSE \E e \in Heads(t) :
              tx' = [tx EXCEPT ![t].pc = "append", ![t].prev = Hash(e), ![t].index = e.index + 1]
    /\ overlapped' = overlapped \cup
            {c \in {tx[t].campus} : \E u \in Transactions \ {t} : c \in Touches(u)}
    /\ UNCHANGED <<audits, entries, checkpoints, reader>>

(* The entry t inserts.                                                    *)
NewEntry(t) == [event |-> tx[t].event, campus |-> tx[t].campus,
                index |-> tx[t].index, prev |-> tx[t].prev]

(* Broken variant: no unique index on audit_log_id.                        *)
AppendNoIndex(t) ==
    /\ tx[t].pc = "append"
    /\ tx' = [tx EXCEPT ![t].pc = "open", ![t].links = @ \cup {NewEntry(t)},
                        ![t].event = NoEvent, ![t].campus = None]
    /\ UNCHANGED <<audits, entries, checkpoints, reader, overlapped>>

(* append_for_audit, second half: insert the entry.  It waits for an       *)
(* uncommitted entry of the same row; if that one committed, the insert    *)
(* fails, the error is swallowed and the session is of no more use.        *)
AppendEntry(t) ==
    /\ tx[t].pc = "append"
    /\ \A u \in Transactions \ {t} : ~Covers(tx[u].links, tx[t].event)
    /\ tx' = IF Covers(Visible(t), tx[t].event)
             THEN [tx EXCEPT ![t].pc = "poisoned"]
             ELSE [tx EXCEPT ![t].pc = "open", ![t].links = @ \cup {NewEntry(t)},
                             ![t].event = NoEvent, ![t].campus = None]
    /\ UNCHANGED <<audits, entries, checkpoints, reader, overlapped>>

(* The transaction commits.                                                *)
Commit(t) ==
    /\ tx[t].pc = "open"
    /\ audits' = audits \cup tx[t].rows
    /\ entries' = entries \cup tx[t].links
    /\ tx' = [tx EXCEPT ![t] = [Idle EXCEPT !.pc = "done"]]
    /\ UNCHANGED <<checkpoints, reader, overlapped>>

(* The transaction is rolled back: the request failed or died, or its      *)
(* session was poisoned.                                                   *)
RollBack(t) ==
    /\ tx[t].pc \notin {"idle", "done"}
    /\ tx' = [tx EXCEPT ![t] = [Idle EXCEPT !.pc = "done"]]
    /\ UNCHANGED <<audits, entries, checkpoints, reader, overlapped>>

-----------------------------------------------------------------------------
(* list_entries orders by chain_index; entries with equal indices come in  *)
(* any order.                                                              *)
Orderings(S) ==
    {s \in SetToSeqs(S) : \A i, j \in DOMAIN s : i < j => s[i].index <= s[j].index}

Hashes(s) == [i \in DOMAIN s |-> Hash(s[i])]

(* checkpoint: sign the state of the chain up to its head.                 *)
TakeCheckpoint(c) ==
    /\ Of(c, entries) # {}
    /\ Cardinality(checkpoints) < MaxCheckpoints
    /\ \E s \in Orderings(Of(c, entries)) :
          checkpoints' = checkpoints \cup
              {[campus |-> c, upto |-> Last(s).index, state |-> Hashes(s)]}
    /\ UNCHANGED <<audits, entries, tx, reader, overlapped>>

(* Broken variant: entries appended after the last checkpoint are skipped. *)
VerdictUpToCheckpoint(s, C, A) ==
    /\ \A i \in DOMAIN s :
          (\E c \in C : s[i].index <= c.upto) =>
              /\ s[i].index = i - 1
              /\ s[i].prev = (IF i = 1 THEN <<>> ELSE Hash(s[i - 1]))
    /\ \A c \in C : /\ c.upto < Len(s)
                    /\ c.state = SubSeq(Hashes(s), 1, c.upto + 1)

(* verify_chain on the entries s, the checkpoints C and the audit rows A.  *)
Verdict(s, C, A) ==
    /\ \A i \in DOMAIN s :
          /\ s[i].index = i - 1
          /\ s[i].prev = (IF i = 1 THEN <<>> ELSE Hash(s[i - 1]))
          /\ \E row \in A : row.event = s[i].event
    /\ \A c \in C : /\ c.upto < Len(s)
                    /\ c.state = SubSeq(Hashes(s), 1, c.upto + 1)

Snapshot(c) == <<Of(c, entries), Of(c, checkpoints), Of(c, audits)>>

(* A verification reads entries, checkpoints and rows in three statements, *)
(* each of which sees what is committed when it runs: _verify_campus in    *)
(* this order, the stand-alone script the rows first.                      *)
StartVerify(c, script) ==
    /\ reader.pc \in {"idle", "done"}
    /\ reader' = [Asleep EXCEPT !.campus = c, !.start = Snapshot(c),
                     !.pc = IF script THEN "script_entries" ELSE "checkpoints",
                     !.rows = IF script THEN Of(c, audits) ELSE {},
                     !.entries = IF script THEN {} ELSE Of(c, entries)]
    /\ UNCHANGED <<audits, entries, checkpoints, tx, overlapped>>

ReadEntries ==
    /\ reader.pc = "script_entries"
    /\ reader' = [reader EXCEPT !.pc = "script_checkpoints", !.entries = Of(reader.campus, entries)]
    /\ UNCHANGED <<audits, entries, checkpoints, tx, overlapped>>

ReadCheckpoints ==
    /\ reader.pc \in {"checkpoints", "script_checkpoints"}
    /\ reader' = [reader EXCEPT !.pc = IF reader.pc = "checkpoints" THEN "rows" ELSE "judge",
                                !.checkpoints = Of(reader.campus, checkpoints)]
    /\ UNCHANGED <<audits, entries, checkpoints, tx, overlapped>>

ReadRows ==
    /\ reader.pc = "rows"
    /\ reader' = [reader EXCEPT !.pc = "judge", !.rows = Of(reader.campus, audits)]
    /\ UNCHANGED <<audits, entries, checkpoints, tx, overlapped>>

Judge ==
    /\ reader.pc = "judge"
    /\ \E s \in Orderings(reader.entries) :
          reader' = [reader EXCEPT !.pc = "done",
                        !.ok = Verdict(s, reader.checkpoints, reader.rows)]
    /\ UNCHANGED <<audits, entries, checkpoints, tx, overlapped>>

-----------------------------------------------------------------------------
Run(t) == \/ \E c \in Campuses : Record(t, c) \/ RecordUnchained(t, c)
          \/ Backfill(t)
          \/ ReadHead(t) \/ AppendEntry(t)
          \/ Commit(t) \/ RollBack(t)

Verify == \/ \E c \in Campuses, script \in Scripts : StartVerify(c, script)
          \/ ReadEntries \/ ReadCheckpoints \/ ReadRows \/ Judge

Next ==
    \/ \E t \in Transactions : Run(t)
    \/ \E c \in Campuses : TakeCheckpoint(c)
    \/ Verify

Spec == Init /\ [][Next]_vars
-----------------------------------------------------------------------------
Rows    == [event : Events, campus : Campuses, chained : BOOLEAN]
IsLink(e) == /\ e.event \in Events /\ e.campus \in Campuses /\ e.index \in Nat
             /\ e.prev \in Seq(Events \X Nat)

(* Types of the variables.                                                 *)
TypeOK ==
    /\ audits \subseteq Rows
    /\ \A e \in entries : IsLink(e)
    /\ \A c \in checkpoints : /\ c.campus \in Campuses /\ c.upto \in Nat
                              /\ c.state \in Seq(Seq(Events \X Nat))
    /\ \A t \in Transactions :
          /\ tx[t].pc \in {"idle", "open", "read_head", "append", "poisoned", "done"}
          /\ tx[t].rows \subseteq Rows
          /\ \A e \in tx[t].links : IsLink(e)
    /\ reader.pc \in {"idle", "script_entries", "checkpoints", "script_checkpoints",
                      "rows", "judge", "done"}
    /\ overlapped \subseteq Campuses

(* The chain of campus c is what its entries in the order they were made   *)
(* would give: one history, of which every entry and checkpoint is a part. *)
Intact(c) ==
    /\ \A e, f \in Of(c, entries) : IsPrefix(Hash(e), Hash(f)) \/ IsPrefix(Hash(f), Hash(e))
    /\ \A e \in Of(c, entries) : e.index = Len(e.prev)
    /\ \A e \in Of(c, entries) : \A n \in 1..e.index :
          \E f \in Of(c, entries) : Hash(f) = SubSeq(e.prev, 1, n)
    /\ \A k \in Of(c, checkpoints) :
          /\ Len(k.state) = k.upto + 1
          /\ \E e \in {f \in Of(c, entries) : f.index = k.upto} :
                \A n \in 1..Len(k.state) : k.state[n] = SubSeq(Hash(e), 1, n)

(* A chain breaks only where two transactions append to it at one time;    *)
(* rollbacks, backfills, checkpoints and what happens in other campuses    *)
(* never break it ("a tamper in one tenant can never break another         *)
(* tenant's chain").                                                       *)
OnlyOverlapsFork == \A c \in Campuses \ overlapped : Intact(c)

(* An event recorded under a tenant has one entry as soon as it is         *)
(* committed and no event ever has two, whatever backfills race for it.    *)
OneEntryPerEvent ==
    \A row \in audits :
        LET n == Cardinality({e \in entries : e.event = row.event}) IN
        IF row.chained THEN n = 1 ELSE n <= 1

(* A verification that nothing was committed under reports exactly whether *)
(* the chain is intact, forks included.                                    *)
QuietVerdictIsRight ==
    (reader.pc = "done" /\ reader.start = Snapshot(reader.campus))
        => (reader.ok <=> Intact(reader.campus))

(* chain_index is "Sequential within the campus chain (0, 1, 2, ...)".     *)
ChainIsSequential ==
    \A c \in Campuses :
        {e.index : e \in Of(c, entries)} = 0..(Cardinality(Of(c, entries)) - 1)
=============================================================================
