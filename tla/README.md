# Formal models of SDMAS

This directory holds TLA+ models of the school-management platform in
`src/apps/api`, the TLC runs that check them on small instances, and TLAPS
proofs of what holds for every instance. `PROJECT.json` is the index: which
module models which source lines (`map`), what each run checks, which bug each
property is known to catch (`mutants`), and where the hazards are. Section 5
says where the code does not do what it or its documentation promises, and how
to see it.

## 1. The system

A FastAPI application over PostgreSQL (asyncpg, READ COMMITTED), a job worker, a
scheduler and an outbox worker. All state is in the database. Processes share
nothing else, so what interleaves are database transactions, statement by
statement. Five facts shape every model:

- One request or one worker poll is one session and one transaction.
  `get_session` (`infrastructure/database.py:98`) commits when the handler returns
  and rolls back when it raises. A worker poll does the same in
  `_worker_session` and `_outbox_worker_session`.
- READ COMMITTED: a statement sees the rows committed when it runs, plus the
  transaction's own. An `UPDATE` that waited for a row lock checks its own `WHERE`
  again on the new row, but not that of a subquery.
- The session has an identity map (`expire_on_commit=False`): a second read of
  the same row returns the first object with its first values, also under
  `FOR UPDATE`.
- A flush that fails outside a savepoint makes the session unusable. An
  `except` that only logs does not mend it; the commit fails.
- Unique indexes make the second inserter wait for the first one's end.

### Inventory

| Component (under `apps/api/app`) | State | Operations | Talks to | Hard behaviour | Correct when |
|---|---|---|---|---|---|
| Fees, school finance | dues, payments, ledger rows | assign dues, pay, refund | audit, outbox | row locks, idempotency keys, savepoints, stale objects | money is conserved, a key takes effect once |
| Jobs | job rows | create, claim, run, retry, cancel, patch, reap | every long-running domain | claims, deaths, requeueing, requests racing with workers | one worker per job, work committed once, every job settles |
| Events, notifications | outbox rows, notifications | publish, claim, deliver, fail, read | every domain that publishes | batches, deaths, poisoned sessions, deadlocks | event iff change, one notification per event, every event settles |
| Audit, cryptography | audit rows, chain entries, checkpoints | record, backfill, checkpoint, verify | every domain | concurrent appends, torn reads | one sequential chain per campus, honest verdicts |
| Job scheduler | identity keys in job rows | enqueue a cycle | jobs | two schedulers | one job per cycle and type |
| Report builder | export rows | create, process | jobs | a crash or failure between commits | an export ends, a completed one stays |
| Billing | subscriptions, invoices, webhook events | trial, cancel, renew, period end, webhook | jobs, payment provider | duplicated, late, reordered webhooks | a period is invoiced once, no paid invoice is lost |
| Auth | users, refresh tokens | login, refresh, logout, deactivate | audit | two refreshes with one token | a token is rotated once, reuse revokes the family |
| Ledger | journal entries, periods | draft, post, reverse, close | audit | check-then-write | balanced, reversed at most once |
| Migration | projects, runs, mappings | validate, approve, import in chunks, resume, cut over, roll back | jobs, lineage | crash between chunks, reaped workers, requests against the job | each record imported once, a rollback takes exactly the import back |
| Communications | messages, recipients, schedules | send, schedule, dispatch, retry, read, delete | jobs, notifications | commit in the middle of a loop, deliveries from stale copies | a recipient is notified once, nobody is left waiting |
| Workflow, leave | instances, history | start, approve, reject, return, cancel | admission, leave | two approvers | history explains the state |
| Reports (rollover, batch) | years, enrolments | roll over | outbox | failure after publishing | the failure is announced |
| Cases, risk, data quality | findings, cases, timelines | recompute, resolve, create, move, escalate | audit, notifications | stale status, unique keys, two rows kept in step | the timeline explains the case, the finding follows it |
| Exceptions | one row with a version, its timeline | create, assign, edit, resolve, reopen | audit, cases | two version counters | no lost update, the timeline agrees with the row as far as it records it |
| Attendance | daily records | record, correct | outbox, risk | check-then-insert | one record a day |
| Policy, extensions | versions | publish, enable, retire | audit | two publishers | one published version |
| Reconciliation, identities, lineage, evidence | runs, people, graph, packages | match, merge, attach, approve | audit | merges, approvals | merges are not lost |
| Academic, admission, institution, student, parent, documents | records | CRUD | audit, outbox | few | constraints of the schema |
| Analytics, 360 views, command center, risk, search, timeline, simulation, ... | none, or derived | read | everything | none | values agree with the records |

`PROJECT.json` lists every component with its status, and every hazard at its
line.

## 2. The modules

### Fees: `FeePayments`, `FeeAccount`

`FeePayments` models `record_payment`, `record_refund`, `create_dues` and the
ledger's `record`. A request goes through the program's own stages (`pc`): key
check, lock of the due, insert in a savepoint, ledger lookup, lock of the
student row, journal, commit; or back out at every `raise`.

- `dues`, `pstatus`, `refunded`, `ledger`, `audited` and `outbox` are committed
  rows; `view` is what the session's identity map holds; `held` and `shared` are row
  locks (`FOR UPDATE`, and `FOR KEY SHARE` of foreign keys).
- A payment is identified with the request that recorded it. Its writes become
  visible in `CommitPayment` or `CommitRefund`, where the transaction commits.
- Row-lock waits, unique-index waits and the deadlock detector are PostgreSQL's
  (external in the map).
- Left out: receipt numbers, inactive students and wrong campuses (they only
  roll back, which `Abort` covers), and the several campuses.

`FeeAccount` is the abstract account: pay onto a due, refund what a payment
still holds. `ImplementsAccount` is the refinement.

`crossed` records the payments a refund of which committed while a different refund of
the same payment was open; a retry with the same key is not a different one.
`NoDoubleRefund` holds in every interleaving and excepts `crossed` only where it says
that the refunds add up.

`SerialSpec` is the system with disciplined clients: they do not overlap two
refunds of one payment and use a refund key for one payment. `AmountsAgree` and
`ImplementsAccount` assume it, as without it two promises of the code are broken (section
5). The other properties need no such assumption.

### Jobs: `JobQueue`, `DurableJobs`

Claiming is two statements (`PickCandidate`, `Claim`), and a claim stays
invisible, its row locked, until the job commits by itself (`Checkpoint`) or the
poll ends (`EndPoll`). A worker's death rolls back what it has not committed,
its claim included. Requests (`ReadJob`, `WriteJob`) read in one statement and
write in another, with no condition on what they overwrite.

- A job is of one of the kinds the properties tell apart: it commits while it
  runs (imports, exports) or not, it may outlast `stale_after` without a heartbeat,
  or no handler is registered for its type.
- Time is two flags of a row: the retry delay is over (`due`), `stale_after` has
  passed (`stale`). A graceful stop is a `Crash`: the poll is cancelled and rolled
  back in the same way.
- `effects` counts commits of work that a job leaves to the worker's commit;
  `attempts` and `retried` are history.
- `disturbed` is history too: jobs the reaper took from a live worker because they are
  slow, jobs given up by a `PATCH` to failed while they ran, and jobs that a retry which
  another one had overtaken put back while they ran.

`DurableJobs` is the abstract queue, without polls, row locks or sessions. A job is worked
on in attempts. An attempt is open until it commits for the first time; nobody else
writes the job of an open attempt, and one that dies open has changed nothing. The
queue retries a job at most `Limit` times on its own. `ImplementsQueue` is the
refinement: an open attempt is a locked row whose claim is not visible yet, the retry it
is on is the count the worker has loaded (`Attempt`), and a row whose attempt is open still says
`pending`. What the abstract queue leaves to whoever writes a handler is what the
program leaves to them: an attempt that has committed, and then lost its row to the reaper or
to a request, goes on and settles the job all the same, beside its successor.

### Outbox: `Outbox`, `DurableEvents`

`Enqueue`, `InsertEvent`, `CommitChange` and `RollBackChange` are a service call
that publishes an event in the transaction of its change. Events have deterministic
ids, so two calls may publish the same one. A worker handles a batch in one
transaction: `PickEvent`, `ClaimEvent`, then `Deliver`, `DeliverFails` or
`DeliverPoisoned` for each event, `CommitBatch` at the end; `staged` is what its
transaction has done so far.

- `Unroutable` events are for a user that does not exist: some handlers pass a
  student id as the user id. `inAppLast` says whether the process iterates over the
  set of channels with in-app last; the order is drawn once per process. It
  decides whether the swallowed insert error is noticed.
- The outbox reaper is not modelled: a claim is never committed as
  `processing`, so there is nothing for it to reclaim.
- Pushes and mails leave the database's transactions and are left out. A crash
  sends them again.

`DurableEvents` is the abstract service: an event is owed, then delivered with
one notification or given up after `MaxAttempts` failures. `ImplementsDurable` is the
refinement.

### Audit chain: `AuditChain`

Transactions record events (with a tenant, or without one and then uncovered),
backfill uncovered ones, and append entries in two steps: `ReadHead`, then
`AppendEntry`. A hash is identified with the history it binds. Verification reads
entries, checkpoints and audit rows in separate statements, in the order of the
service or of `scripts/audit_verify.py`, and then applies the verifier's rules
(`Verdict`). `Intact` says what an unbroken chain is without the verifier's
algorithm.

- `overlapped` records which campuses two transactions appended to at one time.
- `QuietVerdictIsRight` is about verifications nothing was committed under. If
  an event is committed between the reads of the script, its entry has no row and an
  intact chain is reported as broken.
- An event recorded without a tenant has no entry until it is backfilled:
  `OneEntryPerEvent` only promises it at most one.

### Approvals: `Approvals`

The workflow engine with leave requests as its client. A session reads
the instance and its steps (`OpenStart`, `OpenLeave`, `OpenAct`, ...), decides, and
later commits (`CommitStart`, `CommitAct`, ...). Nothing is locked in between, and
the flush writes the columns the session changed from what it had read, so two
sessions can merge their writes on one row. An administrator retires, changes and
deletes definitions, with the cascades of the foreign keys. A session that acted on
a step deleted under it fails at its commit: the history it appends refers to that
step. The graph of steps and roles is a constant.

- `history` is `approval_history`; each entry also keeps what the leave request
  said then, which `ReviewedAsSubmitted` compares.
- `overlapped` records the instances a session acted on from an older state.

### General ledger: `Ledger`

Accounts, periods and entries; sessions that draft, post and reverse while others
close periods and retire accounts. An entry's lines are the amounts debited and
credited per account. `raced` records rows written while another session had read them:
`OnlyRacesBreak` and `ClosedIsFinal` say that nothing else breaks them.

### Billing: `Billing`

One subscription per campus, its invoices, the two daily jobs and the provider's
webhooks. An event may arrive at any time, in any order and again; `seen` is the
table that recognises it. A commit writes the columns that differ from those
loaded (`Change`); the period-end job takes the row lock but goes on with the object it
loaded before. Time is a counter up to `Horizon`.

### Cases and findings: `Cases`

Recomputes store what fires now under a unique key and resolve what does not;
people resolve, ignore and acknowledge findings, open cases from them and move the
cases; a case that is resolved or reopened takes its finding along (`Sync`).
`case[i].events` is the timeline. Which rules fire is left open, so every sequence of
detections is covered. A recompute is a session like the others: it selects the
findings, sets them from what it has selected and flushes later. `raced` records the rows
a session wrote while another one still held what it had read of them. A case created
with an assignee starts with the entry of its assignment, which does not count in
the version.

### Exceptions: `Exceptions`

One exception under its version column. The ORM adds one to the version of each
`UPDATE` it makes and the service adds another one to the object, so a write counts
two and a resolve four. `overtaken` records that a resolve went on although its first
write matched no row.

An event has what the code records: the old and the new severity, the resolution type,
the new owner. It has no root cause, neither that of `set_root_cause` nor that of a resolve,
no due date recomputed with the severity, of evidence only the keys, and of the creation
nothing but the status and the severity. So `Effect` leads from an event to the values the row
may have, and `TimelineReplays` asks for the exact value only of the fields that are
always recorded (status, severity, resolution) and of the others where the last event about
them says it.

### Migration: `Migration`

One project with one flat file of chunks. Requests read the status and write later
(`Begin`, `Commit`); the import job commits chunk by chunk on workers that fail,
die and are reaped while they are alive, so two attempts may run at once.
`rows` are the records with the attempt that created them, `mapped` the mappings a
rollback goes by. `mishaps` records what the properties except: requests that
overlapped on the project, a rollback that met an attempt, a rollback by the
run's own endpoint, an approval asked for after the import had been started. Giving up leaves the job's `retries` as they are: `fail` without a
`retry_at` does not count.

The job here is one of `JobQueue`'s, with its chunks spelled out and its requests those of the
project. `ImplementsQueue` says so: the import goes by `DurableJobs` too, with one job
of which clients ask nothing but its cancellation (`Asked`).

### Communications: `Communications`

A dispatch job loads all due schedules with their messages and recipients and
delivers one message after the other from these copies: it writes the message
(`TouchMessage`), calls the provider and writes the recipient for each
(`DeliverTo`), commits (`FinishDelivery`), and advances the schedule in the
transaction that the next message commits (`AdvanceSchedule`, `Advanced`). Requests
send now, retry, delete and read meanwhile, and deliver through the same code. Row
locks, deadlocks, deleted rows (`StaleDataError`) and deaths end a session at any
point.

- `PATCH /messages/{id}` writes any string to the status (`UpdateMessage`, `Patch`); `Given` are
  the ones clients send, and `patched` the messages that still have such a status. The
  text it may also change is left out.
- `session[s].copy` is what a session loaded and still works from;
  `contested` are the messages two sessions had in hand at one time, `cut` those
  whose request died after its first commit.
- `notified` counts committed notifications. Mails and texts that left before a
  rollback are not counted: they are sent again.

## 3. What the runs check

| Run | Instance | Result |
|---|---|---|
| `fees_concurrent` | 3 requests, 2 dues of one student, 1 key, amounts 1..2 | dues in range; a key takes effect once; a replay answers with the committed payment; no refund applies twice unless different refunds of a payment overlap; ledger balances form a chain; every request is answered |
| `fees_serial` | 4 requests, disciplined clients | dues, payments and ledger agree; every effect is journaled once; refines `FeeAccount` |
| `jobs` | 2 jobs, one without a handler and one that checkpoints and is slow, 2 workers, 2 requests that may overlap (cancel, retry, `PATCH` to failed), 1 crash | never two workers on a job, work committed once per request for it and attempts bounded by retries plus crashes, unless the job was disturbed; every job settles; refines `DurableJobs` |
| `outbox` | 2 events, 3 producers, 2 workers, batches of 2, 1 crash | event iff change; one notification iff completed; refines `DurableEvents`; every event settles unless a process goes on delivering in-app last |
| `audit` | 3 transactions (2, 1 and 0 new events), 2 campuses, 1 checkpoint | chains break only at overlapping appends; at most one entry per event; quiet verdicts are right |
| `approvals` | 2 sessions, 2 instances, 1 leave request, 2 workflows, 1 change by the administrator, histories up to 3 | an active instance is at a step of its own workflow; only overlapping sessions part history and state; a leave is decided as it was submitted |
| `ledger` | 2 sessions, 2 accounts, 2 periods sharing a day, a balanced and an unbalanced voucher, 3 entries | the books balance; a reversal cancels; everything else breaks by races on one row only; a closed period stays closed and its books stay as they are |
| `billing` | 2 sessions, 1 campus, a full and a short capture and a failure, 2 units of time | one unpaid invoice at most; paid once, in full and for periods that do not overlap, unless sessions raced; what is over stays over |
| `cases` | 2 sessions, a risk rule and a check, 1 case made of a finding, 3 timeline entries | the timeline accounts for status, version and escalation, assigned at creation or not; finding and case stay in step, recomputes that flush late apart |
| `exceptions` | 3 requests at a time, 5 timeline entries | whoever finds its version current has read the current row; the timeline agrees with the row as far as events record it |
| `migration` | 2 requests, 2 workers, 2 chunks of which the campus has one, 1 retry | no record twice; records are those named by mappings; a cut-over import stays; no import starts while a review asked for before it is pending or has refused it |
| `communications` | 2 workers, 1 request, a schedule that recurs once, 2 recipients of which one may fail, a `PATCH` to failed, 1 crash | a recipient is notified once; the status tells what became of the recipients unless a client set it; a due schedule is dispatched and leaves nobody pending |

Many of these properties except rows on which sessions raced. The exception is
recorded by a history variable at the moment a session writes what another one
had read; everything outside of it must hold, and section 5 says what happens
inside.

Why the bounds are enough: three overlapping actors show every pairwise race
with a third one committing in between (the holder of a lock, the one that waits,
the one that overtakes both). Where sessions only read, decide and commit, without
locks to hand over, two sessions show each pair, and since each may begin again after
it has ended, also what a third one commits in between. Two units of money tell a
partial payment or refund from a full one. One retry and one crash show a retry
after a crash and the reverse. Batches of two are what a deadlock between batches
needs; a worker and a request that write message and recipients in opposite
orders are what one between a dispatch and a delivery by hand needs. Two events of
one transaction show a transaction appending after its own uncommitted entry, and
the third transaction races for the backfill of the first one's events. Two
chunks show an attempt that ends between them. Two units of time end a trial and
the period after it, so two invoices meet a third period. One recurrence shows a schedule dispatched again
after it was advanced.

The bounds are constants: `MaxAmount`, `MaxCrashes`, `MaxEvents`,
`MaxCheckpoints`, `MaxHistory`, `MaxEdits`, `MaxAdmin`, `MaxCreated`, `MaxCases`, `MaxRaced`,
`MaxMishaps`, `Horizon` and `Occurrences`; `Ids` and `Chunks` bound the rows. `MaxAttempts`,
`BatchSize` and `MaxRetries` are settings of the program. `MaxRaced` and `MaxMishaps`
stop new requests once so many rows were raced on, or so many kinds of mishap
happened, that little is left to say of the state; what is under way still ends. Requests of
`FeePayments`, `JobQueue` and `Communications` run once; sessions of the other
models begin again.

Runs without a liveness property use symmetry, as does `fees_serial`, whose
property is a refinement without fairness. Deadlock is not checked: every model
ends when its requests are answered, its queues are empty or its bound is reached;
where getting there is a promise, it is a liveness property.

Timelines moved by hand (`Manual` of `Cases`) are in no run, for the time they take; the proofs
cover them.

`Outbox`, `Approvals`, `Ledger`, `Billing` and `Cases` also have a type invariant (`TypeOK`,
`BillingTypeOK`, `CasesTypeOK`) that holds on the instances above; add it to the
configuration's `INVARIANTS` to see it. Each of them is proved.

### Fairness

- Fees: `WF` of each request's next step. The event loop resumes a request
  whose statement has returned, and the database resolves waits. Nobody has to
  begin a request.
- Jobs: `WF` of each worker, of the reaper and of time. The worker loop polls
  and reaps for ever, and a handler returns or raises. No fairness for requests
  or crashes.
- Outbox: `WF` of each worker and of time, and `SF` of a worker's claim: row
  locks are granted in the order of the waits, so a claim that is let in again and
  again gets its turn.
- Communications: `WF` of each session's next step and of time. A job is enqueued
  every five minutes; a request that has begun goes on. Nobody has to make a request.

`SettlesUnlessInAppLast` has an assumption the code does not guarantee; section 5
says what happens without it.

## 4. What is proved

Each component's proofs are in a module that extends the component. `Billing`, `Cases` and
`Communications` share theirs with a component they have no name in common with, which is
why their specifications are called `BillingSpec`, `CasesSpec` and `MailSpec` (with
`...Init`, `...Next` and `...Vars` to match) and their `None` is `NoValue`. Nothing proved of
one component of such a module is used for the other.

`FeePayments_proofs` proves, for every set of requests, dues, students and keys
and every amount:

- `Invariance`: `FInv` is an invariant. It adds to `TypeOK` that `FOR UPDATE`
  locks exclude one another, that a request past its due's lock holds the lock
  and still sees the due as committed with an amount that fits (`HoldsDue`), that
  committed payments have finished and have refunded at most their amount, and that
  a due's status follows from what was paid. `DueInRange` alone is not inductive:
  nothing in it says that the check made under the lock still holds at commit.
- `TypeCorrect` and `DuesStayInRange`, which follow.
- `KeysHonoured`, from `JInv` (what committed is what was answered: payments, audit
  rows and ledger rows are of the requests that took effect) and `KInv` (of the
  requests with one key, at most one is past its key check and the unique index, and
  a replay answers for one that took effect).
- `BalanceIsChained`, from `CInv`: every ledger row opens where the student's last
  row before it closed, and a request that has computed a balance holds the
  student's row until it commits, so the balance is still the student's.
- `RefundsAddUp` (`NoDoubleRefund`), from `RInv`: what an open refund has read of its payment was
  refunded, and it is what the payment says now, unless another refund crossed it or the
  refund it retries has taken effect (`ReadsRefunded`). The latter cannot commit: it would have
  found the ledger row of its key under the payment's lock (`PastCheckOK` of `KInv`).
- `AccountsAgree`, under `SerialSpec`: `SInv` adds what discipline
  gives (one open refund per payment, a refund key used for one payment), `NInv`
  counts. A ledger is summed as a set of units of money, so that no induction over
  its rows is needed: a commit adds a disjoint set of the size of its amount.
- `FeesImplementAccount`: `SerialSpec` implements `FeeAccount`. A commit of a payment or
  a refund is the account's step (`Pay`, `Refund`); every other step, locks, dues created and
  aborts included, changes nothing the account shows.

`Outbox_proofs` proves, for every set of events, producers and workers, every
batch size and attempt limit, and any number of crashes:

- `Invariance`: `OInv` is an invariant. It adds to the properties below that a
  pending row has failed less than `MaxAttempts` times (`RowOK`), that what a
  producer read or inserted is still so when it commits (`ProducerOK`, and
  `InsertsExclusive` for the unique index), and that an event locked by a batch
  stays pending and belongs to one batch (`ClaimsOK`, `WorkerOK`).
  `NotifiedIffCompleted` needs `ClaimsOK`: two batches holding the same event
  would both notify, and an event with an unread notification but a pending row
  would be completed without one.
- `TypeCorrect`, `EventsFollowChanges` and `NotifiedOnce`, which follow.
- `OutboxImplementsDurable`: `Spec` implements `DurableEvents`. The commit of a
  change with a new event is `Announce`, the commit of a batch is `Settle` of the
  events it delivers and those it fails (`BatchEffect`), and every other step
  changes neither status nor attempts nor notifications.

`JobQueue_proofs` proves, for every set of jobs, workers and requests and any number
of deaths, with no assumption on the jobs or on what clients do:

- `QueueInvariance`: `QInv` adds to `TypeOK` that a row is locked exactly while a worker runs
  its job uncommitted, and then still says `pending` (`ClaimsAreHeld`).
- `TypeCorrect` and `NoClaimIsOrphaned`, which follow: no death, timeout or request
  leaves a claimed row behind, and the reaper, which looks for `running` rows, never takes
  one from under a claim nobody can see yet.
- `QueueImplements` (`ImplementsQueue`): `Spec` implements `DurableJobs`. A claim is `Begin`, the
  first commit `Show`, the ways a poll ends are `Finish`, a crash is `Die`, and reaping and
  writing a request are `Reap` and `Request`; everything else, the first statement of a claim, reads,
  time and a request that comes too late included, changes nothing the abstract queue
  shows. So two open attempts at one job exclude each other whatever clients do. That two
  attempts exclude each other after the first has committed is not in `DurableJobs`, because it
  is not so of a job that was disturbed.

- `Invariance`: `JInv` is an invariant. `OneWorkerPerJob` is not inductive: of a job that was
  not `disturbed` it adds what a worker knows of its job at each of its stages (`WorkerOK`)
  and what a row's status and history say of who may run it (`JobOK`), and of every job
  that a row goes stale under a live worker only if it is slow (`RowFits`).
- `OneWorker`, `WorkOnce` and `BudgetKept`, which follow.

The exception is needed: section 5 shows a disturbed job with two workers.

`Approvals_proofs` proves, for every graph of workflows, every set of sessions and
leave requests and any changes to the definitions:

- `Invariance`: `AInv` says of every instance that it is at a step of its
  workflow (`InstanceOK`), of every session that what it is about to write fits the
  instance it has read and that a step it moves to is one an edge led to
  (`RequestOK`), and of every leave request that its instance is one of its own and that
  its content is that of the history while the review is active (`LeaveOK`).
- `LiveStepsAreOwn` and `DecidedAsSubmitted`, which follow.
- `HistoriesAreTrue`, from `HInv`: a session about to act has decided on the status its
  entry will stand for (`Meant`), so the entry it appends follows from the last one
  (`Follows`), unless another session moved the instance in between.
- `NothingDangles` (`TypeOK`), from `RefInv`: what a session is about to write refers to rows
  that exist or fails on a foreign key (`Refers`), and a deletion takes what refers to the
  deleted row with it or sets the reference to none.

`Ledger_proofs` proves, for every chart of accounts, every set of periods and
every voucher clients send:

- `Invariance`: `LInv` says that a booked entry balances and a reversal mirrors its
  original (`EntryOK`), and that a session about to post or to reverse has in hand
  the lines of an entry that cannot change any more (`RequestOK`).
- `BooksAlwaysBalance`, `ReversalsCancel` and the action property
  `ClosedStaysClosed`. The last one needs that a session which found its period open
  still does, or that the period is marked as closed under it (`FoundOpen`). It says of
  the books of a period that is not open that no step changes them at all.
- `TypeCorrect` (`TypeOK`).
- `RacesAreTheOnlyBreak`, from `RInv`: for a row nobody raced on, every session that has
  read it still sees it as it is, so that an entry is reversed once (`EntriesTell`), a
  session about to book finds its accounts active and one about to retire an account
  finds it unused (`AccountsTell`), and two periods never share a day (`PeriodsTell`).

The second half of `JobQueue_proofs` is about `Billing`, for every set of sessions,
campuses, plans, prices and webhook events, from `BillingGiven`, the part of
`BillingAssumption` that the proofs use:

- `BInv` says that no two sessions hold the lock of one row, that a run of the period
  end invoices only rows it has locked, of campuses that owe nothing (`BillOK`), and that a
  request which settles an invoice was paid enough for it (`RowRequestOK`). Of a campus
  nobody raced on it adds that what sessions have read is still current
  (`ReadsCurrent`), and that its invoices are settled once, follow one another and lie before
  the current period (`Orderly`).
- `OwesOnce` (`OneInvoiceOwed`) and `RacesAloneMisbill` (`OnlyRacesMisbill`), which follow. The
  first holds also where sessions raced, by the locks alone. `RacesAloneMisbill` also needs
  `SeenInv`: the events of an invoice are in the ledger of events and no two invoices
  share one, since a request that settles one commits only with an event not seen yet.
- `BillingTyped` (`BillingTypeOK`).
- `OverStaysOver` (the action property `OverIsFinal`): a subscription that is over comes
  back only by a session that had read it before it ended.

`Exceptions_proofs` proves, for any number of sessions and values:

- `Invariance`: `EInv` says that no request has read a version of the
  future, and that one whose version is the current one has read the current row
  (`NotAhead`). The first part keeps the second: a version that is written has not
  been read before.
- `NoStaleWrite`, which follows.
- `TimelineIsTruth`, from `TInv`. The row a timeline leads to is defined by recursion
  over the events, and what a recursive definition computes is not for the prover to
  find by induction. `TInv` goes with the steps of the system instead: some function
  replays the timeline (`Replays`), each step extends it by one event, and
  every function that replays it ends with values the row agrees with (`Agrees`).

The second half of `Outbox_proofs` is about `Cases`, for every set of rules, sessions and
statuses asked for, and any number of cases and entries, from `CasesGiven`:

- `CaseInv` adds to the two properties, each of the rows nobody raced on, that what a
  session has read still holds (`StillSo`: the status and version it moves a case from,
  the alarm it has not seen, the open finding it acknowledges), that what it is about to write
  is one of the edits of the lifecycle (`EditOK`), that only a resolved finding names a
  case as the reason and that no two cases have one source.
- `TimelinesAccount` (`TimelineTells`), by `OneMoreEntry`: every commit appends one entry,
  and the entry, the status, the version and the alarm change together.
- `LoopsAreClosed` (`LoopIsClosed`), by `SyncIs` and `RefreshedIs`: a transition takes its
  finding along, and a run of the rules never makes a finding live that was not.
- `CasesTyped` (`CasesTypeOK`), from `KindInv`: nobody acknowledges a data-quality finding.

The second half of `AuditChain_proofs` proves, of `Communications`, for every number of
messages, recipients, occurrences, workers, requests and crashes, under `MailGiven`: no
session is both a worker and a request, and `NoValue` is no message and no status.

- `MailInv` says what a session may rely on between loading a message and committing its
  delivery (`CopyOK`): as long as no other session has the message in hand, its status is
  the loaded one, each recipient is as loaded or has been read since, and one the copy has
  pending has no notification. Outside of that window a recipient's status tells its
  notifications (`CountsOK`) and the message's status its recipients (`StatusFits`),
  except while a request that has committed its first part delivers (`TakenOver`).
- `MailOnce` (`NotifiedOnce`): the heart is `FinishDeliveryKeeps`. What a delivery commits
  was pending in its copy, so it had not been notified; and a retry (`RetryKeeps`) makes
  only recipients pending again whose delivery failed. A dispatch that died before it
  advanced the schedule loads the message anew, with nobody pending.
- `StatusIsTrue` (`StatusTells`), by `VerdictFits`: the verdict is computed from the copy
  and from what was written, and readers cannot make it untrue. A request that ends
  while it delivers is why the message joins `cut`.

`Migration_proofs` proves, for every number of chunks, retries, workers and
requests:

- `Invariance`: `MInv` adds to the properties, each of them outside of the `mishaps` that
  break it, what an attempt relies on (`WorkerOK`: what it skips is there, and so are all
  chunks before its next one, also when another attempt that was reaped alive runs
  beside it), what a request relies on (`SessionOK`: a rollback has listed every mapping, a
  project is still in the status it was read in), and that an import which is over
  or cut over has all its records (`ProjectOK`).
- `NothingImportedTwice`, `EveryRowAccounted`, `CutoverKeepsRecords` and
  `ReviewIsWaitedFor`, which follow.
- `NoClaimIsOrphaned` and `JobImplements`, from `LInv`: the job's row is locked exactly while
  an attempt has committed nothing (`ClaimIsHeld`), and the import implements `DurableJobs`. The
  first chunk is `Show`; later chunks, the status of the project and
  rollbacks are not the queue's. `migration` does not check `ImplementsQueue`, which two
  requests make too large for it; add it as a `PROPERTY` with `Sessions = {c1}` to see it.

`AuditChain_proofs` proves, for every number of transactions, campuses, events and
checkpoints:

- `OneEntry`, from `AInv`: no two entries of one event stand, committed or staged, and
  what a transaction has staged is sound: its entries are of rows, and a row recorded
  under a tenant has its entry or is owed one (`Sound`).
- `OverlapsAloneFork`, from `FInv`: a campus nobody overlapped on is `Whole`. It is appended to
  by one transaction at a time, what is committed and what each transaction sees is a
  chain, whoever is about to append does so at its end, and checkpoints sign a part
  of it.
- `QuietVerdicts`, from `VInv`: what a verification has read lies between what was committed
  when it began and what is committed now; if nothing was committed in between, it
  judges the committed chain. `VerdictIs` then says that the verifier's rules, which
  go through the entries one by one in any order the database may list equal indices
  in, accept exactly the chains that are `Intact`.
- The lemmas on orderings (an ordered listing of a chain has entry `n` at place `n`)
  are proved by taking a least counterexample, where the library's induction
  theorems cannot be used.

Assumptions are those named in the modules (`...Assumption`), which TLC evaluates on
every run, and for `AccountsAgree` and `FeesImplementAccount` the discipline of `SerialSpec`.

Only model-checked: the four liveness properties `EveryRequestAnswered`, `EveryJobSettles`,
`SettlesUnlessInAppLast` and `DueIsDispatched`. They need fairness and `ENABLED`, which are beyond the prover.
Every safety property of a run is a theorem.

## 5. Known deviations

What follows holds of the models and of the code they translate. Where a property
names it, the change to a configuration that makes TLC show it is given.

Fees
- Two refunds of one payment that overlap both apply: the payment is read
  before it is locked and the locked read returns the same object
  (`fees/router.py:483`), and the second one overwrites the sum of both. Drop
  `p \notin crossed` from `NoDoubleRefund` and run `fees_concurrent`.
- One refund key takes effect for two payments. `RefundKeyIsOnePayment` under `Spec`
  with one due and one key.
- Two payments of one student on different dues deadlock through the foreign
  key's share lock on the student row; the database aborts one.

Jobs
- Deaths are not counted against `max_retries`: `AttemptsWithinBudget` with one job
  and two crashes.
- A job that commits and does not report progress is reaped under its live worker and
  run by a second one; a `PATCH` to failed of a running job followed by a retry, one after
  the other, does the same; and of two overlapping retries of one dead-lettered job
  that checkpoints the late one puts it back while a worker executes it. Replace
  `worker[v].job \in disturbed` with `FALSE` in `OneWorkerPerJob`.
- A cancel of a running job is overwritten by its worker.

Outbox
- An event for a user who does not exist stops the queue of a process that
  delivers in-app last: `EveryEventSettles` with `InAppLast = {TRUE}`, `Unroutable = {e1}`.
- A second call that publishes the same event at the same time loses its change:
  `DuplicatesAreHarmless` with two producers of `e1`.
- A worker that waited for the row of a failing event retries it without its delay.

Audit
- Two appends that overlap fork the chain: `ChainIsSequential`, two transactions.
- An event committed between the reads of `scripts/audit_verify.py` makes an intact
  chain look broken.

Workflow and leave
- A `return` may name any step, later ones included; a `reject` may name a step of
  another workflow. With an edge from a final step to itself an overlapping
  reject can leave a completed instance there.
- A submission into a final step leaves the instance active. Two calls of
  `start_instance` at one time give two active instances. An approval and a
  cancellation that overlap overwrite each other's status.
- An edit of a leave request looks at that request's own instance only.

Ledger
- Two reversals that overlap both post a mirror; a posting that read the period
  as open commits after it was closed; two periods created at one time overlap.
- `create_and_post` with the key of a draft answers with the draft, not posted.

Billing
- `process_period_end` invoices the period it read before the lock: with a
  renewal in between it meets the unique key, and the one flush loses every other
  campus' invoices of the run.
- Two captured payments can both settle one invoice when they overlap. A
  cancellation that overlaps a capture or a renewal can be undone by it, and a
  renewal that overlaps the period end of a subscription to be cancelled is lost.
- A past-due subscription without a pending invoice is activated by a payment of
  any amount.
- `require_usage_limit` says that usage is counted after the handler; nothing
  increments it.

Cases and findings
- A check that fires again after its finding was resolved or ignored makes the
  next recompute fail on the unique key, every time, for the whole campus; resolving
  or reopening a case fails in the same way. `data_quality/service.py:114` says
  "Re-open on each run while the condition persists". Add `NextRunIsStored` to
  `cases.cfg`.
- A recompute that selected an acknowledged finding and flushes after the finding's
  case was resolved sets the finding back to open (`risk/service.py:242-271`): a resolved case with a live
  finding. Drop the second condition on `raced` from `LoopIsClosed`.
- A case created with an assignee has an `ASSIGNED` entry before `CASE_CREATED`, both at version
  1 (`cases/service.py:776-790`).
- Reopening clears neither `closed_at` nor `escalated_at`. A transition is
  checked against a status that another session may have left.

Exceptions
- A resolve whose first write matched nothing resolves all the same and lowers
  the version (`tests/test_exceptions.py:10`: "a stale version can never overwrite
  a newer one").
- The timeline does not say which root cause was set (`exceptions/service.py:573-579`, nor by a resolve,
  427-443), which due date came with a severity (526-530), or what the evidence was
  (604, the keys only).
- Reopening keeps `resolution_type`. `mark_verified` has no caller.

Migration
- `POST /runs/{run_id}/rollback` looks neither at the status nor at the cutover
  ("cannot be rolled back without an explicit override" says the service).
- `run_validation` does not look at the status: a project that is importing,
  completed, cancelled or rolled back becomes READY again. Starting it then
  finds the one job of its identity key, in whatever status, and the
  project stays IMPORTING.
- After start and validation an approval may be asked for while the worker goes on
  importing: the project says APPROVAL_REQUIRED and records are written. Drop `"late"`
  from `ImportIsApproved`.
- A cancellation does not stop the job, whose worker overwrites the status. A
  rollback that meets an import leaves records without mappings. An approval
  survives a change of the mapping. The counts of a run are those of its last
  attempt.

Communications
- Recipients are never reset: a recurring message is delivered the first time
  only; later dispatches find nobody pending.
- Sessions that overlap on a message deliver it twice, from two copies of
  its recipients, while the docstring of `dispatch_due_schedules` says that
  "duplicate job execution cannot double-deliver". Replace `Messages \ contested`
  with `Messages` in `NotifiedOnce`.
- A request that dies between its first commit and its delivery leaves a message that
  says "sent" with recipients that stay pending; no job picks it up.
- `PATCH /messages/{id}` sets the status to any string (`communications/service.py:842-849`); it stays
  until the next delivery. Drop `patched` from `StatusTells`.
- A recipient who reads a scheduled message in the inbox before its time is
  skipped by the delivery.

## 6. Not modelled

- The job scheduler (identity keys, two schedulers in one cycle), the export row
  of a report, rollover and batch imports of academic years, attendance,
  admission: transactions of one request or one job with a check-then-insert; the
  jobs themselves are those of `JobQueue`.
- Authentication and sessions: the models take a request as authorised.
- Policies, extensions, reconciliation, identities, lineage, evidence packages,
  temporal records: further record keeping with versions or runs, without
  components that depend on it.
- Documents and provider calls: file bytes, mails, pushes and payments leave the
  database's transactions; what the models say of them is that they may fail or
  happen again.
- Analytics, 360 views, dashboards, search, timeline, simulation, optimization,
  graph algorithms: derived from records or numeric, without state of their
  own.
- Academic structure and operations, institutions, students, parents: create, read,
  update and delete on rows guarded by constraints.
- Within modelled components: fee structures, waivers and receipts; the outbox
  reaper; tampering and key rotation of the audit chain; usage limits and
  coupons; several streams of one migration, rejected rows and snapshots;
  templates, texts and the choice of recipients; linking an exception to a case or a
  workflow.

What would come next: the scheduler and the exports as further
implementations of `DurableJobs`; several billing campuses in one flush.

## 7. Running

    tlc -workers 2 -config jobs.cfg MCJobQueue
    tlc -workers 2 -config communications.cfg MCCommunications
    tlapm Ledger_proofs.tla

Every run ends within a few minutes with two workers; the others are named in
`PROJECT.json`.
