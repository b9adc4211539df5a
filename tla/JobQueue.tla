------------------------------ MODULE JobQueue ------------------------------
(***************************************************************************)
(* The durable job queue: workers that claim and execute jobs, the reaper  *)
(* of stale claims, and the requests clients make about a job.             *)
(*                                                                         *)
(* A worker claims and executes a job in one transaction, so its claim     *)
(* stays invisible, and the job row locked, until the job commits by       *)
(* itself (a checkpoint) or the poll cycle ends.                           *)
(***************************************************************************)
EXTENDS Integers, FiniteSets

CONSTANTS
    Jobs,
    Workers,
    Clients,        \* requests about a job; each runs at most once
    Ops,            \* what those requests ask for
    Rank,           \* place of a job in (priority, created_at) order
    MaxRetries,     \* max_retries of each job
    Checkpointing,  \* jobs that commit while they run (imports, exports)
    Slow,           \* those that may outlast stale_after without a heartbeat
    Unregistered,   \* jobs of a type no handler is registered for
    MaxCrashes,     \* bound on worker deaths
    None

AllOps == {"cancel", "retry", "patch_cancelled", "patch_failed",
           "patch_progress", "patch_result"}

ASSUME JobAssumption ==
    /\ IsFiniteSet(Jobs)
    /\ Ops \subseteq AllOps
    /\ Rank \in [Jobs -> Nat]
    /\ MaxRetries \in [Jobs -> Nat]
    /\ Slow \subseteq Checkpointing
    /\ Checkpointing \subseteq Jobs
    /\ MaxCrashes \in Nat
    /\ None \notin Jobs \cup Workers

VARIABLES
    rows,       \* committed jobs rows
    locked,     \* the worker whose uncommitted claim locks the row, or None
    worker,     \* what each worker is doing, and its session's retry_count
    client,     \* what each request is doing, and what it has read
    effects,    \* how often the work of a job has been committed
    attempts,   \* executions begun since the job was created or retried
    retried,    \* retry requests that put the job back in the queue
    crashes,
    disturbed   \* history: jobs taken from a live worker that broke the
                \* heartbeat contract, or by a request that should not have

vars == <<rows, locked, worker, client, effects, attempts, retried, crashes, disturbed>>

Idle  == [pc |-> "idle", job |-> None, retries |-> 0]
NoOp  == [pc |-> "idle", op |-> "none", job |-> None, retries |-> 0]
Answered == [NoOp EXCEPT !.pc = "done"]
Terminal == {"completed", "dead_letter", "cancelled"}

Init ==
    /\ rows = [j \in Jobs |-> [status |-> "none", retries |-> 0, due |-> TRUE, stale |-> FALSE]]
    /\ locked = [j \in Jobs |-> None]
    /\ worker = [w \in Workers |-> Idle]
    /\ client = [c \in Clients |-> NoOp]
    /\ effects = [j \in Jobs |-> 0]
    /\ attempts = [j \in Jobs |-> 0]
    /\ retried = [j \in Jobs |-> 0]
    /\ crashes = 0
    /\ disturbed = {}

(* create_job.                                                             *)
CreateJob(j) ==
    /\ rows[j].status = "none"
    /\ rows' = [rows EXCEPT ![j].status = "pending"]
    /\ UNCHANGED <<locked, worker, client, effects, attempts, retried, crashes, disturbed>>

-----------------------------------------------------------------------------
(* Workers.                                                                *)

Claimable == {j \in Jobs : rows[j].status = "pending" /\ rows[j].due}

(* acquire_next, the subquery: the first due pending job by priority.  An  *)
(* uncommitted claim is invisible to it.                                   *)
PickCandidate(w) ==
    /\ worker[w].pc = "idle"
    /\ \E j \in Claimable :
          /\ \A k \in Claimable : Rank[j] <= Rank[k]
          /\ worker' = [worker EXCEPT ![w] = [pc |-> "claiming", job |-> j, retries |-> 0]]
    /\ UNCHANGED <<rows, locked, client, effects, attempts, retried, crashes, disturbed>>

(* Broken variant: the status is not checked again on the locked row.      *)
ClaimUnchecked(w) ==
    LET j == worker[w].job IN
    /\ worker[w].pc = "claiming"
    /\ locked[j] = None
    /\ locked' = [locked EXCEPT ![j] = w]
    /\ worker' = [worker EXCEPT ![w].pc = "running", ![w].retries = rows[j].retries]
    /\ attempts' = [attempts EXCEPT ![j] = @ + 1]
    /\ UNCHANGED <<rows, client, effects, retried, crashes, disturbed>>

(* acquire_next, the UPDATE: it waits for the row lock and checks again    *)
(* that the job is pending; the loser claims nothing and its poll ends.    *)
Claim(w) ==
    LET j == worker[w].job IN
    /\ worker[w].pc = "claiming"
    /\ locked[j] = None
    /\ IF rows[j].status = "pending"
       THEN /\ locked' = [locked EXCEPT ![j] = w]
            /\ worker' = [worker EXCEPT ![w] = [pc |-> "running", job |-> j,
                                               retries |-> rows[j].retries]]
            /\ attempts' = [attempts EXCEPT ![j] = @ + 1]
       ELSE /\ worker' = [worker EXCEPT ![w] = Idle]
            /\ UNCHANGED <<locked, attempts>>
    /\ UNCHANGED <<rows, client, effects, retried, crashes, disturbed>>

(* The first commit of a job that commits while it runs: its claim becomes *)
(* visible and the row is unlocked.                                        *)
Checkpoint(w) ==
    LET j == worker[w].job IN
    /\ worker[w].pc = "running"
    /\ j \in Checkpointing \ Unregistered
    /\ worker' = [worker EXCEPT ![w].pc = "detached"]
    /\ locked' = [locked EXCEPT ![j] = None]
    /\ rows' = [rows EXCEPT ![j].status = "running", ![j].stale = FALSE]
    /\ UNCHANGED <<client, effects, attempts, retried, crashes, disturbed>>

Executing(w) == worker[w].pc \in {"running", "detached"}

(* The end of a poll cycle: s is written over the job row whatever its     *)
(* status is, the transaction commits and the row is unlocked.             *)
EndPoll(w, s, retries, due) ==
    LET j == worker[w].job IN
    /\ locked[j] \in {w, None}
    /\ locked' = [locked EXCEPT ![j] = None]
    /\ rows' = [rows EXCEPT ![j] = [status |-> s, retries |-> retries,
                                    due |-> due, stale |-> FALSE]]
    /\ worker' = [worker EXCEPT ![w] = Idle]
    /\ UNCHANGED <<client, attempts, retried, crashes, disturbed>>

(* run returned: complete the job.  Work that did not commit by itself     *)
(* takes effect with it.                                                   *)
Succeed(w) ==
    LET j == worker[w].job IN
    /\ Executing(w)
    /\ j \notin Unregistered
    /\ EndPoll(w, "completed", rows[j].retries, rows[j].due)
    /\ effects' = IF worker[w].pc = "running" THEN [effects EXCEPT ![j] = @ + 1] ELSE effects

(* Broken variant: one retry too many.                                     *)
FailLate(w) ==
    LET j == worker[w].job
        count == worker[w].retries + 1
    IN
    /\ Executing(w)
    /\ j \notin Unregistered
    /\ IF count > MaxRetries[j] + 1
       THEN EndPoll(w, "dead_letter", rows[j].retries, rows[j].due)
       ELSE EndPoll(w, "pending", count, FALSE)
    /\ UNCHANGED effects

(* Broken variant: the savepoint is not rolled back.                       *)
FailKeepingWrites(w) ==
    LET j == worker[w].job
        count == worker[w].retries + 1
    IN
    /\ Executing(w)
    /\ j \notin Unregistered
    /\ IF count > MaxRetries[j]
       THEN EndPoll(w, "dead_letter", rows[j].retries, rows[j].due)
       ELSE EndPoll(w, "pending", count, FALSE)
    /\ effects' = IF worker[w].pc = "running" THEN [effects EXCEPT ![j] = @ + 1] ELSE effects

(* run raised: the savepoint is rolled back and _handle_failure schedules  *)
(* a retry or gives the job up.  It counts from the session's copy of the  *)
(* row, read when the job was claimed.                                     *)
Fail(w) ==
    LET j == worker[w].job
        count == worker[w].retries + 1
    IN
    /\ Executing(w)
    /\ j \notin Unregistered
    /\ IF count > MaxRetries[j]
       THEN EndPoll(w, "dead_letter", rows[j].retries, rows[j].due)
       ELSE EndPoll(w, "pending", count, FALSE)
    /\ UNCHANGED effects

(* No handler is registered for the job's type.                            *)
Reject(w) ==
    LET j == worker[w].job IN
    /\ worker[w].pc = "running"
    /\ j \in Unregistered
    /\ EndPoll(w, "dead_letter", rows[j].retries, rows[j].due)
    /\ UNCHANGED effects

(* The worker dies or is shut down: what it has not committed is rolled    *)
(* back, its claim included.  A new worker takes its place.                *)
Crash(w) ==
    /\ crashes < MaxCrashes
    /\ Executing(w)
    /\ crashes' = crashes + 1
    /\ locked' = [j \in Jobs |-> IF locked[j] = w THEN None ELSE locked[j]]
    /\ worker' = [worker EXCEPT ![w] = Idle]
    /\ UNCHANGED <<rows, client, effects, attempts, retried, disturbed>>

-----------------------------------------------------------------------------
(* Time, and the reaper.                                                   *)

(* Some worker executes j.                                                 *)
Busy(j) == \E w \in Workers : Executing(w) /\ worker[w].job = j

(* The retry delay of a failed job is over.                                *)
ComeDue(j) ==
    /\ ~rows[j].due
    /\ rows' = [rows EXCEPT ![j].due = TRUE]
    /\ UNCHANGED <<locked, worker, client, effects, attempts, retried, crashes, disturbed>>

(* stale_after has passed since the row was last touched.  A job that      *)
(* reports progress only goes stale once its worker is gone; a slow one    *)
(* that does not goes stale under its worker.                              *)
GoStale(j) ==
    /\ rows[j].status = "running" /\ ~rows[j].stale
    /\ j \in Slow \/ ~Busy(j)
    /\ rows' = [rows EXCEPT ![j].stale = TRUE]
    /\ UNCHANGED <<locked, worker, client, effects, attempts, retried, crashes, disturbed>>

Stale == {j \in Jobs : rows[j].status = "running" /\ rows[j].stale}

(* The reaper takes a slow job from its worker: history, not code.         *)
ReapsLive == {j \in Stale \cap Slow : Busy(j)}

(* Broken variant: exhausted jobs are skipped.                             *)
ReapRetryableOnly ==
    /\ \E j \in Stale : rows[j].retries < MaxRetries[j]
    /\ rows' = [j \in Jobs |->
            IF j \in Stale /\ rows[j].retries < MaxRetries[j]
            THEN [status |-> "pending", retries |-> rows[j].retries + 1,
                  due |-> TRUE, stale |-> FALSE]
            ELSE rows[j]]
    /\ disturbed' = disturbed \cup ReapsLive
    /\ UNCHANGED <<locked, worker, client, effects, attempts, retried, crashes>>

(* reclaim_stale_running.                                                  *)
Reap ==
    /\ Stale # {}
    /\ rows' = [j \in Jobs |->
            IF j \notin Stale THEN rows[j]
            ELSE IF rows[j].retries < MaxRetries[j]
            THEN [status |-> "pending", retries |-> rows[j].retries + 1,
                  due |-> TRUE, stale |-> FALSE]
            ELSE [rows[j] EXCEPT !.status = "dead_letter", !.stale = FALSE]]
    /\ disturbed' = disturbed \cup ReapsLive
    /\ UNCHANGED <<locked, worker, client, effects, attempts, retried, crashes>>

-----------------------------------------------------------------------------
(* Requests: POST /cancel, POST /retry and PATCH.  Each reads the row in   *)
(* one statement and writes it in a later one; of what it has read only    *)
(* a retry uses more than the status.                                      *)

Applies(op, status) ==
    CASE op = "cancel" -> status \notin {"completed", "dead_letter"}
      [] op = "retry"  -> status = "dead_letter"
      [] OTHER         -> TRUE

ReadJob(c, op, j) ==
    /\ client[c].pc = "idle"
    /\ rows[j].status # "none"
    /\ client' = [client EXCEPT ![c] =
            IF Applies(op, rows[j].status)
            THEN [pc |-> "write", op |-> op, job |-> j,
                  retries |-> IF op = "retry" THEN rows[j].retries ELSE 0]
            ELSE Answered]
    /\ UNCHANGED <<rows, locked, worker, effects, attempts, retried, crashes, disturbed>>

(* A request that takes the job from the worker that executes it: a PATCH  *)
(* gives up a running job, or a retry, asked for when the job was dead,    *)
(* puts it back although another request has revived it since.  History,   *)
(* not code.                                                               *)
Snatches(op, j) ==
    /\ Busy(j)
    /\ \/ op = "patch_failed"
       \/ op = "retry" /\ rows[j].status # "dead_letter"

(* The UPDATE waits for the row lock and has no condition on the status.   *)
(* retry_job writes retry_count only if that changes what it has read.     *)
WriteJob(c) ==
    LET j == client[c].job
        op == client[c].op
    IN
    /\ client[c].pc = "write"
    /\ locked[j] = None
    /\ client' = [client EXCEPT ![c] = Answered]
    /\ rows' = [rows EXCEPT ![j] =
            [status  |-> CASE op \in {"cancel", "patch_cancelled"} -> "cancelled"
                           [] op = "retry"          -> "pending"
                           [] op = "patch_failed"   -> "dead_letter"
                           [] op = "patch_result"   -> "completed"
                           [] op = "patch_progress" -> @.status,
             retries |-> IF op = "retry" /\ client[c].retries # 0 THEN 0 ELSE @.retries,
             due     |-> op = "retry" \/ @.due,
             stale   |-> FALSE]]
    /\ retried' = IF op = "retry" THEN [retried EXCEPT ![j] = @ + 1] ELSE retried
    /\ attempts' = IF op = "retry" THEN [attempts EXCEPT ![j] = 0] ELSE attempts
    /\ disturbed' = IF Snatches(op, j) THEN disturbed \cup {j} ELSE disturbed
    /\ UNCHANGED <<locked, worker, effects, crashes>>

(* The request is dropped before it has written.                           *)
DropRequest(c) ==
    /\ client[c].pc = "write"
    /\ client' = [client EXCEPT ![c] = Answered]
    /\ UNCHANGED <<rows, locked, worker, effects, attempts, retried, crashes, disturbed>>

-----------------------------------------------------------------------------
Work(w) == \/ PickCandidate(w) \/ Claim(w)
           \/ Checkpoint(w)
           \/ Succeed(w) \/ Fail(w) \/ Reject(w)

Passes(j) == ComeDue(j) \/ GoStale(j)

Next ==
    \/ \E j \in Jobs : CreateJob(j) \/ Passes(j)
    \/ \E w \in Workers : Work(w) \/ Crash(w)
    \/ Reap
    \/ \E c \in Clients : \/ \E op \in Ops, j \in Jobs : ReadJob(c, op, j)
                          \/ WriteJob(c)
                          \/ DropRequest(c)

Spec == Init /\ [][Next]_vars

(* The worker loop polls and reaps for ever and every run ends; time       *)
(* passes.                                                                 *)
FairSpec ==
    /\ Spec
    /\ \A w \in Workers : WF_vars(Work(w))
    /\ \A j \in Jobs : WF_vars(Passes(j))
    /\ WF_vars(Reap)
-----------------------------------------------------------------------------
Statuses == {"none", "pending", "running"} \cup Terminal

(* Types of the variables.                                                 *)
TypeOK ==
    /\ rows \in [Jobs -> [status : Statuses, retries : Nat, due : BOOLEAN, stale : BOOLEAN]]
    /\ locked \in [Jobs -> Workers \cup {None}]
    /\ worker \in [Workers -> [pc : {"idle", "claiming", "running", "detached"},
                               job : Jobs \cup {None}, retries : Nat]]
    /\ client \in [Clients -> [pc : {"idle", "write", "done"}, op : Ops \cup {"none"},
                               job : Jobs \cup {None}, retries : Nat]]
    /\ effects \in [Jobs -> Nat]
    /\ attempts \in [Jobs -> Nat]
    /\ retried \in [Jobs -> Nat]
    /\ crashes \in 0..MaxCrashes
    /\ disturbed \subseteq Jobs

(* No two workers ever execute the same job, whatever is claimed, fails,   *)
(* dies, is reaped, cancelled, patched or retried (acquire_next: "exactly  *)
(* one worker wins each job"), unless the job was disturbed: it is slow    *)
(* and was reaped from its worker, a PATCH gave it up while it ran, or a   *)
(* retry that another one had overtaken put it back while it ran.  The     *)
(* reaper takes no other job from a live worker, nor does a retry.         *)
OneWorkerPerJob ==
    \A v, w \in Workers :
        v # w /\ Executing(v) /\ Executing(w) /\ worker[v].job = worker[w].job
            => worker[v].job \in disturbed

(* The work of a job that was not disturbed is committed at most once, and *)
(* once more only for each retry that was asked for: failures, crashes and *)
(* reaped claims leave nothing behind (execute_job: "a crashed run never   *)
(* leaves half-applied side effects").                                     *)
WorkIsDoneOnce == \A j \in Jobs \ disturbed : effects[j] <= 1 + retried[j]

(* A job that was not disturbed is executed at most max_retries + 1 times, *)
(* and once more only for each time a worker died, although each failure   *)
(* counts from the copy its worker read when it claimed.                   *)
BudgetPlusCrashes ==
    \A j \in Jobs \ disturbed : attempts[j] <= MaxRetries[j] + 1 + crashes

(* A job is executed at most max_retries + 1 times, also when it kills its *)
(* worker (reclaim_stale_running: "a repeatedly-stuck job eventually       *)
(* exhausts its budget and stops looping").                                *)
AttemptsWithinBudget == \A j \in Jobs : attempts[j] <= MaxRetries[j] + 1

(* Every job that was created is eventually settled, whatever its workers  *)
(* do: no claim wedges the queue.                                          *)
EveryJobSettles == \A j \in Jobs : rows[j].status = "pending" ~> rows[j].status \in Terminal

(* The queue implements the abstract one.  A claim is an attempt; it is    *)
(* open as long as the row is locked and the claim invisible.              *)
Verdict == [cancel |-> "cancelled", retry |-> "pending", patch_cancelled |-> "cancelled",
            patch_failed |-> "dead_letter", patch_result |-> "completed"]

Attempt(w) ==
    LET of(open) == {[job |-> worker[w].job, retries |-> worker[w].retries, open |-> open]} IN
    CASE worker[w].pc = "running"  -> of(TRUE)
      [] worker[w].pc = "detached" -> of(FALSE)
      [] OTHER                     -> {}

Queue == INSTANCE DurableJobs WITH
    Limit   <- MaxRetries,
    Handled <- Jobs \ Unregistered,
    Asked   <- {Verdict[op] : op \in Ops \ {"patch_progress"}},
    status  <- [j \in Jobs |-> rows[j].status],
    retries <- [j \in Jobs |-> rows[j].retries],
    attempt <- [w \in Workers |-> Attempt(w)]

ImplementsQueue == Queue!Spec
=============================================================================
