--------------------------- MODULE JobQueue_proofs ---------------------------
(***************************************************************************)
(* Proofs about JobQueue for every set of jobs, workers and requests and   *)
(* any number of crashes.  First, that a job that was not disturbed is run *)
(* by one worker at a time; then that the queue implements DurableJobs.    *)
(* After them come the proofs about Billing.                               *)
(***************************************************************************)
EXTENDS JobQueue, Billing, Sequences, FiniteSetTheorems, TLAPS

-----------------------------------------------------------------------------
(* A worker that runs a job by an uncommitted claim has its row locked; a  *)
(* job that has committed by itself is neither pending nor given up unless *)
(* it was disturbed.  Either way its worker knows how often it was         *)
(* retried, and its work is not committed yet.                             *)
Holds(w) ==
    LET j == worker[w].job IN
    /\ worker[w].pc # "idle" => j \in Jobs
    /\ worker[w].pc = "running" => locked[j] = w /\ rows[j].status = "pending"
    /\ worker[w].pc = "detached" => rows[j].status # "none"

WorkerOK(w) ==
    LET j == worker[w].job IN
    Executing(w) /\ j \notin disturbed =>
        /\ worker[w].pc = "detached" => rows[j].status \notin {"pending", "dead_letter"}
        /\ worker[w].retries = rows[j].retries
        /\ attempts[j] <= rows[j].retries + 1 + crashes
        /\ effects[j] <= retried[j]

Live(j) == rows[j].status \in {"none", "pending", "running"}

(* A row that went stale under its worker is that of a slow job.           *)
RowFits(j) ==
    /\ rows[j].retries <= MaxRetries[j]
    /\ rows[j].stale => rows[j].status = "running" /\ (Busy(j) => j \in Slow)

JobOK(j) ==
    j \notin disturbed =>
        /\ effects[j] <= retried[j] + 1
        /\ Live(j) => effects[j] <= retried[j]
        /\ attempts[j] <= MaxRetries[j] + 1 + crashes
        /\ Live(j) /\ ~Busy(j) => attempts[j] <= rows[j].retries + crashes

RequestsOK ==
    \A c \in Clients : client[c].pc = "write" => client[c].job \in Jobs /\ client[c].op \in Ops

JInv ==
    /\ TypeOK
    /\ \A w \in Workers : Holds(w) /\ WorkerOK(w)
    /\ \A j \in Jobs : RowFits(j) /\ JobOK(j)
    /\ OneWorkerPerJob
    /\ RequestsOK

-----------------------------------------------------------------------------
LEMMA InitEstablishes == Init => JInv
<1> SUFFICES ASSUME Init PROVE JInv
  OBVIOUS
<1>1. TypeOK
  BY JobAssumption DEF Init, TypeOK, Idle, NoOp, Statuses, Terminal
<1>2. \A w \in Workers : Holds(w) /\ WorkerOK(w) /\ ~Executing(w)
  BY DEF Init, Holds, WorkerOK, Executing, Idle
<1>3. \A j \in Jobs : RowFits(j) /\ JobOK(j)
  BY <1>2, JobAssumption DEF Init, RowFits, JobOK, Live
<1>4. OneWorkerPerJob
  BY <1>2 DEF OneWorkerPerJob
<1>5. RequestsOK
  BY DEF Init, RequestsOK, NoOp
<1> QED
  BY <1>1, <1>2, <1>3, <1>4, <1>5 DEF JInv

-----------------------------------------------------------------------------
(* Facts used at every step.                                               *)
LEMMA Facts ==
  ASSUME JInv
  PROVE  /\ \A j \in Jobs : /\ rows[j] \in [status : Statuses, retries : Nat, due : BOOLEAN, stale : BOOLEAN]
                            /\ rows[j].retries \in Nat /\ MaxRetries[j] \in Nat
                            /\ effects[j] \in Nat /\ attempts[j] \in Nat /\ retried[j] \in Nat
         /\ crashes \in Nat
         /\ \A w \in Workers : Executing(w) => worker[w].job \in Jobs
  BY JobAssumption DEF JInv, TypeOK, Holds, Executing

(* A worker with an uncommitted claim keeps everybody else from claiming   *)
(* its job, and so does one that has committed by itself: its row says     *)
(* pending only if the job was disturbed.                                  *)
LEMMA FreeToClaim ==
  ASSUME JInv, NEW j \in Jobs, locked[j] = None, rows[j].status = "pending", j \notin disturbed
  PROVE  ~Busy(j)
<1>1. \A v \in Workers : None # v
  BY JobAssumption
<1> QED
  BY <1>1 DEF Busy, Executing, JInv, Holds, WorkerOK

(* A step that leaves the rows alone and begins and ends nothing.          *)
LEMMA AsidePreserves ==
  ASSUME JInv, TypeOK', RequestsOK',
         UNCHANGED <<rows, locked, effects, attempts, retried, crashes, disturbed>>,
         \A v \in Workers : /\ Executing(v)' <=> Executing(v)
                            /\ Executing(v) => worker'[v] = worker[v]
                            /\ worker'[v].pc # "idle" => worker'[v].job \in Jobs
  PROVE  JInv'
<1>1. \A k \in Jobs : Busy(k)' <=> Busy(k)
  BY DEF Busy
<1>2. \A v \in Workers : Holds(v)' /\ WorkerOK(v)'
  BY DEF JInv, Holds, WorkerOK, Executing
<1>3. \A k \in Jobs : RowFits(k)' /\ JobOK(k)'
  BY <1>1 DEF JInv, RowFits, JobOK, Live
<1>4. OneWorkerPerJob'
  BY DEF JInv, OneWorkerPerJob
<1> QED
  BY <1>2, <1>3, <1>4 DEF JInv

LEMMA PickPreserves ==
  ASSUME JInv, NEW w \in Workers, PickCandidate(w)
  PROVE  JInv'
<1>1. PICK j \in Jobs :
         /\ worker[w].pc = "idle"
         /\ worker' = [worker EXCEPT ![w] = [pc |-> "claiming", job |-> j, retries |-> 0]]
         /\ UNCHANGED <<rows, locked, client, effects, attempts, retried, crashes, disturbed>>
  BY DEF PickCandidate, Claimable
<1>2. /\ worker'[w] = [pc |-> "claiming", job |-> j, retries |-> 0]
      /\ \A v \in Workers : v # w => worker'[v] = worker[v]
  BY <1>1 DEF JInv, TypeOK
<1>3. TypeOK'
  BY <1>1 DEF JInv, TypeOK
<1>4. RequestsOK'
  BY <1>1 DEF JInv, RequestsOK
<1>5. \A v \in Workers : /\ Executing(v)' <=> Executing(v)
                         /\ Executing(v) => worker'[v] = worker[v]
                         /\ worker'[v].pc # "idle" => worker'[v].job \in Jobs
  BY <1>1, <1>2 DEF JInv, Holds, Executing
<1> QED
  BY <1>1, <1>3, <1>4, <1>5, AsidePreserves

(* The loser claims nothing; the winner is alone on the job.               *)
LEMMA ClaimPreserves ==
  ASSUME JInv, NEW w \in Workers, Claim(w)
  PROVE  JInv'
<1>1. PICK j \in Jobs :
         /\ j = worker[w].job /\ worker[w].pc = "claiming" /\ ~Executing(w)
         /\ locked[j] = None
         /\ UNCHANGED <<rows, client, effects, retried, crashes, disturbed>>
  BY DEF Claim, JInv, Holds, Executing
<1>r. RequestsOK'
  BY <1>1 DEF JInv, RequestsOK
<1>2. ASSUME rows[j].status # "pending"  PROVE JInv'
  <2>1. /\ worker' = [worker EXCEPT ![w] = Idle]
        /\ UNCHANGED <<rows, locked, client, effects, attempts, retried, crashes, disturbed>>
    BY <1>1, <1>2 DEF Claim
  <2>2. /\ worker'[w] = Idle
        /\ \A v \in Workers : v # w => worker'[v] = worker[v]
    BY <1>1, <2>1 DEF JInv, TypeOK
  <2>3. TypeOK'
    BY <2>1 DEF JInv, TypeOK, Idle
  <2>4. \A v \in Workers : /\ Executing(v)' <=> Executing(v)
                           /\ Executing(v) => worker'[v] = worker[v]
                           /\ worker'[v].pc # "idle" => worker'[v].job \in Jobs
    BY <1>1, <2>2 DEF JInv, Holds, Executing, Idle
  <2> QED
    BY <1>r, <2>1, <2>3, <2>4, AsidePreserves
<1>3. ASSUME rows[j].status = "pending"  PROVE JInv'
  <2>1. /\ locked' = [locked EXCEPT ![j] = w]
        /\ worker' = [worker EXCEPT ![w] = [pc |-> "running", job |-> j,
                                           retries |-> rows[j].retries]]
        /\ attempts' = [attempts EXCEPT ![j] = @ + 1]
    BY <1>1, <1>3 DEF Claim
  <2>2. /\ worker'[w] = [pc |-> "running", job |-> j, retries |-> rows[j].retries]
        /\ Executing(w)'
        /\ \A v \in Workers : v # w => worker'[v] = worker[v] /\ (Executing(v)' <=> Executing(v))
    BY <2>1 DEF JInv, TypeOK, Executing
  <2>3. /\ locked'[j] = w /\ attempts'[j] = attempts[j] + 1
        /\ \A k \in Jobs : k # j => locked'[k] = locked[k] /\ attempts'[k] = attempts[k]
    BY <1>1, <2>1 DEF JInv, TypeOK
  <2>4. j \notin disturbed => ~Busy(j)
    BY <1>1, <1>3, FreeToClaim
  <2>5. \A k \in Jobs : k # j => (Busy(k)' <=> Busy(k))
    BY <1>1, <2>2 DEF Busy
  <2>6. Busy(j)'
    BY <2>2 DEF Busy
  <2>7. TypeOK'
    <3>1. rows[j].retries \in Nat /\ attempts[j] + 1 \in Nat
      BY <1>1, Facts
    <3> QED
      BY <1>1, <2>1, <3>1 DEF JInv, TypeOK
  <2>8. \A v \in Workers : Holds(v)' /\ WorkerOK(v)'
    <3> TAKE v \in Workers
    <3>1. CASE v = w
      <4>1. j \notin disturbed => effects[j] <= retried[j] /\ attempts[j] <= rows[j].retries + crashes
        BY <1>1, <1>3, <2>4 DEF JInv, JobOK, Live
      <4>2. j \notin disturbed => attempts[j] + 1 <= rows[j].retries + 1 + crashes
        BY <1>1, <4>1, Facts
      <4>3. Holds(v)'
        BY <1>1, <1>3, <2>2, <2>3, <3>1 DEF Holds
      <4> QED
        BY <1>1, <1>3, <2>2, <2>3, <3>1, <4>1, <4>2, <4>3 DEF WorkerOK
    <3>2. CASE v # w
      <4>1. Executing(v) /\ j \notin disturbed => worker[v].job # j
        BY <2>4 DEF Busy
      <4>2. Holds(v) /\ WorkerOK(v)
        BY DEF JInv
      <4>3. worker'[v] = worker[v] /\ (Executing(v)' <=> Executing(v))
        BY <2>2, <3>2
      <4>4. worker[v].pc = "running" => worker[v].job # j /\ worker[v].job \in Jobs
        BY <1>1, <4>2, JobAssumption DEF Holds
      <4>5. Holds(v)'
        BY <1>1, <2>3, <4>2, <4>3, <4>4 DEF Holds
      <4>6. Executing(v) => worker[v].job \in Jobs
        BY Facts
      <4> QED
        BY <1>1, <2>3, <4>1, <4>2, <4>3, <4>5, <4>6 DEF WorkerOK
    <3> QED
      BY <3>1, <3>2
  <2>9. \A k \in Jobs : RowFits(k)' /\ JobOK(k)'
    <3> TAKE k \in Jobs
    <3>0. RowFits(k) /\ JobOK(k)
      BY DEF JInv
    <3>1. CASE k = j
      <4>1. j \notin disturbed => attempts[j] + 1 <= MaxRetries[j] + 1 + crashes
        BY <1>1, <1>3, <2>4, <3>0, <3>1, Facts DEF RowFits, JobOK, Live
      <4>2. ~rows[j].stale
        BY <1>3, <3>0, <3>1 DEF RowFits
      <4> QED
        BY <1>1, <1>3, <2>3, <2>6, <3>0, <3>1, <4>1, <4>2 DEF RowFits, JobOK, Live
    <3>2. CASE k # j
      BY <1>1, <2>3, <2>5, <3>0, <3>2 DEF RowFits, JobOK, Live
    <3> QED
      BY <3>1, <3>2
  <2>10. OneWorkerPerJob'
    <3> SUFFICES ASSUME NEW u \in Workers, NEW v \in Workers, u # v,
                        Executing(u)', Executing(v)', worker'[u].job = worker'[v].job
                 PROVE  worker'[u].job \in disturbed
      BY <1>1 DEF OneWorkerPerJob
    <3>1. CASE u = w \/ v = w
      <4>1. PICK x \in Workers : x # w /\ Executing(x) /\ worker[x].job = j
        BY <2>2, <3>1
      <4> QED
        BY <2>2, <2>4, <3>1, <4>1 DEF Busy
    <3>2. CASE u # w /\ v # w
      BY <2>2, <3>2 DEF JInv, OneWorkerPerJob
    <3> QED
      BY <3>1, <3>2
  <2> QED
    BY <1>r, <2>7, <2>8, <2>9, <2>10 DEF JInv
<1> QED
  BY <1>2, <1>3

(* The job becomes visible as running, with its worker still on it.        *)
LEMMA CheckpointPreserves ==
  ASSUME JInv, NEW w \in Workers, Checkpoint(w)
  PROVE  JInv'
<1>1. PICK j \in Jobs :
      /\ j = worker[w].job /\ worker[w].pc = "running" /\ Executing(w)
      /\ worker' = [worker EXCEPT ![w].pc = "detached"]
      /\ locked' = [locked EXCEPT ![j] = None]
      /\ rows' = [rows EXCEPT ![j].status = "running", ![j].stale = FALSE]
      /\ UNCHANGED <<client, effects, attempts, retried, crashes, disturbed>>
  BY DEF Checkpoint, JInv, Holds, Executing
<1>2. /\ worker'[w].pc = "detached" /\ worker'[w].job = j
      /\ worker'[w].retries = worker[w].retries
      /\ \A v \in Workers : v # w => worker'[v] = worker[v]
      /\ \A v \in Workers : Executing(v)' <=> Executing(v)
      /\ \A v \in Workers : worker'[v].job = worker[v].job
  BY <1>1 DEF JInv, TypeOK, Executing
<1>3. /\ rows'[j].status = "running" /\ rows'[j].stale = FALSE /\ rows'[j].retries = rows[j].retries
      /\ \A k \in Jobs : k # j => locked'[k] = locked[k] /\ rows'[k] = rows[k]
  BY <1>1 DEF JInv, TypeOK
<1>4. \A k \in Jobs : Busy(k)' <=> Busy(k)
  BY <1>2 DEF Busy
<1>5. Busy(j)
  BY <1>1 DEF Busy
<1>6. TypeOK'
  BY <1>1 DEF JInv, TypeOK, Statuses
<1>7. \A v \in Workers : Holds(v)' /\ WorkerOK(v)'
  <2> TAKE v \in Workers
  <2>0. Holds(v) /\ WorkerOK(v)
    BY DEF JInv
  <2>1. CASE v = w
    <3>1. j \notin disturbed =>
             /\ worker[w].retries = rows[j].retries /\ attempts[j] <= rows[j].retries + 1 + crashes
             /\ effects[j] <= retried[j]
      BY <1>1, <2>0, <2>1 DEF WorkerOK
    <3>2. /\ worker'[w].pc = "detached" /\ worker'[w].job = j /\ rows'[j].status = "running"
          /\ worker'[w].retries = worker[w].retries /\ rows'[j].retries = rows[j].retries
      BY <1>2, <1>3
    <3>3. Holds(w)'
      BY <1>1, <3>2 DEF Holds
    <3>4. ASSUME j \notin disturbed  PROVE WorkerOK(w)'
      <4>1. attempts[j] <= rows'[j].retries + 1 + crashes /\ worker'[w].retries = rows'[j].retries
        BY <3>1, <3>2, <3>4
      <4> QED
        BY <1>1, <3>1, <3>2, <3>4, <4>1 DEF WorkerOK
    <3> QED
      BY <1>1, <2>1, <3>2, <3>3, <3>4 DEF WorkerOK
  <2>2. CASE v # w
    <3>1. Executing(v) /\ j \notin disturbed => worker[v].job # j
      BY <1>1, <2>2 DEF JInv, OneWorkerPerJob
    <3>2. worker'[v] = worker[v] /\ (Executing(v)' <=> Executing(v))
      BY <1>2, <2>2
    <3>3. worker[v].pc = "running" => worker[v].job # j
      BY <1>1, <2>0, <2>2 DEF JInv, Holds
    <3>4. Holds(v)'
      BY <1>3, <2>0, <3>2, <3>3 DEF Holds
    <3>5. Executing(v) /\ worker[v].job # j => rows'[worker[v].job] = rows[worker[v].job]
      BY <1>3, Facts
    <3> QED
      BY <1>1, <2>0, <3>1, <3>2, <3>4, <3>5, Facts DEF WorkerOK
  <2> QED
    BY <2>1, <2>2
<1>8. \A k \in Jobs : RowFits(k)' /\ JobOK(k)'
  <2> TAKE k \in Jobs
  <2>0. RowFits(k) /\ JobOK(k)
    BY DEF JInv
  <2>1. CASE k = j
    <3>1. j \notin disturbed => effects[j] <= retried[j]
      BY <1>1 DEF JInv, WorkerOK
    <3> QED
      BY <1>1, <1>3, <1>4, <1>5, <2>0, <2>1, <3>1 DEF RowFits, JobOK
  <2>2. CASE k # j
    BY <1>1, <1>3, <1>4, <2>0, <2>2 DEF RowFits, JobOK, Live
  <2> QED
    BY <2>1, <2>2
<1>9. OneWorkerPerJob'
  BY <1>1, <1>2 DEF JInv, OneWorkerPerJob
<1>10. RequestsOK'
  BY <1>1 DEF JInv, RequestsOK
<1> QED
  BY <1>6, <1>7, <1>8, <1>9, <1>10 DEF JInv

(* A poll cycle that ends: its job is free, and either settled or pending  *)
(* with one more failure counted.                                          *)
LEMMA EndPollPreserves ==
  ASSUME JInv, NEW w \in Workers, Executing(w),
         NEW j \in Jobs, j = worker[w].job,
         NEW s \in {"completed", "dead_letter", "pending"}, NEW n \in Nat, NEW d \in BOOLEAN,
         EndPoll(w, s, n, d),
         n <= MaxRetries[j],
         effects' \in {effects, [effects EXCEPT ![j] = @ + 1]},
         s = "pending" => effects' = effects /\ n = worker[w].retries + 1
  PROVE  JInv'
<1>1. /\ locked' = [locked EXCEPT ![j] = None]
      /\ rows' = [rows EXCEPT ![j] = [status |-> s, retries |-> n, due |-> d, stale |-> FALSE]]
      /\ worker' = [worker EXCEPT ![w] = Idle]
      /\ UNCHANGED <<client, attempts, retried, crashes, disturbed>>
  BY DEF EndPoll
<1>2. /\ worker'[w] = Idle /\ ~Executing(w)'
      /\ \A v \in Workers : v # w => worker'[v] = worker[v] /\ (Executing(v)' <=> Executing(v))
  BY <1>1 DEF JInv, TypeOK, Executing, Idle
<1>3. /\ rows'[j] = [status |-> s, retries |-> n, due |-> d, stale |-> FALSE]
      /\ \A k \in Jobs : k # j => /\ locked'[k] = locked[k] /\ rows'[k] = rows[k]
                                  /\ effects'[k] = effects[k]
      /\ effects'[j] \in {effects[j], effects[j] + 1}
  BY <1>1 DEF JInv, TypeOK
<1>4. \A v \in Workers : v # w /\ Executing(v) /\ j \notin disturbed => worker[v].job # j
  BY DEF JInv, OneWorkerPerJob
<1>5. j \notin disturbed => ~Busy(j)'
  BY <1>2, <1>4 DEF Busy
<1>6. \A k \in Jobs : k # j => (Busy(k)' <=> Busy(k))
  BY <1>2 DEF Busy
<1>7. TypeOK'
  <2>1. effects[j] + 1 \in Nat
    BY Facts
  <2> QED
    BY <1>1, <2>1 DEF JInv, TypeOK, Statuses, Terminal, Idle
<1>8. \A v \in Workers : Holds(v)' /\ WorkerOK(v)'
  <2> TAKE v \in Workers
  <2>1. CASE v = w
    BY <1>2, <2>1 DEF Holds, WorkerOK, Idle
  <2>2. CASE v # w
    <3>1. Holds(v) /\ WorkerOK(v)
      BY DEF JInv
    <3>2. worker'[v] = worker[v] /\ (Executing(v)' <=> Executing(v))
      BY <1>2, <2>2
    <3>3. worker[v].pc = "running" => worker[v].job # j
      <4>1. locked[j] \in {w, None} /\ None # v
        BY JobAssumption DEF EndPoll
      <4> QED
        BY <2>2, <3>1, <4>1 DEF Holds
    <3>4. Holds(v)'
      BY <1>3, <3>1, <3>2, <3>3 DEF Holds
    <3> QED
      BY <1>1, <1>3, <1>4, <2>2, <3>1, <3>2, <3>4, Facts DEF WorkerOK
  <2> QED
    BY <2>1, <2>2
<1>9. \A k \in Jobs : RowFits(k)' /\ JobOK(k)'
  <2> TAKE k \in Jobs
  <2>0. RowFits(k) /\ JobOK(k)
    BY DEF JInv
  <2>1. CASE k = j
    <3>1. rows'[j].status = s /\ rows'[j].retries = n /\ rows'[j].stale = FALSE
      BY <1>3
    <3>2. RowFits(k)'
      BY <2>1, <3>1 DEF RowFits
    <3>3. ASSUME j \notin disturbed  PROVE JobOK(j)'
      <4>1. /\ effects[j] <= retried[j] /\ attempts[j] <= rows[j].retries + 1 + crashes
            /\ worker[w].retries = rows[j].retries
        BY <3>3 DEF JInv, WorkerOK
      <4>2. attempts[j] <= MaxRetries[j] + 1 + crashes
        BY <2>0, <2>1, <3>3 DEF JobOK
      <4>3. effects'[j] <= retried[j] + 1
        BY <1>3, <4>1, Facts
      <4>4. s = "pending" => effects'[j] <= retried[j] /\ attempts[j] <= n + crashes
        BY <1>3, <4>1, Facts
      <4>5. Live(j)' => s = "pending"
        BY <3>1 DEF Live
      <4> QED
        BY <1>1, <3>1, <4>2, <4>3, <4>4, <4>5 DEF JobOK
    <3> QED
      BY <1>1, <2>1, <3>2, <3>3 DEF JobOK
  <2>2. CASE k # j
    BY <1>1, <1>3, <1>6, <2>0, <2>2 DEF RowFits, JobOK, Live
  <2> QED
    BY <2>1, <2>2
<1>10. OneWorkerPerJob'
  BY <1>1, <1>2 DEF JInv, OneWorkerPerJob
<1>11. RequestsOK'
  BY <1>1 DEF JInv, RequestsOK
<1> QED
  BY <1>7, <1>8, <1>9, <1>10, <1>11 DEF JInv

LEMMA RunEndsPreserves ==
  ASSUME JInv, NEW w \in Workers, Succeed(w) \/ Fail(w) \/ Reject(w)
  PROVE  JInv'
<1>1. PICK j \in Jobs : j = worker[w].job /\ Executing(w)
  BY Facts DEF Succeed, Fail, Reject, Executing
<1>2. /\ rows[j].retries \in Nat /\ rows[j].due \in BOOLEAN
      /\ rows[j].retries <= MaxRetries[j] /\ MaxRetries[j] \in Nat
      /\ worker[w].retries \in Nat
  BY <1>1, Facts DEF JInv, RowFits, TypeOK
<1>3. CASE Succeed(w)
  <2>1. /\ EndPoll(w, "completed", rows[j].retries, rows[j].due)
        /\ effects' \in {effects, [effects EXCEPT ![j] = @ + 1]}
    BY <1>1, <1>3 DEF Succeed
  <2> QED
    BY <1>1, <1>2, <2>1, EndPollPreserves
<1>4. CASE Reject(w)
  <2>1. EndPoll(w, "dead_letter", rows[j].retries, rows[j].due) /\ effects' = effects
    BY <1>1, <1>4 DEF Reject
  <2> QED
    BY <1>1, <1>2, <2>1, EndPollPreserves
<1>5. CASE Fail(w)
  <2>0. effects' = effects
    BY <1>5 DEF Fail
  <2>1. CASE worker[w].retries + 1 > MaxRetries[j]
    <3>1. EndPoll(w, "dead_letter", rows[j].retries, rows[j].due)
      BY <1>1, <1>5, <2>1 DEF Fail
    <3> QED
      BY <1>1, <1>2, <2>0, <3>1, EndPollPreserves
  <2>2. CASE ~(worker[w].retries + 1 > MaxRetries[j])
    <3>1. EndPoll(w, "pending", worker[w].retries + 1, FALSE)
      BY <1>1, <1>5, <2>2 DEF Fail
    <3>2. worker[w].retries + 1 \in Nat /\ worker[w].retries + 1 <= MaxRetries[j]
      BY <1>2, <2>2
    <3> QED
      BY <1>1, <2>0, <3>1, <3>2, EndPollPreserves
  <2> QED
    BY <2>1, <2>2
<1> QED
  BY <1>3, <1>4, <1>5

(* A death leaves the committed rows alone and frees what it had locked.   *)
LEMMA CrashPreserves ==
  ASSUME JInv, NEW w \in Workers, Crash(w)
  PROVE  JInv'
<1>1. PICK j \in Jobs :
         /\ j = worker[w].job /\ Executing(w)
         /\ crashes < MaxCrashes /\ crashes' = crashes + 1
         /\ locked' = [k \in Jobs |-> IF locked[k] = w THEN None ELSE locked[k]]
         /\ worker' = [worker EXCEPT ![w] = Idle]
         /\ UNCHANGED <<rows, client, effects, attempts, retried, disturbed>>
  BY Facts DEF Crash
<1>2. /\ worker'[w] = Idle /\ ~Executing(w)'
      /\ \A v \in Workers : v # w => worker'[v] = worker[v] /\ (Executing(v)' <=> Executing(v))
  BY <1>1 DEF JInv, TypeOK, Executing, Idle
<1>3. \A k \in Jobs : Busy(k)' => Busy(k)
  BY <1>2 DEF Busy
<1>4. \A k \in Jobs : k # j => (Busy(k)' <=> Busy(k))
  BY <1>1, <1>2 DEF Busy
<1>5. TypeOK'
  BY <1>1, JobAssumption DEF JInv, TypeOK, Idle
<1>6. \A v \in Workers : Holds(v)' /\ WorkerOK(v)'
  <2> TAKE v \in Workers
  <2>1. CASE v = w
    BY <1>2, <2>1 DEF Holds, WorkerOK, Idle
  <2>2. CASE v # w
    <3>1. Holds(v) /\ WorkerOK(v)
      BY DEF JInv
    <3>2. worker'[v] = worker[v] /\ (Executing(v)' <=> Executing(v))
      BY <1>2, <2>2
    <3>3. worker[v].pc = "running" => locked'[worker[v].job] = v
      BY <1>1, <2>2, <3>1 DEF Holds
    <3>4. Executing(v) /\ worker[v].job \notin disturbed =>
             attempts[worker[v].job] <= rows[worker[v].job].retries + 1 + crashes'
      BY <1>1, <3>1, Facts DEF WorkerOK
    <3>5. Holds(v)'
      BY <1>1, <3>1, <3>2, <3>3 DEF Holds
    <3> QED
      BY <1>1, <3>1, <3>2, <3>4, <3>5 DEF WorkerOK
  <2> QED
    BY <2>1, <2>2
<1>7. \A k \in Jobs : RowFits(k)' /\ JobOK(k)'
  <2> TAKE k \in Jobs
  <2>0. RowFits(k) /\ JobOK(k)
    BY DEF JInv
  <2>1. k \notin disturbed => attempts[k] <= MaxRetries[k] + 1 + crashes'
    BY <1>1, <2>0, Facts DEF JobOK
  <2>2. k \notin disturbed /\ Live(k) /\ ~Busy(k)' => attempts[k] <= rows[k].retries + crashes'
    <3>1. CASE k = j
      BY <1>1, <3>1, Facts DEF JInv, WorkerOK
    <3>2. CASE k # j
      BY <1>1, <1>4, <2>0, <3>2, Facts DEF JobOK
    <3> QED
      BY <3>1, <3>2
  <2>3. RowFits(k)'
    BY <1>1, <1>3, <2>0 DEF RowFits
  <2> QED
    BY <1>1, <2>0, <2>1, <2>2, <2>3 DEF JobOK, Live
<1>8. OneWorkerPerJob'
  BY <1>1, <1>2 DEF JInv, OneWorkerPerJob
<1>9. RequestsOK'
  BY <1>1 DEF JInv, RequestsOK
<1> QED
  BY <1>5, <1>6, <1>7, <1>8, <1>9 DEF JInv

(* Steps that change job rows only: of a job that stays undisturbed they   *)
(* touch no row whose worker is alive, but for its due and stale marks.    *)
Touched(k) ==
    /\ rows'[k] \in [status : Statuses, retries : Nat, due : BOOLEAN, stale : BOOLEAN]
    /\ rows'[k].retries <= MaxRetries[k]
    /\ rows'[k].stale => rows'[k].status = "running" /\ (Busy(k) => k \in Slow)
    /\ rows[k].status = "pending" => rows'[k].status = "pending"
    /\ rows[k].status # "none" => rows'[k].status # "none"
    /\ k \notin disturbed' =>
          /\ Busy(k) => rows'[k].status = rows[k].status /\ rows'[k].retries = rows[k].retries
          /\ rows'[k].retries >= rows[k].retries
          /\ Live(k)' => Live(k)

LEMMA RowsPreserve ==
  ASSUME JInv,
         UNCHANGED <<locked, worker, client, effects, attempts, retried, crashes>>,
         disturbed \subseteq disturbed', disturbed' \subseteq Jobs,
         DOMAIN rows' = Jobs, rows' = [k \in Jobs |-> rows'[k]],
         \A k \in Jobs : Touched(k)
  PROVE  JInv'
<1>1. /\ \A v \in Workers : Executing(v)' <=> Executing(v)
      /\ \A k \in Jobs : Busy(k)' <=> Busy(k)
  BY DEF Executing, Busy
<1>2. TypeOK'
  <2>1. rows' \in [Jobs -> [status : Statuses, retries : Nat, due : BOOLEAN, stale : BOOLEAN]]
    BY DEF Touched
  <2> QED
    BY <2>1 DEF JInv, TypeOK
<1>3. \A v \in Workers : Holds(v)' /\ WorkerOK(v)'
  <2> TAKE v \in Workers
  <2>1. Holds(v) /\ WorkerOK(v)
    BY DEF JInv
  <2>2. Executing(v) => Busy(worker[v].job) /\ worker[v].job \in Jobs
    BY Facts DEF Busy
  <2>3. Executing(v) <=> worker[v].pc \in {"running", "detached"}
    BY DEF Executing
  <2>4. Holds(v)'
    BY <1>1, <2>1, <2>2, <2>3 DEF Holds, Touched
  <2> QED
    BY <1>1, <2>1, <2>2, <2>3, <2>4 DEF WorkerOK, Touched
<1>4. \A k \in Jobs : RowFits(k)' /\ JobOK(k)'
  <2> TAKE k \in Jobs
  <2>1. RowFits(k) /\ JobOK(k) /\ Touched(k)
    BY DEF JInv
  <2>2. rows[k].retries \in Nat /\ rows'[k].retries \in Nat /\ attempts[k] \in Nat /\ crashes \in Nat
    BY <2>1, Facts DEF Touched
  <2>3. RowFits(k)'
    BY <1>1, <2>1 DEF RowFits, Touched
  <2> QED
    BY <1>1, <2>1, <2>2, <2>3 DEF JobOK, Touched
<1>5. OneWorkerPerJob'
  BY <1>1 DEF JInv, OneWorkerPerJob
<1>6. RequestsOK'
  BY DEF JInv, RequestsOK
<1> QED
  BY <1>2, <1>3, <1>4, <1>5, <1>6 DEF JInv

(* A row that is not written is in order as it was.                        *)
LEMMA Untouched ==
  ASSUME JInv, NEW k \in Jobs, rows'[k] = rows[k], disturbed \subseteq disturbed'
  PROVE  Touched(k)
  BY Facts DEF JInv, RowFits, Touched, Live

(* Creation, the passing of time and the reaper.                           *)
LEMMA TimePreserves ==
  ASSUME JInv,
         Reap \/ \E j \in Jobs : CreateJob(j) \/ Passes(j)
  PROVE  JInv'
<1>0. /\ \A k \in Jobs : /\ rows[k] \in [status : Statuses, retries : Nat, due : BOOLEAN, stale : BOOLEAN]
                         /\ RowFits(k) /\ MaxRetries[k] \in Nat /\ rows[k].retries \in Nat
      /\ rows \in [Jobs -> [status : Statuses, retries : Nat, due : BOOLEAN, stale : BOOLEAN]]
      /\ disturbed \subseteq Jobs
  BY Facts DEF JInv, TypeOK
<1>1. ASSUME NEW j \in Jobs, CreateJob(j)  PROVE JInv'
  <2>1. ~Busy(j)
    BY <1>1 DEF CreateJob, Busy, Executing, JInv, Holds
  <2>2. /\ rows' = [rows EXCEPT ![j].status = "pending"] /\ rows[j].status = "none"
        /\ UNCHANGED <<locked, worker, client, effects, attempts, retried, crashes, disturbed>>
    BY <1>1 DEF CreateJob
  <2>3. Touched(j)
    <3>1. rows'[j] = [rows[j] EXCEPT !.status = "pending"]
      BY <1>0, <2>2
    <3> QED
      BY <1>0, <2>1, <2>2, <3>1 DEF Touched, RowFits, Live, Statuses
  <2>4. \A k \in Jobs : k # j => Touched(k)
    BY <1>0, <2>2, Untouched
  <2> QED
    BY <1>0, <2>2, <2>3, <2>4, RowsPreserve
<1>2. ASSUME NEW j \in Jobs, ComeDue(j)  PROVE JInv'
  <2>1. /\ rows' = [rows EXCEPT ![j].due = TRUE]
        /\ UNCHANGED <<locked, worker, client, effects, attempts, retried, crashes, disturbed>>
    BY <1>2 DEF ComeDue
  <2>2. Touched(j)
    <3>1. rows'[j] = [rows[j] EXCEPT !.due = TRUE]
      BY <1>0, <2>1
    <3>2. /\ rows'[j] \in [status : Statuses, retries : Nat, due : BOOLEAN, stale : BOOLEAN]
          /\ rows'[j].status = rows[j].status /\ rows'[j].retries = rows[j].retries
          /\ rows'[j].stale = rows[j].stale
      BY <1>0, <3>1
    <3> QED
      BY <1>0, <3>2 DEF Touched, RowFits, Live
  <2>3. \A k \in Jobs : k # j => Touched(k)
    BY <1>0, <2>1, Untouched
  <2> QED
    BY <1>0, <2>1, <2>2, <2>3, RowsPreserve
<1>3. ASSUME NEW j \in Jobs, GoStale(j)  PROVE JInv'
  <2>1. /\ rows' = [rows EXCEPT ![j].stale = TRUE] /\ rows[j].status = "running"
        /\ Busy(j) => j \in Slow
        /\ UNCHANGED <<locked, worker, client, effects, attempts, retried, crashes, disturbed>>
    BY <1>3 DEF GoStale
  <2>2. Touched(j)
    <3>1. rows'[j] = [rows[j] EXCEPT !.stale = TRUE]
      BY <1>0, <2>1
    <3>2. /\ rows'[j] \in [status : Statuses, retries : Nat, due : BOOLEAN, stale : BOOLEAN]
          /\ rows'[j].status = rows[j].status /\ rows'[j].retries = rows[j].retries
      BY <1>0, <3>1
    <3> QED
      BY <1>0, <2>1, <3>2 DEF Touched, RowFits, Live
  <2>3. \A k \in Jobs : k # j => Touched(k)
    BY <1>0, <2>1, Untouched
  <2> QED
    BY <1>0, <2>1, <2>2, <2>3, RowsPreserve
<1>4. ASSUME Reap  PROVE JInv'
  <2>1. /\ rows' = [j \in Jobs |->
              IF j \notin Stale THEN rows[j]
              ELSE IF rows[j].retries < MaxRetries[j]
              THEN [status |-> "pending", retries |-> rows[j].retries + 1,
                    due |-> TRUE, stale |-> FALSE]
              ELSE [rows[j] EXCEPT !.status = "dead_letter", !.stale = FALSE]]
        /\ disturbed' = disturbed \cup ReapsLive
        /\ UNCHANGED <<locked, worker, client, effects, attempts, retried, crashes>>
    BY <1>4 DEF Reap
  <2>2. \A k \in Stale : /\ rows[k].status = "running" /\ rows[k].stale
                         /\ k \notin disturbed' => ~Busy(k)
    BY <1>0, <2>1 DEF Stale, ReapsLive, RowFits
  <2>3. ASSUME NEW k \in Jobs  PROVE Touched(k)
    <3>1. CASE k \notin Stale
      BY <1>0, <2>1, <3>1, Untouched
    <3>2. CASE k \in Stale /\ rows[k].retries < MaxRetries[k]
      <4>1. rows'[k] = [status |-> "pending", retries |-> rows[k].retries + 1,
                        due |-> TRUE, stale |-> FALSE]
        BY <2>1, <3>2
      <4> QED
        BY <1>0, <2>2, <3>2, <4>1 DEF Touched, Live, Statuses
    <3>3. CASE k \in Stale /\ ~(rows[k].retries < MaxRetries[k])
      <4>1. rows'[k] = [rows[k] EXCEPT !.status = "dead_letter", !.stale = FALSE]
        BY <2>1, <3>3
      <4>2. /\ rows'[k].status = "dead_letter" /\ rows'[k].stale = FALSE
            /\ rows'[k].retries = rows[k].retries
            /\ rows'[k] \in [status : Statuses, retries : Nat, due : BOOLEAN, stale : BOOLEAN]
        BY <1>0, <4>1 DEF Statuses, Terminal
      <4> QED
        BY <1>0, <2>2, <3>3, <4>2 DEF Touched, RowFits, Live
    <3> QED
      BY <3>1, <3>2, <3>3
  <2>4. ReapsLive \subseteq Jobs
    BY DEF ReapsLive, Stale
  <2> QED
    BY <1>0, <2>1, <2>3, <2>4, RowsPreserve
<1> QED
  BY <1>1, <1>2, <1>3, <1>4 DEF Passes

-----------------------------------------------------------------------------
(* Requests.                                                               *)
LEMMA AnswerIs == Answered = [pc |-> "done", op |-> "none", job |-> None, retries |-> 0]
BY DEF Answered, NoOp

(* What a request has read, or that it has its answer.                     *)
LEMMA ReadIs ==
  ASSUME TypeOK, NEW c \in Clients, NEW op \in Ops, NEW j \in Jobs, ReadJob(c, op, j)
  PROVE  \E r \in [pc : {"idle", "write", "done"}, op : Ops \cup {"none"},
                   job : Jobs \cup {None}, retries : Nat] :
            client' = [client EXCEPT ![c] = r] /\ (r.pc = "write" => r.op = op /\ r.job = j)
<1> DEFINE Record == [pc : {"idle", "write", "done"}, op : Ops \cup {"none"},
                      job : Jobs \cup {None}, retries : Nat]
           n == IF op = "retry" THEN rows[j].retries ELSE 0
           r == [pc |-> "write", op |-> op, job |-> j, retries |-> n]
<1>1. r \in Record /\ r.op = op /\ r.job = j
  BY DEF TypeOK
<1>2. Answered \in Record /\ Answered.pc = "done"
  BY AnswerIs
<1>3. client' = [client EXCEPT ![c] = r] \/ client' = [client EXCEPT ![c] = Answered]
  BY DEF ReadJob
<1> HIDE DEF r, Record
<1>4. \E q \in Record :
         client' = [client EXCEPT ![c] = q] /\ (q.pc = "write" => q.op = op /\ q.job = j)
  BY <1>1, <1>2, <1>3
<1> QED
  BY <1>4 DEF Record

LEMMA ReadPreserves ==
  ASSUME JInv, NEW c \in Clients, NEW op \in Ops, NEW j \in Jobs, ReadJob(c, op, j)
  PROVE  JInv'
<1>1. UNCHANGED <<rows, locked, worker, effects, attempts, retried, crashes, disturbed>>
  BY DEF ReadJob
<1>2. PICK r \in [pc : {"idle", "write", "done"}, op : Ops \cup {"none"},
                 job : Jobs \cup {None}, retries : Nat] :
         /\ client' = [client EXCEPT ![c] = r]
         /\ r.pc = "write" => r.op = op /\ r.job = j
  BY ReadIs DEF JInv
<1>3. TypeOK'
  BY <1>1, <1>2 DEF JInv, TypeOK
<1>4. RequestsOK'
  <2>1. client'[c] = r /\ \A d \in Clients : d # c => client'[d] = client[d]
    BY <1>2 DEF JInv, TypeOK
  <2> QED
    BY <1>2, <2>1 DEF JInv, RequestsOK
<1> QED
  BY <1>1, <1>3, <1>4, AsidePreserves DEF JInv, Holds, Executing

LEMMA DropPreserves ==
  ASSUME JInv, NEW c \in Clients, DropRequest(c)
  PROVE  JInv'
<1>1. /\ client' = [client EXCEPT ![c] = Answered]
      /\ UNCHANGED <<rows, locked, worker, effects, attempts, retried, crashes, disturbed>>
  BY DEF DropRequest
<1>2. TypeOK' /\ RequestsOK'
  BY <1>1 DEF JInv, TypeOK, RequestsOK, Answered, NoOp
<1> QED
  BY <1>1, <1>2, AsidePreserves DEF JInv, Holds, Executing

(* The answer of a request is written to an unlocked row: a worker it has  *)
(* there has committed by itself, and then the request either leaves the   *)
(* job to it or disturbs it.                                               *)
LEMMA WritePreserves ==
  ASSUME JInv, NEW c \in Clients, WriteJob(c)
  PROVE  JInv'
<1>1. PICK j \in Jobs, op \in Ops :
         /\ j = client[c].job /\ op = client[c].op /\ client[c].pc = "write"
         /\ locked[j] = None
         /\ client' = [client EXCEPT ![c] = Answered]
         /\ disturbed' = IF Snatches(op, j) THEN disturbed \cup {j} ELSE disturbed
         /\ UNCHANGED <<locked, worker, effects, crashes>>
  BY DEF WriteJob, JInv, RequestsOK
<1>2. rows \in [Jobs -> [status : Statuses, retries : Nat, due : BOOLEAN, stale : BOOLEAN]]
  BY DEF JInv, TypeOK
<1>3. PICK s \in Statuses, n \in Nat, d \in BOOLEAN :
         /\ rows' = [rows EXCEPT ![j] = [status |-> s, retries |-> n, due |-> d, stale |-> FALSE]]
         /\ op = "retry" => s = "pending" /\ n \in {0, rows[j].retries}
         /\ op = "patch_failed" => s = "dead_letter"
         /\ op # "retry" => n = rows[j].retries
         /\ op \notin {"retry", "patch_failed"} => s \in {"cancelled", "completed", rows[j].status}
         /\ retried' = IF op = "retry" THEN [retried EXCEPT ![j] = @ + 1] ELSE retried
         /\ attempts' = IF op = "retry" THEN [attempts EXCEPT ![j] = 0] ELSE attempts
  <2> DEFINE s == CASE op \in {"cancel", "patch_cancelled"} -> "cancelled"
                    [] op = "retry"          -> "pending"
                    [] op = "patch_failed"   -> "dead_letter"
                    [] op = "patch_result"   -> "completed"
                    [] op = "patch_progress" -> rows[j].status
             d == op = "retry" \/ rows[j].due
             n == IF op = "retry" /\ client[c].retries # 0 THEN 0 ELSE rows[j].retries
  <2>1. op \in AllOps
    BY JobAssumption
  <2>2. /\ s \in Statuses /\ (op = "retry" => s = "pending")
        /\ op = "patch_failed" => s = "dead_letter"
        /\ op \notin {"retry", "patch_failed"} => s \in {"cancelled", "completed", rows[j].status}
    BY <1>2, <2>1 DEF AllOps, Statuses, Terminal
  <2>3. d \in BOOLEAN /\ n \in Nat /\ (op = "retry" => n \in {0, rows[j].retries})
        /\ (op # "retry" => n = rows[j].retries)
    BY <1>2
  <2>6. rows' = [rows EXCEPT ![j] = [status |-> s, retries |-> n, due |-> d, stale |-> FALSE]]
    <3>1. rows' = [rows EXCEPT ![j] = [status |-> s, retries |-> n,
                                       due |-> op = "retry" \/ rows[j].due, stale |-> FALSE]]
      BY <1>1, <1>2 DEF WriteJob
    <3> QED
      BY <1>2, <3>1
  <2>7. /\ retried' = IF op = "retry" THEN [retried EXCEPT ![j] = @ + 1] ELSE retried
        /\ attempts' = IF op = "retry" THEN [attempts EXCEPT ![j] = 0] ELSE attempts
    BY <1>1 DEF WriteJob
  <2> QED
    BY <2>2, <2>3, <2>6, <2>7
<1>4. /\ rows'[j] = [status |-> s, retries |-> n, due |-> d, stale |-> FALSE]
      /\ \A k \in Jobs : k # j => /\ rows'[k] = rows[k] /\ retried'[k] = retried[k]
                                  /\ attempts'[k] = attempts[k] /\ (k \in disturbed' <=> k \in disturbed)
      /\ op = "retry" => retried'[j] = retried[j] + 1 /\ attempts'[j] = 0
      /\ op # "retry" => retried'[j] = retried[j] /\ attempts'[j] = attempts[j]
      /\ disturbed \subseteq disturbed'
  BY <1>1, <1>2, <1>3 DEF JInv, TypeOK
<1>5. /\ \A v \in Workers : Executing(v)' <=> Executing(v)
      /\ \A k \in Jobs : Busy(k)' <=> Busy(k)
  BY <1>1 DEF Executing, Busy
<1>6. TypeOK'
  <2>1. retried[j] + 1 \in Nat
    BY Facts
  <2>2. disturbed' \subseteq Jobs
    BY <1>1 DEF JInv, TypeOK
  <2>3. client' \in [Clients -> [pc : {"idle", "write", "done"}, op : Ops \cup {"none"},
                                 job : Jobs \cup {None}, retries : Nat]]
    BY <1>1 DEF JInv, TypeOK, Answered, NoOp
  <2>4. rows' \in [Jobs -> [status : Statuses, retries : Nat, due : BOOLEAN, stale : BOOLEAN]]
    BY <1>2, <1>3
  <2>5. retried' \in [Jobs -> Nat] /\ attempts' \in [Jobs -> Nat]
    BY <1>3, <2>1 DEF JInv, TypeOK
  <2> QED
    BY <1>1, <2>2, <2>3, <2>4, <2>5 DEF JInv, TypeOK
<1>7. \A v \in Workers : worker[v].pc = "running" => worker[v].job # j
  BY <1>1, JobAssumption DEF JInv, Holds
<1>8. \A v \in Workers : Executing(v) /\ worker[v].job = j /\ j \notin disturbed' =>
         /\ op \notin {"retry", "patch_failed"}
         /\ s \notin {"pending", "dead_letter"}
  <2> SUFFICES ASSUME NEW v \in Workers, Executing(v), worker[v].job = j, j \notin disturbed'
               PROVE  op \notin {"retry", "patch_failed"} /\ s \notin {"pending", "dead_letter"}
    OBVIOUS
  <2>1. Busy(j) /\ ~Snatches(op, j) /\ j \notin disturbed
    BY <1>1 DEF Busy
  <2>2. worker[v].pc = "detached"
    BY <1>7 DEF Executing
  <2>3. rows[j].status \notin {"pending", "dead_letter"}
    BY <2>1, <2>2 DEF JInv, WorkerOK, Executing
  <2>4. op \notin {"retry", "patch_failed"}
    BY <2>1, <2>3 DEF Snatches
  <2> QED
    BY <1>3, <2>3, <2>4
<1>9. \A v \in Workers : Holds(v)' /\ WorkerOK(v)'
  <2> TAKE v \in Workers
  <2>0. Holds(v) /\ WorkerOK(v)
    BY DEF JInv
  <2>1. Executing(v) <=> worker[v].pc \in {"running", "detached"}
    BY DEF Executing
  <2>2. CASE Executing(v) /\ worker[v].job = j
    <3>1. rows[j].status # "none" /\ worker[v].pc = "detached"
      BY <1>7, <2>0, <2>1, <2>2 DEF Holds
    <3>2. s # "none"
      BY <1>3, <3>1
    <3>3. Holds(v)'
      BY <1>1, <1>4, <2>0, <2>2, <3>1, <3>2 DEF Holds
    <3>4. ASSUME j \notin disturbed'  PROVE WorkerOK(v)'
      <4>1. op \notin {"retry", "patch_failed"} /\ s \notin {"pending", "dead_letter"}
        BY <1>8, <2>2, <3>4
      <4>2. /\ rows'[j].status = s /\ rows'[j].retries = rows[j].retries
            /\ attempts'[j] = attempts[j] /\ retried'[j] = retried[j] /\ j \notin disturbed
        BY <1>3, <1>4, <3>4, <4>1
      <4> QED
        BY <1>1, <1>5, <2>0, <2>2, <4>1, <4>2 DEF WorkerOK
    <3> QED
      BY <1>1, <2>2, <3>3, <3>4 DEF WorkerOK
  <2>3. CASE ~(Executing(v) /\ worker[v].job = j)
    <3>1. Holds(v)'
      BY <1>1, <1>4, <2>0, <2>1, <2>3 DEF Holds
    <3> QED
      BY <1>1, <1>4, <1>5, <2>0, <2>3, <3>1, Facts DEF WorkerOK
  <2> QED
    BY <2>2, <2>3
<1>10. \A k \in Jobs : RowFits(k)' /\ JobOK(k)'
  <2> TAKE k \in Jobs
  <2>0. RowFits(k) /\ JobOK(k)
    BY DEF JInv
  <2>1. CASE k # j
    BY <1>1, <1>4, <1>5, <2>0, <2>1 DEF RowFits, JobOK, Live
  <2>2. CASE k = j /\ op = "retry"
    <3>1. k \notin disturbed => effects[j] <= retried'[j] /\ effects[j] <= retried'[j] + 1
      BY <1>4, <2>0, <2>2, Facts DEF JobOK
    <3>2. n <= MaxRetries[j]
      BY <1>3, <2>0, <2>2, Facts DEF RowFits
    <3>3. attempts'[j] <= n + crashes /\ attempts'[j] <= MaxRetries[j] + 1 + crashes
      BY <1>4, <2>2, Facts
    <3>4. rows'[j].retries = n /\ ~rows'[j].stale
      BY <1>4
    <3>5. RowFits(k)'
      BY <2>2, <3>2, <3>4 DEF RowFits
    <3> QED
      BY <1>1, <1>4, <2>2, <3>1, <3>3, <3>4, <3>5 DEF JobOK
  <2>3. CASE k = j /\ op # "retry"
    <3>1. /\ rows'[j].status = s /\ rows'[j].retries = rows[j].retries /\ ~rows'[j].stale
          /\ attempts'[j] = attempts[j] /\ retried'[j] = retried[j]
      BY <1>3, <1>4, <2>3
    <3>2. Live(j)' => Live(j)
      BY <1>3, <2>3, <3>1 DEF Live
    <3>3. RowFits(k)'
      BY <2>0, <2>3, <3>1 DEF RowFits
    <3> QED
      BY <1>1, <1>4, <1>5, <2>0, <2>3, <3>1, <3>2, <3>3 DEF JobOK
  <2> QED
    BY <2>1, <2>2, <2>3
<1>11. OneWorkerPerJob'
  BY <1>1, <1>4, <1>5 DEF JInv, OneWorkerPerJob
<1>12. RequestsOK'
  <2>1. client'[c].pc = "done" /\ \A e \in Clients : e # c => client'[e] = client[e]
    BY <1>1 DEF JInv, TypeOK, Answered, NoOp
  <2> QED
    BY <2>1 DEF JInv, RequestsOK
<1> QED
  BY <1>6, <1>9, <1>10, <1>11, <1>12 DEF JInv

-----------------------------------------------------------------------------
LEMMA StepPreserves == JInv /\ [Next]_vars => JInv'
<1> SUFFICES ASSUME JInv, [Next]_vars PROVE JInv'
  OBVIOUS
<1>1. CASE UNCHANGED vars
  <2>1. TypeOK' /\ RequestsOK'
    BY <1>1 DEF vars, JInv, TypeOK, RequestsOK
  <2> QED
    BY <1>1, <2>1, AsidePreserves DEF vars, JInv, Holds, Executing
<1>2. ASSUME Reap \/ \E j \in Jobs : CreateJob(j) \/ Passes(j)  PROVE JInv'
  BY <1>2, TimePreserves
<1>3. ASSUME NEW w \in Workers, Work(w) \/ Crash(w)  PROVE JInv'
  BY <1>3, PickPreserves, ClaimPreserves, CheckpointPreserves, RunEndsPreserves, CrashPreserves
     DEF Work
<1>4. ASSUME NEW c \in Clients, NEW op \in Ops, NEW j \in Jobs, ReadJob(c, op, j)  PROVE JInv'
  BY <1>4, ReadPreserves
<1>5. ASSUME NEW c \in Clients, WriteJob(c) \/ DropRequest(c)  PROVE JInv'
  BY <1>5, WritePreserves, DropPreserves
<1> QED
  BY <1>1, <1>2, <1>3, <1>4, <1>5 DEF Next

(* The invariant holds in every reachable state: types, worker states,     *)
(* retry budgets and pending requests all agree.                           *)
THEOREM Invariance == Spec => []JInv
<1>1. Init => JInv
  BY InitEstablishes
<1>2. JInv /\ [Next]_vars => JInv'
  BY StepPreserves
<1> QED
  BY <1>1, <1>2, PTL DEF Spec

(* No two workers execute a job at once, however many workers claim, fail, *)
(* die or are replaced and whatever requests come in between               *)
(* (acquire_next: "exactly one worker wins each job"), unless a slow job   *)
(* was reaped from its worker, a PATCH gave it up while it ran, or a retry *)
(* that another had overtaken put it back while it ran.                    *)
THEOREM OneWorker == Spec => []OneWorkerPerJob
<1>1. JInv => OneWorkerPerJob
  BY DEF JInv
<1> QED
  BY <1>1, Invariance, PTL

(* Failures, deaths and reaped claims never commit the work of a job that  *)
(* was not so disturbed twice; a retry that was asked for allows one more. *)
THEOREM WorkOnce == Spec => []WorkIsDoneOnce
<1>1. JInv => WorkIsDoneOnce
  BY Facts DEF JInv, JobOK, WorkIsDoneOnce
<1> QED
  BY <1>1, Invariance, PTL

(* The retry budget of _handle_failure and of the reaper is exceeded by a  *)
(* job that was not so disturbed only for the executions that ended with   *)
(* their worker.                                                           *)
THEOREM BudgetKept == Spec => []BudgetPlusCrashes
<1>1. JInv => BudgetPlusCrashes
  BY DEF JInv, JobOK, BudgetPlusCrashes
<1> QED
  BY <1>1, Invariance, PTL

-----------------------------------------------------------------------------
(* Whatever the queue is used for, a claim is nowhere left behind: a row   *)
(* is locked exactly while a worker runs its job uncommitted, and then the *)
(* row still says pending.                                                 *)
HeldBy(w, j) == worker[w].pc = "running" /\ worker[w].job = j

ClaimsAreHeld ==
    \A j \in Jobs :
        /\ \A w \in Workers : HeldBy(w, j) <=> locked[j] = w
        /\ locked[j] # None => rows[j].status = "pending"

QInv ==
    /\ TypeOK
    /\ \A w \in Workers : worker[w].pc # "idle" => worker[w].job \in Jobs
    /\ \A c \in Clients : client[c].pc = "write" =>
          /\ client[c].op \in Ops /\ client[c].job \in Jobs
          /\ rows[client[c].job].status # "none"
    /\ ClaimsAreHeld

LEMMA InitQueue == Init => QInv
<1> SUFFICES ASSUME Init PROVE QInv
  OBVIOUS
<1>1. TypeOK
  BY JobAssumption DEF Init, TypeOK, Idle, NoOp, Statuses, Terminal
<1>2. ClaimsAreHeld
  BY JobAssumption DEF Init, ClaimsAreHeld, HeldBy, Idle
<1> QED
  BY <1>1, <1>2 DEF Init, QInv, Idle, NoOp

(* A step of worker w that leaves the other workers, the requests and the  *)
(* rows of other jobs than j alone.                                        *)
LEMMA WorkKeepsQueue ==
  ASSUME QInv, NEW w \in Workers, NEW j \in Jobs,
         TypeOK', client' = client,
         rows'[j].status # "none",
         worker'[w].pc # "idle" => worker'[w].job \in Jobs,
         \A v \in Workers \ {w} : worker'[v] = worker[v],
         \A k \in Jobs \ {j} : rows'[k] = rows[k] /\ locked'[k] = locked[k],
         \A k \in Jobs \ {j} : HeldBy(w, k)' <=> HeldBy(w, k),
         locked[j] \in {w, None},
         \/ HeldBy(w, j)' /\ locked'[j] = w /\ rows'[j].status = "pending"
         \/ ~HeldBy(w, j)' /\ locked'[j] = None
  PROVE  QInv'
<1>1. \A v \in Workers \ {w} : \A k \in Jobs : HeldBy(v, k)' <=> HeldBy(v, k)
  BY DEF HeldBy
<1>2. \A v \in Workers \ {w} : ~HeldBy(v, j) /\ v # None
  BY JobAssumption DEF QInv, ClaimsAreHeld
<1>3. ASSUME NEW k \in Jobs
      PROVE  /\ \A v \in Workers : HeldBy(v, k)' <=> locked'[k] = v
             /\ locked'[k] # None => rows'[k].status = "pending"
  <2>1. CASE k = j
    BY <1>1, <1>2, <2>1, JobAssumption
  <2>2. CASE k # j
    <3>1. \A v \in Workers : HeldBy(v, k)' <=> HeldBy(v, k)
      BY <1>1, <2>2
    <3>2. rows'[k] = rows[k] /\ locked'[k] = locked[k]
      BY <2>2
    <3> QED
      BY <1>3, <3>1, <3>2 DEF QInv, ClaimsAreHeld
  <2> QED
    BY <2>1, <2>2
<1>4. ClaimsAreHeld'
  BY <1>3 DEF ClaimsAreHeld
<1>5. \A c \in Clients : client'[c].pc = "write" =>
         /\ client'[c].op \in Ops /\ client'[c].job \in Jobs
         /\ rows'[client'[c].job].status # "none"
  BY DEF QInv
<1> QED
  BY <1>4, <1>5 DEF QInv

LEMMA WorkQueue ==
  ASSUME QInv, NEW w \in Workers, Work(w) \/ Crash(w)
  PROVE  QInv'
<1>0. /\ worker[w].pc # "idle" => worker[w].job \in Jobs
      /\ \A k \in Jobs : rows[k].retries \in Nat /\ rows[k].status \in Statuses /\ rows[k].due \in BOOLEAN
      /\ \A k \in Jobs : rows[k] \in [status : Statuses, retries : Nat, due : BOOLEAN, stale : BOOLEAN]
      /\ worker[w].retries \in Nat
  BY DEF QInv, TypeOK
<1>1. CASE PickCandidate(w)
  <2>1. PICK k \in Jobs :
           /\ worker[w].pc = "idle" /\ rows[k].status = "pending"
           /\ worker' = [worker EXCEPT ![w] = [pc |-> "claiming", job |-> k, retries |-> 0]]
           /\ UNCHANGED <<rows, locked, client, effects, attempts, retried, crashes, disturbed>>
    BY <1>1 DEF PickCandidate, Claimable
  <2>2. /\ worker'[w] = [pc |-> "claiming", job |-> k, retries |-> 0]
        /\ \A v \in Workers : v # w => worker'[v] = worker[v]
    BY <2>1 DEF QInv, TypeOK
  <2>3. TypeOK'
    BY <2>1 DEF QInv, TypeOK
  <2>4. \A v \in Workers, i \in Jobs : HeldBy(v, i)' <=> HeldBy(v, i)
    BY <2>1, <2>2 DEF HeldBy
  <2>5. ClaimsAreHeld'
    BY <2>1, <2>4 DEF QInv, ClaimsAreHeld
  <2> QED
    BY <2>1, <2>2, <2>3, <2>5 DEF QInv
<1>2. CASE Claim(w)
  <2>0. PICK j \in Jobs :
           /\ worker[w].pc = "claiming" /\ j = worker[w].job /\ locked[j] = None
           /\ UNCHANGED <<rows, client, effects, retried, crashes, disturbed>>
    BY <1>0, <1>2 DEF Claim
  <2>1. CASE rows[j].status = "pending"
    <3>1. /\ locked' = [locked EXCEPT ![j] = w]
          /\ worker' = [worker EXCEPT ![w] = [pc |-> "running", job |-> j, retries |-> rows[j].retries]]
          /\ attempts' = [attempts EXCEPT ![j] = @ + 1]
      BY <1>2, <2>0, <2>1 DEF Claim
    <3>2. /\ worker'[w] = [pc |-> "running", job |-> j, retries |-> rows[j].retries]
          /\ \A v \in Workers \ {w} : worker'[v] = worker[v]
          /\ locked'[j] = w /\ \A k \in Jobs \ {j} : locked'[k] = locked[k]
      BY <2>0, <3>1 DEF QInv, TypeOK
    <3>3. TypeOK'
      BY <1>0, <2>0, <3>1 DEF QInv, TypeOK
    <3>4. HeldBy(w, j)' /\ \A k \in Jobs \ {j} : ~HeldBy(w, k)' /\ ~HeldBy(w, k)
      BY <2>0, <3>2 DEF HeldBy
    <3> QED
      BY <2>0, <2>1, <3>2, <3>3, <3>4, WorkKeepsQueue
  <2>2. CASE rows[j].status # "pending"
    <3>1. worker' = [worker EXCEPT ![w] = Idle] /\ UNCHANGED <<locked, attempts>>
      BY <1>2, <2>0, <2>2 DEF Claim
    <3>2. worker'[w] = Idle /\ \A v \in Workers : v # w => worker'[v] = worker[v]
      BY <3>1 DEF QInv, TypeOK
    <3>3. TypeOK'
      BY <2>0, <3>1 DEF QInv, TypeOK, Idle
    <3>4. \A v \in Workers, i \in Jobs : HeldBy(v, i)' <=> HeldBy(v, i)
      BY <2>0, <3>2 DEF HeldBy, Idle
    <3>5. ClaimsAreHeld'
      BY <2>0, <3>1, <3>4 DEF QInv, ClaimsAreHeld
    <3> QED
      BY <2>0, <3>2, <3>3, <3>5 DEF QInv, Idle
  <2> QED
    BY <2>1, <2>2
<1>3. CASE Checkpoint(w)
  <2>1. PICK j \in Jobs :
           /\ HeldBy(w, j)
           /\ worker' = [worker EXCEPT ![w].pc = "detached"]
           /\ locked' = [locked EXCEPT ![j] = None]
           /\ rows' = [rows EXCEPT ![j].status = "running", ![j].stale = FALSE]
           /\ UNCHANGED <<client, effects, attempts, retried, crashes, disturbed>>
    BY <1>0, <1>3 DEF Checkpoint, HeldBy
  <2>2. /\ worker'[w].pc = "detached" /\ worker'[w].job = j
        /\ \A v \in Workers \ {w} : worker'[v] = worker[v]
        /\ \A k \in Jobs \ {j} : rows'[k] = rows[k] /\ locked'[k] = locked[k]
    BY <2>1 DEF QInv, TypeOK, HeldBy
  <2>3. rows'[j].status = "running" /\ locked'[j] = None
    BY <1>0, <2>1 DEF QInv, TypeOK
  <2>6. TypeOK'
    <3>1. TypeOK
      BY DEF QInv
    <3>2. rows' \in [Jobs -> [status : Statuses, retries : Nat, due : BOOLEAN, stale : BOOLEAN]]
      <4>1. rows' = [rows EXCEPT ![j] = [rows[j] EXCEPT !.status = "running", !.stale = FALSE]]
        BY <2>1, <3>1 DEF TypeOK
      <4>2. [rows[j] EXCEPT !.status = "running", !.stale = FALSE]
              \in [status : Statuses, retries : Nat, due : BOOLEAN, stale : BOOLEAN]
        BY <1>0 DEF Statuses
      <4> QED
        BY <3>1, <4>1, <4>2 DEF TypeOK
    <3>3. worker' \in [Workers -> [pc : {"idle", "claiming", "running", "detached"},
                                   job : Jobs \cup {None}, retries : Nat]]
      BY <2>1, <3>1 DEF TypeOK
    <3> QED
      BY <2>1, <3>1, <3>2, <3>3 DEF TypeOK
  <2>4. ~HeldBy(w, j)' /\ \A k \in Jobs \ {j} : ~HeldBy(w, k)' /\ ~HeldBy(w, k)
    BY <2>1, <2>2 DEF HeldBy
  <2>5. locked[j] = w
    BY <2>1 DEF QInv, ClaimsAreHeld
  <2> QED
    BY <2>1, <2>2, <2>3, <2>4, <2>5, <2>6, WorkKeepsQueue
<1>4. ASSUME NEW s \in Statuses \ {"none"}, NEW n \in Nat, NEW d \in BOOLEAN,
             NEW j \in Jobs, j = worker[w].job,
             Executing(w), EndPoll(w, s, n, d), effects' \in [Jobs -> Nat]
      PROVE  QInv'
  <2>1. /\ locked[j] \in {w, None}
        /\ locked' = [locked EXCEPT ![j] = None]
        /\ rows' = [rows EXCEPT ![j] = [status |-> s, retries |-> n, due |-> d, stale |-> FALSE]]
        /\ worker' = [worker EXCEPT ![w] = Idle]
        /\ UNCHANGED <<client, attempts, retried, crashes, disturbed>>
    BY <1>4 DEF EndPoll
  <2>2. /\ worker'[w] = Idle
        /\ \A v \in Workers \ {w} : worker'[v] = worker[v]
        /\ rows'[j].status = s /\ locked'[j] = None
        /\ \A k \in Jobs \ {j} : rows'[k] = rows[k] /\ locked'[k] = locked[k]
    BY <1>4, <2>1 DEF QInv, TypeOK
  <2>3. TypeOK'
    BY <1>4, <2>1 DEF QInv, TypeOK, Idle
  <2>4. ~HeldBy(w, j)' /\ \A k \in Jobs \ {j} : ~HeldBy(w, k)' /\ ~HeldBy(w, k)
    BY <1>4, <2>2 DEF HeldBy, Idle
  <2>5. worker'[w].pc = "idle" /\ s # "none"
    BY <2>2 DEF Idle
  <2> QED
    BY <1>4, <2>1, <2>2, <2>3, <2>4, <2>5, WorkKeepsQueue
<1>5. CASE Succeed(w) \/ Fail(w) \/ Reject(w)
  <2>1. PICK j \in Jobs : j = worker[w].job /\ Executing(w)
    BY <1>0, <1>5 DEF Succeed, Fail, Reject, Executing
  <2>2. worker[w].retries + 1 \in Nat
    BY <1>0
  <2>3. effects' \in [Jobs -> Nat]
    <3>1. effects' = effects \/ effects' = [effects EXCEPT ![j] = @ + 1]
      BY <1>5, <2>1 DEF Succeed, Fail, Reject
    <3>2. effects \in [Jobs -> Nat]
      BY DEF QInv, TypeOK
    <3> QED
      BY <2>1, <3>1, <3>2
  <2>4. {"completed", "dead_letter", "pending"} \subseteq Statuses \ {"none"}
    BY DEF Statuses, Terminal
  <2>5. \/ EndPoll(w, "completed", rows[j].retries, rows[j].due)
        \/ EndPoll(w, "dead_letter", rows[j].retries, rows[j].due)
        \/ EndPoll(w, "pending", worker[w].retries + 1, FALSE)
    BY <1>5, <2>1 DEF Succeed, Fail, Reject
  <2> QED
    BY <1>0, <1>4, <2>1, <2>2, <2>3, <2>4, <2>5
<1>6. CASE Crash(w)
  <2>1. /\ crashes < MaxCrashes /\ crashes' = crashes + 1
        /\ locked' = [k \in Jobs |-> IF locked[k] = w THEN None ELSE locked[k]]
        /\ worker' = [worker EXCEPT ![w] = Idle]
        /\ UNCHANGED <<rows, client, effects, attempts, retried, disturbed>>
    BY <1>6 DEF Crash
  <2>2. worker'[w] = Idle /\ \A v \in Workers : v # w => worker'[v] = worker[v]
    BY <2>1 DEF QInv, TypeOK
  <2>3. TypeOK'
    BY <2>1, JobAssumption DEF QInv, TypeOK, Idle
  <2>4. \A k \in Jobs : ~HeldBy(w, k)' /\ \A v \in Workers : v # w => (HeldBy(v, k)' <=> HeldBy(v, k))
    BY <2>2 DEF HeldBy, Idle
  <2>5. ClaimsAreHeld'
    BY <2>1, <2>4, JobAssumption DEF QInv, ClaimsAreHeld
  <2> QED
    BY <2>1, <2>2, <2>3, <2>5 DEF QInv, Idle
<1> QED
  BY <1>1, <1>2, <1>3, <1>5, <1>6 DEF Work

(* A step that changes only the row of job j, on which nobody holds a      *)
(* claim, and the requests.                                                *)
LEMMA RowKeepsQueue ==
  ASSUME QInv, NEW j \in Jobs, TypeOK',
         UNCHANGED <<worker, locked>>,
         locked[j] = None \/ rows'[j].status = rows[j].status,
         rows[j].status # "none" => rows'[j].status # "none",
         \A k \in Jobs \ {j} : rows'[k] = rows[k],
         \A c \in Clients : client'[c].pc = "write" =>
             /\ client'[c].op \in Ops /\ client'[c].job \in Jobs
             /\ rows[client'[c].job].status # "none"
  PROVE  QInv'
<1>1. ClaimsAreHeld'
  BY DEF QInv, ClaimsAreHeld, HeldBy
<1> QED
  BY <1>1 DEF QInv

(* What a request writes; a report of progress leaves the status alone.    *)
LEMMA WriteIs ==
  ASSUME TypeOK, NEW c \in Clients, NEW j \in Jobs, NEW op \in Ops,
         WriteJob(c), client[c].job = j, client[c].op = op
  PROVE  \E s \in Statuses, n \in Nat, d \in BOOLEAN :
            /\ rows' = [rows EXCEPT ![j] = [status |-> s, retries |-> n, due |-> d, stale |-> FALSE]]
            /\ IF op = "patch_progress" THEN s = rows[j].status ELSE s = Verdict[op]
            /\ n = rows[j].retries \/ (op = "retry" /\ n = 0)
<1> DEFINE s == CASE op \in {"cancel", "patch_cancelled"} -> "cancelled"
                  [] op = "retry"          -> "pending"
                  [] op = "patch_failed"   -> "dead_letter"
                  [] op = "patch_result"   -> "completed"
                  [] op = "patch_progress" -> rows[j].status
           n == IF op = "retry" /\ client[c].retries # 0 THEN 0 ELSE rows[j].retries
           d == op = "retry" \/ rows[j].due
<1>0. /\ op \in AllOps
      /\ rows \in [Jobs -> [status : Statuses, retries : Nat, due : BOOLEAN, stale : BOOLEAN]]
  BY JobAssumption DEF TypeOK
<1>1. /\ s \in Statuses
      /\ IF op = "patch_progress" THEN s = rows[j].status ELSE s = Verdict[op]
  BY <1>0 DEF AllOps, Statuses, Terminal, Verdict
<1>2. d \in BOOLEAN /\ n \in Nat /\ (n = rows[j].retries \/ (op = "retry" /\ n = 0))
  BY <1>0
<1>3. rows' = [rows EXCEPT ![j] = [status |-> s, retries |-> n, due |-> d, stale |-> FALSE]]
  <2>1. rows' = [rows EXCEPT ![j] = [status |-> s, retries |-> n,
                                     due |-> op = "retry" \/ rows[j].due, stale |-> FALSE]]
    BY <1>0 DEF WriteJob
  <2> QED
    BY <1>0, <2>1
<1> QED
  BY <1>1, <1>2, <1>3

LEMMA QueueStep ==
  ASSUME QInv, [Next]_vars
  PROVE  QInv'
<1>0. /\ TypeOK
      /\ \A k \in Jobs : rows[k] \in [status : Statuses, retries : Nat, due : BOOLEAN, stale : BOOLEAN]
      /\ \A k \in Jobs : locked[k] # None => rows[k].status = "pending"
      /\ \A c \in Clients : client[c].pc = "write" =>
            /\ client[c].op \in Ops /\ client[c].job \in Jobs
            /\ rows[client[c].job].status # "none"
  BY DEF QInv, TypeOK, ClaimsAreHeld
<1>9. TypeOK /\ ClaimsAreHeld
  BY DEF QInv
<1>10. /\ rows \in [Jobs -> [status : Statuses, retries : Nat, due : BOOLEAN, stale : BOOLEAN]]
       /\ client \in [Clients -> [pc : {"idle", "write", "done"}, op : Ops \cup {"none"},
                                  job : Jobs \cup {None}, retries : Nat]]
  BY <1>9 DEF TypeOK
<1>1. CASE UNCHANGED vars
  BY <1>1 DEF vars, QInv, TypeOK, ClaimsAreHeld, HeldBy
<1>2. ASSUME NEW w \in Workers, Work(w) \/ Crash(w)  PROVE QInv'
  BY <1>2, WorkQueue
<1>3. ASSUME NEW j \in Jobs, CreateJob(j)  PROVE QInv'
  <2>1. /\ rows[j].status = "none"
        /\ rows' = [rows EXCEPT ![j].status = "pending"]
        /\ UNCHANGED <<locked, worker, client, effects, attempts, retried, crashes, disturbed>>
    BY <1>3 DEF CreateJob
  <2>2. TypeOK'
    BY <1>0, <2>1 DEF TypeOK, Statuses
  <2>3. rows'[j].status = "pending" /\ \A k \in Jobs \ {j} : rows'[k] = rows[k]
    BY <1>0, <2>1 DEF TypeOK
  <2> QED
    BY <1>0, <2>1, <2>2, <2>3, RowKeepsQueue
<1>4. ASSUME NEW j \in Jobs, Passes(j)  PROVE QInv'
  <2>1. /\ \/ rows' = [rows EXCEPT ![j].due = TRUE]
           \/ rows' = [rows EXCEPT ![j].stale = TRUE]
        /\ UNCHANGED <<locked, worker, client, effects, attempts, retried, crashes, disturbed>>
    BY <1>4 DEF Passes, ComeDue, GoStale
  <2>2. TypeOK'
    <3>1. rows' \in [Jobs -> [status : Statuses, retries : Nat, due : BOOLEAN, stale : BOOLEAN]]
      <4>1. CASE rows' = [rows EXCEPT ![j].due = TRUE]
        BY <1>10, <4>1
      <4>2. CASE rows' = [rows EXCEPT ![j].stale = TRUE]
        BY <1>10, <4>2
      <4> QED
        BY <2>1, <4>1, <4>2
    <3> QED
      BY <1>9, <2>1, <3>1 DEF TypeOK
  <2>3. rows'[j].status = rows[j].status /\ \A k \in Jobs \ {j} : rows'[k] = rows[k]
    BY <1>0, <2>1 DEF TypeOK
  <2> QED
    BY <1>0, <2>1, <2>2, <2>3, RowKeepsQueue
<1>5. CASE Reap
  <2>1. /\ rows' = [j \in Jobs |->
              IF j \notin Stale THEN rows[j]
              ELSE IF rows[j].retries < MaxRetries[j]
              THEN [status |-> "pending", retries |-> rows[j].retries + 1,
                    due |-> TRUE, stale |-> FALSE]
              ELSE [rows[j] EXCEPT !.status = "dead_letter", !.stale = FALSE]]
        /\ disturbed' = disturbed \cup ReapsLive
        /\ UNCHANGED <<locked, worker, client, effects, attempts, retried, crashes>>
    BY <1>5 DEF Reap
  <2>2. \A j \in Jobs : j \in Stale => rows[j].status = "running"
    BY DEF Stale
  <2>3. ASSUME NEW j \in Jobs
        PROVE  /\ rows'[j] \in [status : Statuses, retries : Nat, due : BOOLEAN, stale : BOOLEAN]
               /\ rows'[j].status # "none" \/ rows[j].status = "none"
               /\ locked[j] # None => rows'[j] = rows[j]
    <3>1. CASE j \notin Stale
      BY <1>0, <2>1, <3>1
    <3>2. CASE j \in Stale /\ rows[j].retries < MaxRetries[j]
      <4>1. rows'[j] = [status |-> "pending", retries |-> rows[j].retries + 1, due |-> TRUE, stale |-> FALSE]
        BY <2>1, <3>2
      <4>2. rows[j].retries + 1 \in Nat
        BY <1>0
      <4> QED
        BY <1>0, <2>2, <3>2, <4>1, <4>2 DEF Statuses
    <3>3. CASE j \in Stale /\ ~(rows[j].retries < MaxRetries[j])
      <4>1. rows'[j] = [rows[j] EXCEPT !.status = "dead_letter", !.stale = FALSE]
        BY <2>1, <3>3
      <4> QED
        BY <1>0, <2>2, <3>3, <4>1 DEF Statuses, Terminal
    <3> QED
      BY <3>1, <3>2, <3>3
  <2>4. TypeOK'
    <3>1. rows' \in [Jobs -> [status : Statuses, retries : Nat, due : BOOLEAN, stale : BOOLEAN]]
      BY <2>1, <2>3
    <3>2. disturbed' \subseteq Jobs
      BY <1>9, <2>1 DEF TypeOK, ReapsLive, Stale
    <3> QED
      BY <1>9, <2>1, <3>1, <3>2 DEF TypeOK
  <2>5. ClaimsAreHeld'
    <3>1. \A w \in Workers, j \in Jobs : HeldBy(w, j)' <=> HeldBy(w, j)
      BY <2>1 DEF HeldBy
    <3>2. locked' = locked
      BY <2>1
    <3> QED
      BY <1>9, <2>3, <3>1, <3>2 DEF ClaimsAreHeld
  <2> QED
    BY <1>0, <2>1, <2>3, <2>4, <2>5 DEF QInv
<1>6. ASSUME NEW c \in Clients, NEW op \in Ops, NEW j \in Jobs, ReadJob(c, op, j)  PROVE QInv'
  <2>1. /\ rows[j].status # "none"
        /\ UNCHANGED <<rows, locked, worker, effects, attempts, retried, crashes, disturbed>>
    BY <1>6 DEF ReadJob
  <2>2. PICK r \in [pc : {"idle", "write", "done"}, op : Ops \cup {"none"},
                   job : Jobs \cup {None}, retries : Nat] :
           /\ client' = [client EXCEPT ![c] = r]
           /\ r.pc = "write" => r.op = op /\ r.job = j
    BY <1>6, <1>9, ReadIs
  <2>3. TypeOK'
    BY <1>9, <2>1, <2>2 DEF TypeOK
  <2>4. \A d \in Clients : client'[d].pc = "write" =>
           /\ client'[d].op \in Ops /\ client'[d].job \in Jobs
           /\ rows[client'[d].job].status # "none"
    <3>1. client'[c] = r /\ \A d \in Clients : d # c => client'[d] = client[d]
      BY <1>10, <2>2
    <3> QED
      BY <1>0, <2>1, <2>2, <3>1
  <2> QED
    BY <2>1, <2>3, <2>4, RowKeepsQueue
<1>7. ASSUME NEW c \in Clients, DropRequest(c)  PROVE QInv'
  <2>1. /\ client[c].pc = "write" /\ client' = [client EXCEPT ![c] = Answered]
        /\ UNCHANGED <<rows, locked, worker, effects, attempts, retried, crashes, disturbed>>
    BY <1>7 DEF DropRequest
  <2>2. TypeOK'
    BY <1>9, <2>1, AnswerIs DEF TypeOK
  <2>3. \A d \in Clients : client'[d].pc = "write" => client'[d] = client[d]
    BY <1>10, <2>1, AnswerIs
  <2>4. client[c].job \in Jobs
    BY <1>0, <2>1
  <2> QED
    BY <1>0, <2>1, <2>2, <2>3, <2>4, RowKeepsQueue
<1>8. ASSUME NEW c \in Clients, WriteJob(c)  PROVE QInv'
  <2>1. PICK j \in Jobs, op \in Ops :
           /\ client[c].pc = "write" /\ client[c].job = j /\ client[c].op = op
           /\ rows[j].status # "none"
    BY <1>0, <1>8 DEF WriteJob
  <2>2. PICK s \in Statuses, n \in Nat, d \in BOOLEAN :
           /\ s # "none"
           /\ rows' = [rows EXCEPT ![j] = [status |-> s, retries |-> n, due |-> d, stale |-> FALSE]]
    <3>1. op # "patch_progress" => Verdict[op] # "none"
      BY JobAssumption DEF AllOps, Verdict
    <3> QED
      BY <1>0, <1>8, <2>1, <3>1, WriteIs
  <2>3. /\ locked[j] = None
        /\ client' = [client EXCEPT ![c] = Answered]
        /\ retried' = IF op = "retry" THEN [retried EXCEPT ![j] = @ + 1] ELSE retried
        /\ attempts' = IF op = "retry" THEN [attempts EXCEPT ![j] = 0] ELSE attempts
        /\ disturbed' = IF Snatches(op, j) THEN disturbed \cup {j} ELSE disturbed
        /\ UNCHANGED <<locked, worker, effects, crashes>>
    BY <1>8, <2>1 DEF WriteJob
  <2>4. TypeOK'
    <3>1. rows' \in [Jobs -> [status : Statuses, retries : Nat, due : BOOLEAN, stale : BOOLEAN]]
      BY <1>0, <2>2 DEF TypeOK
    <3>2. client' \in [Clients -> [pc : {"idle", "write", "done"}, op : Ops \cup {"none"},
                                   job : Jobs \cup {None}, retries : Nat]]
      BY <1>10, <2>3, AnswerIs
    <3>3. retried' \in [Jobs -> Nat] /\ attempts' \in [Jobs -> Nat]
      BY <1>0, <2>3 DEF TypeOK
    <3>4. disturbed' \subseteq Jobs
      BY <1>9, <2>3 DEF TypeOK
    <3> QED
      BY <1>9, <2>3, <3>1, <3>2, <3>3, <3>4 DEF TypeOK
  <2>5. \A e \in Clients : client'[e].pc = "write" => client'[e] = client[e]
    BY <1>10, <2>3, AnswerIs
  <2>6. rows'[j].status = s /\ \A k \in Jobs \ {j} : rows'[k] = rows[k]
    BY <1>0, <2>2 DEF TypeOK
  <2> QED
    BY <1>0, <2>2, <2>3, <2>4, <2>5, <2>6, RowKeepsQueue
<1> QED
  BY <1>1, <1>2, <1>3, <1>4, <1>5, <1>6, <1>7, <1>8 DEF Next

-----------------------------------------------------------------------------
(* The queue implements DurableJobs, without any hypothesis: a claim that  *)
(* is won begins an attempt, a checkpoint shows it, the end of a poll      *)
(* finishes it; picks, lost claims, due dates and what requests read are   *)
(* invisible.                                                              *)
LEMMA StatusAt ==
  ASSUME NEW j \in Jobs, NEW s, rows'[j].status = s,
         \A k \in Jobs \ {j} : rows'[k].status = rows[k].status
  PROVE  [k \in Jobs |-> rows'[k].status] = [[k \in Jobs |-> rows[k].status] EXCEPT ![j] = s]
OBVIOUS

LEMMA RetriesAt ==
  ASSUME NEW j \in Jobs, NEW n, rows'[j].retries = n,
         \A k \in Jobs \ {j} : rows'[k].retries = rows[k].retries
  PROVE  [k \in Jobs |-> rows'[k].retries] = [[k \in Jobs |-> rows[k].retries] EXCEPT ![j] = n]
OBVIOUS

LEMMA AttemptAt ==
  ASSUME NEW w \in Workers, NEW a, Attempt(w)' = a,
         \A v \in Workers \ {w} : Attempt(v)' = Attempt(v)
  PROVE  [v \in Workers |-> Attempt(v)'] = [[v \in Workers |-> Attempt(v)] EXCEPT ![w] = a]
OBVIOUS

LEMMA AttemptIs ==
  ASSUME NEW w \in Workers
  PROVE  /\ worker[w].pc = "running" =>
              Attempt(w) = {[job |-> worker[w].job, retries |-> worker[w].retries, open |-> TRUE]}
         /\ worker[w].pc = "detached" =>
              Attempt(w) = {[job |-> worker[w].job, retries |-> worker[w].retries, open |-> FALSE]}
         /\ ~Executing(w) => Attempt(w) = {}
         /\ worker'[w].pc = "running" =>
              Attempt(w)' = {[job |-> worker'[w].job, retries |-> worker'[w].retries, open |-> TRUE]}
         /\ worker'[w].pc = "detached" =>
              Attempt(w)' = {[job |-> worker'[w].job, retries |-> worker'[w].retries, open |-> FALSE]}
         /\ worker'[w].pc \notin {"running", "detached"} => Attempt(w)' = {}
         /\ worker'[w] = worker[w] => Attempt(w)' = Attempt(w)
BY DEF Attempt, Executing

LEMMA FreeIs ==
  ASSUME QInv, NEW j \in Jobs, NEW W, locked[j] \in W \cup {None}
  PROVE  Queue!Free(j, W)
<1> SUFFICES ASSUME NEW v \in Workers \ W,
                    NEW a \in Attempt(v), a.open, a.job = j
             PROVE  FALSE
  BY DEF Queue!Free
<1>1. HeldBy(v, j)
  <2>1. CASE worker[v].pc = "running"
    BY <2>1, AttemptIs DEF HeldBy
  <2>2. CASE worker[v].pc = "detached"
    <3>1. a.open = FALSE
      BY <2>2, AttemptIs
    <3> QED
      BY <3>1
  <2>3. CASE ~Executing(v)
    BY <2>3, AttemptIs
  <2> QED
    BY <2>1, <2>2, <2>3 DEF Executing
<1>2. locked[j] = v /\ v # None
  BY <1>1, JobAssumption DEF QInv, ClaimsAreHeld
<1> QED
  BY <1>2

(* Steps that leave attempts, statuses and retries alone are invisible.    *)
LEMMA Unseen ==
  ASSUME \A j \in Jobs : rows'[j].status = rows[j].status /\ rows'[j].retries = rows[j].retries,
         \A w \in Workers : Attempt(w)' = Attempt(w)
  PROVE  UNCHANGED Queue!vars
BY DEF Queue!vars

LEMMA InitImplements == Init => Queue!Init
<1> SUFFICES ASSUME Init PROVE Queue!Init
  OBVIOUS
<1>1. \A w \in Workers : Attempt(w) = {}
  BY DEF Init, Attempt, Executing, Idle
<1>2. \A j \in Jobs : rows[j].status = "none" /\ rows[j].retries = 0
  BY DEF Init
<1> QED
  BY <1>1, <1>2 DEF Queue!Init

LEMMA ClaimImplements ==
  ASSUME QInv, NEW w \in Workers, Claim(w)
  PROVE  [Queue!Next]_Queue!vars
<1>1. PICK j \in Jobs :
         /\ worker[w].pc = "claiming" /\ j = worker[w].job /\ locked[j] = None
         /\ rows' = rows
  BY DEF QInv, Claim
<1>2. worker \in [Workers -> [pc : {"idle", "claiming", "running", "detached"},
                              job : Jobs \cup {None}, retries : Nat]]
  BY DEF QInv, TypeOK
<1>3. Attempt(w) = {}
  BY <1>1 DEF Attempt, Executing
<1>4. CASE rows[j].status = "pending"
  <2>1. worker' = [worker EXCEPT ![w] = [pc |-> "running", job |-> j, retries |-> rows[j].retries]]
    BY <1>1, <1>4 DEF Claim
  <2>2. /\ worker'[w] = [pc |-> "running", job |-> j, retries |-> rows[j].retries]
        /\ \A v \in Workers \ {w} : worker'[v] = worker[v]
    BY <1>2, <2>1
  <2>3. /\ Attempt(w)' = {[job |-> j, retries |-> rows[j].retries, open |-> TRUE]}
        /\ \A v \in Workers \ {w} : Attempt(v)' = Attempt(v)
    BY <2>2, AttemptIs
  <2>4. [v \in Workers |-> Attempt(v)']
          = [[v \in Workers |-> Attempt(v)] EXCEPT
                ![w] = {[job |-> j, retries |-> rows[j].retries, open |-> TRUE]}]
    BY <2>3, AttemptAt
  <2>5. Queue!Free(j, {})
    BY <1>1, FreeIs
  <2>6. Queue!Begin(w, j)
    BY <1>1, <1>3, <1>4, <2>4, <2>5 DEF Queue!Begin
  <2> QED
    BY <2>6 DEF Queue!Next
<1>5. CASE rows[j].status # "pending"
  <2>1. worker' = [worker EXCEPT ![w] = Idle]
    BY <1>1, <1>5 DEF Claim
  <2>2. \A v \in Workers : Attempt(v)' = Attempt(v)
    BY <1>1, <1>2, <2>1, AttemptIs DEF Executing, Idle
  <2> QED
    BY <1>1, <2>2, Unseen
<1> QED
  BY <1>4, <1>5

LEMMA CheckpointImplements ==
  ASSUME QInv, NEW w \in Workers, Checkpoint(w)
  PROVE  Queue!Show(w)
<1>1. PICK j \in Jobs :
         /\ worker[w].pc = "running" /\ j = worker[w].job
         /\ worker' = [worker EXCEPT ![w].pc = "detached"]
         /\ rows' = [rows EXCEPT ![j].status = "running", ![j].stale = FALSE]
  BY DEF QInv, Checkpoint
<1>2. /\ worker \in [Workers -> [pc : {"idle", "claiming", "running", "detached"},
                                 job : Jobs \cup {None}, retries : Nat]]
      /\ rows \in [Jobs -> [status : Statuses, retries : Nat, due : BOOLEAN, stale : BOOLEAN]]
  BY DEF QInv, TypeOK
<1>3. /\ worker'[w].pc = "detached" /\ worker'[w].job = j /\ worker'[w].retries = worker[w].retries
      /\ \A v \in Workers \ {w} : worker'[v] = worker[v]
  BY <1>1, <1>2
<1>4. /\ rows'[j].status = "running" /\ rows'[j].retries = rows[j].retries
      /\ \A k \in Jobs \ {j} : rows'[k] = rows[k]
  BY <1>1, <1>2
<1> DEFINE a == [job |-> j, retries |-> worker[w].retries, open |-> TRUE]
           b == [job |-> j, retries |-> worker[w].retries, open |-> FALSE]
<1>5. /\ Attempt(w) = {a} /\ Attempt(w)' = {b}
      /\ \A v \in Workers \ {w} : Attempt(v)' = Attempt(v)
  BY <1>1, <1>3, AttemptIs
<1>6. /\ a.open = TRUE /\ a.job = j
      /\ b = [job |-> a.job, retries |-> a.retries, open |-> FALSE]
  OBVIOUS
<1>7. /\ [k \in Jobs |-> rows'[k].status] = [[k \in Jobs |-> rows[k].status] EXCEPT ![j] = "running"]
      /\ [k \in Jobs |-> rows'[k].retries] = [k \in Jobs |-> rows[k].retries]
  BY <1>4
<1>8. [v \in Workers |-> Attempt(v)'] = [[v \in Workers |-> Attempt(v)] EXCEPT ![w] = {b}]
  BY <1>5, AttemptAt
<1> HIDE DEF a, b
<1>9. a \in [v \in Workers |-> Attempt(v)][w]
  BY <1>5
<1> QED
  BY <1>6, <1>7, <1>8, <1>9 DEF Queue!Show

(* The end of a poll finishes the attempt with the status and the number   *)
(* of retries it writes.                                                   *)
LEMMA EndImplements ==
  ASSUME QInv, NEW w \in Workers, NEW s, NEW n, NEW d, NEW j \in Jobs,
         j = worker[w].job, Executing(w), EndPoll(w, s, n, d),
         \/ j \in Jobs \ Unregistered /\ s = "completed" /\ n = rows[j].retries
         \/ /\ j \in Jobs \ Unregistered /\ worker[w].retries < MaxRetries[j]
            /\ s = "pending" /\ n = worker[w].retries + 1
         \/ /\ j \notin Jobs \ Unregistered \/ worker[w].retries >= MaxRetries[j]
            /\ s = "dead_letter" /\ n = rows[j].retries
  PROVE  Queue!Finish(w)
<1>1. /\ locked[j] \in {w, None}
      /\ rows' = [rows EXCEPT ![j] = [status |-> s, retries |-> n, due |-> d, stale |-> FALSE]]
      /\ worker' = [worker EXCEPT ![w] = Idle]
  BY DEF EndPoll
<1>2. worker'[w] = Idle /\ \A v \in Workers \ {w} : worker'[v] = worker[v]
  BY <1>1 DEF QInv, TypeOK
<1>3. /\ rows'[j].status = s /\ rows'[j].retries = n
      /\ \A k \in Jobs \ {j} : rows'[k] = rows[k]
  BY <1>1 DEF QInv, TypeOK
<1>4. Attempt(w)' = {} /\ \A v \in Workers \ {w} : Attempt(v)' = Attempt(v)
  BY <1>2, AttemptIs DEF Idle
<1>5. PICK a \in Attempt(w) : a.job = j /\ a.retries = worker[w].retries
  <2>1. PICK open \in BOOLEAN :
           Attempt(w) = {[job |-> worker[w].job, retries |-> worker[w].retries, open |-> open]}
    BY AttemptIs DEF Executing
  <2> QED
    BY <2>1
<1>6. /\ [k \in Jobs |-> rows'[k].status] = [[k \in Jobs |-> rows[k].status] EXCEPT ![j] = s]
      /\ [k \in Jobs |-> rows'[k].retries] = [[k \in Jobs |-> rows[k].retries] EXCEPT ![j] = n]
      /\ n = rows[j].retries =>
            [k \in Jobs |-> rows'[k].retries] = [k \in Jobs |-> rows[k].retries]
  BY <1>3
<1>7. [v \in Workers |-> Attempt(v)'] = [[v \in Workers |-> Attempt(v)] EXCEPT ![w] = {}]
  BY <1>4, AttemptAt
<1>8. a \in [v \in Workers |-> Attempt(v)][w]
  BY <1>5
<1>9. Queue!Free(j, {w})
  BY <1>1, FreeIs
<1>10. Queue!Settle(w, a, s)
  BY <1>5, <1>6, <1>7, <1>9 DEF Queue!Settle
<1>11. CASE j \in Jobs \ Unregistered /\ s = "completed" /\ n = rows[j].retries
  BY <1>5, <1>6, <1>8, <1>10, <1>11 DEF Queue!Finish
<1>12. CASE /\ j \in Jobs \ Unregistered /\ worker[w].retries < MaxRetries[j]
            /\ s = "pending" /\ n = worker[w].retries + 1
  BY <1>5, <1>6, <1>8, <1>10, <1>12 DEF Queue!Finish
<1>13. CASE /\ j \notin Jobs \ Unregistered \/ worker[w].retries >= MaxRetries[j]
            /\ s = "dead_letter" /\ n = rows[j].retries
  BY <1>5, <1>6, <1>8, <1>10, <1>13 DEF Queue!Finish
<1> QED
  BY <1>11, <1>12, <1>13

LEMMA WorkImplements ==
  ASSUME QInv, NEW w \in Workers, Work(w) \/ Crash(w)
  PROVE  [Queue!Next]_Queue!vars
<1>0. worker \in [Workers -> [pc : {"idle", "claiming", "running", "detached"},
                              job : Jobs \cup {None}, retries : Nat]]
  BY DEF QInv, TypeOK
<1>1. CASE PickCandidate(w)
  <2>1. \A v \in Workers : Attempt(v)' = Attempt(v)
    <3>1. PICK k \in Jobs :
             /\ worker[w].pc = "idle"
             /\ worker' = [worker EXCEPT ![w] = [pc |-> "claiming", job |-> k, retries |-> 0]]
      BY <1>1 DEF PickCandidate, Claimable
    <3>2. /\ worker'[w].pc = "claiming"
          /\ \A v \in Workers : v # w => worker'[v] = worker[v]
      BY <1>0, <3>1
    <3>3. Attempt(w) = {} /\ Attempt(w)' = {}
      BY <3>1, <3>2, AttemptIs DEF Executing
    <3> QED
      BY <3>2, <3>3, AttemptIs
  <2>2. rows' = rows
    BY <1>1 DEF PickCandidate
  <2> QED
    BY <2>1, <2>2, Unseen
<1>2. CASE Claim(w)
  BY <1>2, ClaimImplements
<1>3. CASE Checkpoint(w)
  BY <1>3, CheckpointImplements DEF Queue!Next
<1>4. CASE Succeed(w) \/ Fail(w) \/ Reject(w)
  <2>1. PICK j \in Jobs : j = worker[w].job /\ Executing(w)
    <3>1. Executing(w)
      BY <1>4 DEF Succeed, Fail, Reject, Executing
    <3> QED
      BY <3>1 DEF Executing, QInv
  <2>2. worker[w].retries \in Nat /\ MaxRetries[j] \in Nat
    BY <1>0, JobAssumption
  <2>3. CASE Succeed(w)
    <3>1. EndPoll(w, "completed", rows[j].retries, rows[j].due) /\ j \notin Unregistered
      BY <2>1, <2>3 DEF Succeed
    <3> QED
      BY <2>1, <3>1, EndImplements DEF Queue!Next
  <2>4. CASE Fail(w) /\ worker[w].retries + 1 > MaxRetries[j]
    <3>1. EndPoll(w, "dead_letter", rows[j].retries, rows[j].due)
      BY <2>1, <2>4 DEF Fail
    <3>2. worker[w].retries >= MaxRetries[j]
      BY <2>2, <2>4
    <3> QED
      BY <2>1, <3>1, <3>2, EndImplements DEF Queue!Next
  <2>5. CASE Fail(w) /\ ~(worker[w].retries + 1 > MaxRetries[j])
    <3>1. EndPoll(w, "pending", worker[w].retries + 1, FALSE) /\ j \notin Unregistered
      BY <2>1, <2>5 DEF Fail
    <3>2. worker[w].retries < MaxRetries[j]
      BY <2>2, <2>5
    <3> QED
      BY <2>1, <3>1, <3>2, EndImplements DEF Queue!Next
  <2>6. CASE Reject(w)
    <3>1. EndPoll(w, "dead_letter", rows[j].retries, rows[j].due) /\ j \in Unregistered
      BY <2>1, <2>6 DEF Reject
    <3> QED
      BY <2>1, <3>1, EndImplements DEF Queue!Next
  <2> QED
    BY <1>4, <2>3, <2>4, <2>5, <2>6
<1>5. CASE Crash(w)
  <2>1. rows' = rows /\ worker' = [worker EXCEPT ![w] = Idle]
    BY <1>5 DEF Crash
  <2>2. Attempt(w)' = {} /\ \A v \in Workers \ {w} : Attempt(v)' = Attempt(v)
    BY <1>0, <2>1, AttemptIs DEF Idle
  <2>3. [v \in Workers |-> Attempt(v)'] = [[v \in Workers |-> Attempt(v)] EXCEPT ![w] = {}]
    BY <2>2, AttemptAt
  <2>4. Queue!Die(w)
    BY <2>1, <2>3 DEF Queue!Die
  <2> QED
    BY <2>4 DEF Queue!Next
<1> QED
  BY <1>1, <1>2, <1>3, <1>4, <1>5 DEF Work

LEMMA CreateImplements ==
  ASSUME QInv, NEW j \in Jobs, CreateJob(j)
  PROVE  Queue!Create(j)
<1>1. /\ rows[j].status = "none"
      /\ rows' = [rows EXCEPT ![j].status = "pending"]
      /\ worker' = worker
  BY DEF CreateJob
<1>2. /\ rows'[j].status = "pending" /\ rows'[j].retries = rows[j].retries
      /\ \A k \in Jobs \ {j} : rows'[k] = rows[k]
  BY <1>1 DEF QInv, TypeOK
<1>3. /\ [k \in Jobs |-> rows'[k].status] = [[k \in Jobs |-> rows[k].status] EXCEPT ![j] = "pending"]
      /\ [k \in Jobs |-> rows'[k].retries] = [k \in Jobs |-> rows[k].retries]
  BY <1>2
<1>4. [v \in Workers |-> Attempt(v)'] = [v \in Workers |-> Attempt(v)]
  BY <1>1, AttemptIs
<1> QED
  BY <1>1, <1>3, <1>4 DEF Queue!Create

LEMMA ReapImplements ==
  ASSUME QInv, Reap, NEW S, S = Stale
  PROVE  Queue!Reap(S)
<1>1. /\ rows' = [j \in Jobs |->
            IF j \notin S THEN rows[j]
            ELSE IF rows[j].retries < MaxRetries[j]
            THEN [status |-> "pending", retries |-> rows[j].retries + 1,
                  due |-> TRUE, stale |-> FALSE]
            ELSE [rows[j] EXCEPT !.status = "dead_letter", !.stale = FALSE]]
      /\ worker' = worker
  BY DEF Reap
<1>2. \A j \in Jobs : rows[j] \in [status : Statuses, retries : Nat, due : BOOLEAN, stale : BOOLEAN]
  BY DEF QInv, TypeOK
<1>3. ASSUME NEW j \in S  PROVE j \in Jobs /\ rows[j].status = "running" /\ Queue!Free(j, {})
  <2>1. j \in Jobs /\ rows[j].status = "running"
    BY DEF Stale
  <2>2. locked[j] = None
    BY <2>1 DEF QInv, ClaimsAreHeld
  <2> QED
    BY <2>1, <2>2, FreeIs
<1>4. ASSUME NEW j \in Jobs
      PROVE  /\ rows'[j].status = IF j \notin S THEN rows[j].status
                                  ELSE IF rows[j].retries < MaxRetries[j] THEN "pending" ELSE "dead_letter"
             /\ rows'[j].retries = IF j \in S /\ rows[j].retries < MaxRetries[j]
                                   THEN rows[j].retries + 1 ELSE rows[j].retries
  <2>1. CASE j \notin S
    BY <1>1, <2>1
  <2>2. CASE j \in S /\ rows[j].retries < MaxRetries[j]
    BY <1>1, <2>2
  <2>3. CASE j \in S /\ ~(rows[j].retries < MaxRetries[j])
    <3>1. rows'[j] = [rows[j] EXCEPT !.status = "dead_letter", !.stale = FALSE]
      BY <1>1, <2>3
    <3>2. rows'[j].status = "dead_letter" /\ rows'[j].retries = rows[j].retries
      BY <1>2, <3>1
    <3> QED
      BY <2>3, <3>2
  <2> QED
    BY <2>1, <2>2, <2>3
<1>5. [v \in Workers |-> Attempt(v)'] = [v \in Workers |-> Attempt(v)]
  BY <1>1, AttemptIs
<1> QED
  BY <1>3, <1>4, <1>5 DEF Queue!Reap

LEMMA WriteImplements ==
  ASSUME QInv, NEW c \in Clients, WriteJob(c)
  PROVE  [Queue!Next]_Queue!vars
<1>1. PICK j \in Jobs, op \in Ops :
         /\ client[c].job = j /\ client[c].op = op /\ rows[j].status # "none"
         /\ locked[j] = None /\ worker' = worker
  BY DEF WriteJob, QInv
<1>2. PICK s \in Statuses, n \in Nat, d \in BOOLEAN :
         /\ rows' = [rows EXCEPT ![j] = [status |-> s, retries |-> n, due |-> d, stale |-> FALSE]]
         /\ IF op = "patch_progress" THEN s = rows[j].status ELSE s = Verdict[op]
         /\ n = rows[j].retries \/ (op = "retry" /\ n = 0)
  BY <1>1, WriteIs DEF QInv
<1>3. /\ rows'[j].status = s /\ rows'[j].retries = n
      /\ \A k \in Jobs \ {j} : rows'[k] = rows[k]
  BY <1>2 DEF QInv, TypeOK
<1>4. \A v \in Workers : Attempt(v)' = Attempt(v)
  BY <1>1, AttemptIs
<1>5. CASE op = "patch_progress"
  <2>1. s = rows[j].status /\ n = rows[j].retries
    BY <1>2, <1>5
  <2> QED
    BY <1>3, <1>4, <2>1, Unseen
<1>6. CASE op # "patch_progress"
  <2>1. s \in {Verdict[o] : o \in Ops \ {"patch_progress"}}
    BY <1>2, <1>6
  <2>2. op = "retry" => s = "pending"
    BY <1>2, <1>6 DEF Verdict
  <2>3. /\ [k \in Jobs |-> rows'[k].status] = [[k \in Jobs |-> rows[k].status] EXCEPT ![j] = s]
        /\ [k \in Jobs |-> rows'[k].retries] = [[k \in Jobs |-> rows[k].retries] EXCEPT ![j] = n]
        /\ n = rows[j].retries =>
              [k \in Jobs |-> rows'[k].retries] = [k \in Jobs |-> rows[k].retries]
    BY <1>3
  <2>4. [v \in Workers |-> Attempt(v)'] = [v \in Workers |-> Attempt(v)]
    BY <1>4
  <2>5. Queue!Free(j, {})
    BY <1>1, FreeIs
  <2>6. Queue!Request(j, s)
    BY <1>1, <1>2, <2>2, <2>3, <2>4, <2>5 DEF Queue!Request
  <2> QED
    BY <2>1, <2>6 DEF Queue!Next
<1> QED
  BY <1>5, <1>6

LEMMA StepImplements ==
  ASSUME QInv, [Next]_vars
  PROVE  [Queue!Next]_Queue!vars
<1>1. CASE UNCHANGED vars
  BY <1>1, AttemptIs, Unseen DEF vars
<1>2. ASSUME NEW w \in Workers, Work(w) \/ Crash(w)  PROVE [Queue!Next]_Queue!vars
  BY <1>2, WorkImplements
<1>3. ASSUME NEW j \in Jobs, CreateJob(j)  PROVE [Queue!Next]_Queue!vars
  BY <1>3, CreateImplements DEF Queue!Next
<1>4. ASSUME NEW j \in Jobs, Passes(j)  PROVE [Queue!Next]_Queue!vars
  <2>1. /\ \/ rows' = [rows EXCEPT ![j].due = TRUE]
           \/ rows' = [rows EXCEPT ![j].stale = TRUE]
        /\ worker' = worker
    BY <1>4 DEF Passes, ComeDue, GoStale
  <2>2. \A k \in Jobs : rows'[k].status = rows[k].status /\ rows'[k].retries = rows[k].retries
    <3>1. rows \in [Jobs -> [status : Statuses, retries : Nat, due : BOOLEAN, stale : BOOLEAN]]
      BY DEF QInv, TypeOK
    <3> QED
      BY <2>1, <3>1
  <2> QED
    BY <2>1, <2>2, AttemptIs, Unseen
<1>5. CASE Reap
  <2>1. PICK S \in SUBSET Jobs : S = Stale
    BY DEF Stale
  <2>2. Queue!Reap(S)
    BY <1>5, <2>1, ReapImplements
  <2> QED
    BY <2>2 DEF Queue!Next
<1>6. ASSUME NEW c \in Clients, WriteJob(c)  PROVE [Queue!Next]_Queue!vars
  BY <1>6, WriteImplements
<1>7. ASSUME NEW c \in Clients, DropRequest(c) \/ \E op \in Ops, j \in Jobs : ReadJob(c, op, j)
      PROVE  [Queue!Next]_Queue!vars
  <2>1. rows' = rows /\ worker' = worker
    BY <1>7 DEF DropRequest, ReadJob
  <2> QED
    BY <2>1, AttemptIs, Unseen
<1> QED
  BY <1>1, <1>2, <1>3, <1>4, <1>5, <1>6, <1>7 DEF Next

(* Types and claims, with no hypothesis on the jobs or the requests.       *)
THEOREM QueueInvariance == Spec => []QInv
<1>1. Init => QInv
  BY InitQueue
<1>2. QInv /\ [Next]_vars => QInv'
  BY QueueStep
<1> QED
  BY <1>1, <1>2, PTL DEF Spec

(* Types of the variables.                                                 *)
THEOREM TypeCorrect == Spec => []TypeOK
<1>1. QInv => TypeOK
  BY DEF QInv
<1> QED
  BY <1>1, QueueInvariance, PTL

(* No claim is orphaned, whoever dies, and none is hidden on a job that    *)
(* is not pending: what the reaper and the requests write is never under   *)
(* a claim (acquire_next and _poll share one transaction).                 *)
THEOREM NoClaimIsOrphaned == Spec => []ClaimsAreHeld
<1>1. QInv => ClaimsAreHeld
  BY DEF QInv
<1> QED
  BY <1>1, QueueInvariance, PTL

(* The job queue implements DurableJobs, for every set of jobs, workers    *)
(* and requests, whichever of its jobs are slow.                           *)
THEOREM QueueImplements == Spec => ImplementsQueue
<1>1. Init => Queue!Init
  BY InitImplements
<1>2. QInv /\ [Next]_vars => [Queue!Next]_Queue!vars
  BY StepImplements
<1> QED
  BY <1>1, <1>2, QueueInvariance, PTL DEF Spec, ImplementsQueue, Queue!Spec

(***************************************************************************)
(* Proofs about Billing for every set of sessions, campuses, plans and     *)
(* provider events and any time.  Among its sessions are the daily jobs,   *)
(* run by the queue above; nothing here depends on it.                     *)
(***************************************************************************)
-----------------------------------------------------------------------------
(* BillingAssumption, as far as the proofs need it.                        *)
BillingGiven ==
    /\ TrialPlan \in Plans /\ Price \in [Plans -> Nat] /\ Length \in [Plans -> Nat \ {0}]
    /\ Horizon \in Nat /\ NoValue \notin Nat \cup Events
    /\ \A e \in Events : Event[e].campus \in Campuses /\ Event[e].amount \in Nat \cup {NoValue}

(* What a request may assign to a row it has read.                         *)
Assigns(r, w) ==
    /\ "status" \in DOMAIN w => /\ w["status"] \in {"trial", "active", "past_due", "cancelled"}
                                /\ Over(r) => w["status"] = "cancelled"
    /\ "start" \in DOMAIN w <=> "end" \in DOMAIN w
    /\ "start" \in DOMAIN w => /\ w["start"] \in Nat /\ w["end"] \in Nat
                               /\ w["start"] < w["end"] /\ r.start <= w["start"]
    /\ "plan" \in DOMAIN w => w["plan"] \in Plans
    /\ "cape" \in DOMAIN w => w["cape"] \in BOOLEAN
    /\ r.status = "none" /\ w # Nothing => {"status", "start"} \subseteq DOMAIN w

(* What the row becomes.                                                   *)
LEMMA MergeIs ==
  ASSUME NEW x \in Sub, NEW r \in Sub, NEW w, Assigns(r, w), NEW m, m = Merge(x, r, w)
  PROVE  /\ m \in Sub
         /\ IF "start" \in DOMAIN w THEN m.start = w["start"] /\ m.end = w["end"]
            ELSE m.start = x.start /\ m.end = x.end
         /\ m.status = IF "status" \in DOMAIN w /\ w["status"] # r.status THEN w["status"] ELSE x.status
<1>1. DOMAIN x = {"status", "plan", "start", "end", "cape"} /\ DOMAIN m = DOMAIN x
  BY DEF Sub, Merge
<1>2. \A f \in DOMAIN x : m[f] = IF f \in DOMAIN w /\ (f \in {"start", "end"} \/ w[f] # r[f])
                                 THEN w[f] ELSE x[f]
  BY DEF Merge
<1>3. IF "start" \in DOMAIN w THEN m.start = w["start"] /\ m.end = w["end"]
      ELSE m.start = x.start /\ m.end = x.end
  BY <1>1, <1>2 DEF Assigns
<1>4. m.status = IF "status" \in DOMAIN w /\ w["status"] # r.status THEN w["status"] ELSE x.status
  BY <1>1, <1>2
<1>5. m \in Sub
  <2>1. m.status \in {"none", "trial", "active", "past_due", "cancelled", "expired"}
    BY <1>4 DEF Assigns, Sub
  <2>2. m.start \in Nat /\ m.end \in Nat
    BY <1>3 DEF Assigns, Sub
  <2>3. m.plan \in Plans
    BY <1>1, <1>2 DEF Assigns, Sub
  <2>4. m.cape \in BOOLEAN
    BY <1>1, <1>2 DEF Assigns, Sub
  <2>5. m = [f \in {"status", "plan", "start", "end", "cape"} |-> m[f]]
    BY <1>1 DEF Merge
  <2> QED
    BY <1>1, <2>1, <2>2, <2>3, <2>4, <2>5 DEF Sub
<1> QED
  BY <1>3, <1>4, <1>5

LEMMA MergeNothing ==
  ASSUME NEW x \in Sub, NEW r
  PROVE  Merge(x, r, Nothing) = x
<1>1. DOMAIN Nothing = {}
  BY DEF Nothing
<1>2. Merge(x, r, Nothing) = [f \in DOMAIN x |-> x[f]]
  BY <1>1 DEF Merge
<1> QED
  BY <1>2 DEF Sub
-----------------------------------------------------------------------------
Invoice == [campus : Campuses, start : Nat, end : Nat, amount : Nat,
            status : {"pending", "paid"}, by : SUBSET Events]

RowOK(s) ==
    /\ sub[s].status = "none" => sub[s] = NoSub
    /\ s \in Known => sub[s].start < sub[s].end
    /\ sub[s].start <= now

InvoiceOK(i) ==
    /\ invoice[i].campus \in Known
    /\ invoice[i].start < invoice[i].end
    /\ \A e \in invoice[i].by : Event[e].amount \in Nat /\ Event[e].amount >= invoice[i].amount

(* A request that has found its row; one that settles an invoice was paid  *)
(* enough for it.                                                          *)
RowRequestOK(c) ==
    LET r == session[c] IN
    r.op = "row" =>
        /\ r.campus \in Campuses /\ r.read \in Sub /\ Assigns(r.read, r.write)
        /\ r.read # NoSub => r.read.status # "none" /\ r.campus \in Known
        /\ "start" \in DOMAIN r.write => r.write["start"] <= now
        /\ r.event \in Events \cup {NoValue}
        /\ r.settles # NoValue =>
              /\ r.settles \in InvoicesOf(r.campus) /\ r.event \in Events /\ r.write # Nothing
              /\ Event[r.event].amount \in Nat /\ Event[r.event].amount >= invoice[r.settles].amount

ExpireOK(c) == session[c].op = "expire" => session[c].campuses \subseteq Known

(* A run of the period end: what it is about to invoice it has locked, and *)
(* no invoice of that campus is unpaid.                                    *)
BillOK(c) ==
    LET r == session[c] IN
    r.op = "bill" =>
        /\ r = [op |-> "bill", read |-> r.read, done |-> r.done, bills |-> r.bills]
        /\ r.read \in [DOMAIN r.read -> Sub] /\ DOMAIN r.read \subseteq Known
        /\ \A s \in DOMAIN r.read : /\ r.read[s].status \in {"trial", "active"}
                                    /\ r.read[s].start < r.read[s].end /\ r.read[s].end <= now
        /\ r.done \subseteq DOMAIN r.read
        /\ r.bills \in Seq(Invoice)
        /\ \A n \in DOMAIN r.bills : /\ r.bills[n].campus \in r.done
                                     /\ r.bills[n] = Bill(r.bills[n].campus, r.read[r.bills[n].campus])
                                     /\ Pending(r.bills[n].campus) = {}
        /\ \A m, n \in DOMAIN r.bills : r.bills[m].campus = r.bills[n].campus => m = n

(* What session c has read of the row of s is what the row says.           *)
ReadsCurrent(c, s) ==
    LET r == session[c] IN
    /\ r.op = "row" /\ r.campus = s => /\ r.read = sub[s]
                                       /\ r.settles # NoValue => invoice[r.settles].status = "pending"
    /\ r.op = "bill" /\ s \in DOMAIN r.read => r.read[s] = sub[s]

(* The invoices of s are settled once each and follow one another.         *)
Orderly(s) ==
    \A i \in InvoicesOf(s) :
        /\ IF invoice[i].status = "paid" THEN \E e \in Events : invoice[i].by = {e} ELSE invoice[i].by = {}
        /\ invoice[i].end <= sub[s].start
        /\ \A j \in InvoicesOf(s) \ {i} :
              invoice[i].end <= invoice[j].start \/ invoice[j].end <= invoice[i].start

Shapes ==
    /\ now \in Nat
    /\ sub \in [Campuses -> Sub]
    /\ invoice \in Seq(Invoice)
    /\ session = [c \in Sessions |-> session[c]]
    /\ \A c \in Sessions : /\ session[c].op \in {"idle", "row", "expire", "bill"}
                           /\ session[c].op = "idle" => session[c] = IdleSession

(* The inductive invariant.                                                *)
BInv ==
    /\ Shapes
    /\ \A s \in Campuses : RowOK(s)
    /\ \A i \in DOMAIN invoice : InvoiceOK(i)
    /\ \A c \in Sessions : RowRequestOK(c) /\ ExpireOK(c) /\ BillOK(c)
    /\ \A c, d \in Sessions : c # d => Locked(c) \cap Locked(d) = {}
    /\ \A s \in Campuses : \A i, j \in Pending(s) : i = j
    /\ \A s \in Campuses \ raced : /\ \A c \in Sessions : ReadsCurrent(c, s)
                                   /\ Orderly(s)
-----------------------------------------------------------------------------
LEMMA InitBilling == BillingGiven /\ BillingInit => BInv
<1> SUFFICES ASSUME BillingGiven, BillingInit PROVE BInv
  OBVIOUS
<1>1. /\ now = 0 /\ sub = [s \in Campuses |-> NoSub] /\ invoice = <<>> /\ seen = {}
      /\ session = [c \in Sessions |-> IdleSession] /\ raced = {}
  BY DEF BillingInit
<1>2. NoSub \in Sub /\ NoSub.status = "none" /\ NoSub.start = 0
  BY DEF NoSub, Sub, BillingGiven
<1>3. DOMAIN invoice = {} /\ \A s : InvoicesOf(s) = {} /\ Pending(s) = {}
  BY <1>1 DEF InvoicesOf, Pending
<1>4. \A c \in Sessions : session[c] = IdleSession /\ session[c].op = "idle"
  BY <1>1 DEF IdleSession
<1>5. Shapes
  BY <1>1, <1>2, <1>4 DEF Shapes
<1>6. \A s \in Campuses : RowOK(s)
  BY <1>1, <1>2 DEF RowOK, Known
<1>7. \A c \in Sessions : RowRequestOK(c) /\ ExpireOK(c) /\ BillOK(c)
  BY <1>4 DEF RowRequestOK, ExpireOK, BillOK
<1>8. \A c \in Sessions : Locked(c) = {}
  BY <1>4 DEF Locked
<1>9. \A s \in Campuses : Orderly(s) /\ \A c \in Sessions : ReadsCurrent(c, s)
  BY <1>3, <1>4 DEF Orderly, ReadsCurrent
<1> QED
  BY <1>3, <1>5, <1>6, <1>7, <1>8, <1>9 DEF BInv

-----------------------------------------------------------------------------
(* A row is known when it has a status.                                    *)
LEMMA KnownIs ==
  ASSUME NEW s \in Campuses, RowOK(s)
  PROVE  s \in Known <=> sub[s].status # "none"
  BY DEF RowOK, Known, NoSub

(* Invoices are added, and those there are keep their campus and amount.   *)
Accrues ==
    \A i \in DOMAIN invoice :
        /\ i \in DOMAIN invoice'
        /\ invoice'[i].campus = invoice[i].campus /\ invoice'[i].amount = invoice[i].amount

LEMMA RequestStays ==
  ASSUME NEW c, RowRequestOK(c), session'[c] = session[c], now \in Nat, now' \in Nat, now <= now',
         BillingGiven, Known \subseteq Known', Accrues
  PROVE  RowRequestOK(c)'
<1> SUFFICES ASSUME session[c].op = "row" PROVE RowRequestOK(c)'
  BY DEF RowRequestOK
<1>1. "start" \in DOMAIN session[c].write => session[c].write["start"] \in Nat
  BY DEF RowRequestOK, Assigns
<1>2. \A i : i \in InvoicesOf(session[c].campus) =>
         i \in InvoicesOf(session[c].campus)' /\ invoice'[i].amount = invoice[i].amount
  BY DEF InvoicesOf, Accrues
<1> QED
  BY <1>1, <1>2 DEF RowRequestOK, Assigns, Over, Nothing, NoSub

LEMMA BillStays ==
  ASSUME NEW c, BillOK(c), session'[c] = session[c], now \in Nat, now' \in Nat, now <= now',
         Known \subseteq Known',
         \A s \in Locked(c) : Pending(s) = {} => Pending(s)' = {}
  PROVE  BillOK(c)'
<1> SUFFICES ASSUME session[c].op = "bill" PROVE BillOK(c)'
  BY DEF BillOK
<1> DEFINE r == session[c]
<1>1. \A s \in DOMAIN r.read : r.read[s] \in Sub /\ r.read[s].end <= now'
  BY DEF BillOK, Sub
<1>2. \A n \in DOMAIN r.bills : Pending(r.bills[n].campus)' = {}
  BY DEF BillOK, Locked
<1> QED
  BY <1>1, <1>2 DEF BillOK, Bill

-----------------------------------------------------------------------------
(* A session begins: all there is to show is that what it has read is so.  *)
LEMMA BeginKeeps ==
  ASSUME BillingGiven, BInv, NEW c \in Sessions, NEW r, Begin(c, r),
         r.op \in {"row", "expire", "bill"}, r.op = "bill" => r.done = {},
         RowRequestOK(c)', ExpireOK(c)', BillOK(c)', \A s \in Campuses \ raced : ReadsCurrent(c, s)'
  PROVE  BInv'
<1>1. /\ session' = [session EXCEPT ![c] = r] /\ UNCHANGED <<now, sub, invoice, seen, raced>>
  BY DEF Begin
<1>2. \A d \in Sessions : session'[d] = IF d = c THEN r ELSE session[d]
  BY <1>1 DEF BInv, Shapes
<1>3. /\ Known' = Known /\ \A s : InvoicesOf(s)' = InvoicesOf(s) /\ Pending(s)' = Pending(s)
  BY <1>1 DEF Known, InvoicesOf, Pending
<1>4. Shapes'
  BY <1>1, <1>2 DEF BInv, Shapes
<1>5. \A s \in Campuses : RowOK(s)' /\ \A i, j \in Pending(s)' : i = j
  BY <1>1, <1>3 DEF BInv, RowOK
<1>6. \A i \in DOMAIN invoice' : InvoiceOK(i)'
  BY <1>1, <1>3 DEF BInv, InvoiceOK
<1>7. \A d \in Sessions : RowRequestOK(d)' /\ ExpireOK(d)' /\ BillOK(d)'
  <2> SUFFICES ASSUME NEW d \in Sessions, d # c PROVE RowRequestOK(d)' /\ ExpireOK(d)' /\ BillOK(d)'
    OBVIOUS
  <2>1. session'[d] = session[d]
    BY <1>2
  <2>2. Accrues /\ now \in Nat /\ now' \in Nat /\ now <= now'
    BY <1>1 DEF Accrues, BInv, Shapes
  <2> QED
    BY <1>3, <2>1, <2>2, RequestStays, BillStays DEF BInv, ExpireOK
<1>8. \A d, e \in Sessions : d # e => Locked(d)' \cap Locked(e)' = {}
  <2>1. \A d \in Sessions : Locked(d)' = IF d = c THEN {} ELSE Locked(d)
    BY <1>2 DEF Locked
  <2> QED
    BY <2>1 DEF BInv
<1>9. \A s \in Campuses \ raced' : Orderly(s)' /\ \A d \in Sessions : ReadsCurrent(d, s)'
  <2> SUFFICES ASSUME NEW s \in Campuses \ raced' PROVE Orderly(s)' /\ \A d \in Sessions : ReadsCurrent(d, s)'
    OBVIOUS
  <2>1. Orderly(s)'
    BY <1>1, <1>3 DEF BInv, Orderly
  <2>2. \A d \in Sessions \ {c} : ReadsCurrent(d, s)'
    BY <1>1, <1>2 DEF BInv, ReadsCurrent
  <2> QED
    BY <1>1, <2>1, <2>2
<1> QED
  BY <1>4, <1>5, <1>6, <1>7, <1>8, <1>9 DEF BInv
-----------------------------------------------------------------------------
LEMMA RequestPreserves ==
  ASSUME BillingGiven, BInv, NEW c \in Sessions, NEW s \in Campuses, NEW w,
         NEW e \in Events \cup {NoValue}, NEW i,
         Assigns(sub[s], w), "start" \in DOMAIN w => w["start"] <= now,
         i # NoValue => /\ i \in Pending(s) /\ e \in Events /\ w # Nothing
                        /\ Event[e].amount \in Nat /\ Event[e].amount >= invoice[i].amount,
         Request(c, s, w, e, i)
  PROVE  BInv'
<1> DEFINE r == [op |-> "row", campus |-> s, read |-> sub[s], write |-> w, event |-> e, settles |-> i]
<1>1. PICK x : x = r
  OBVIOUS
<1>2. /\ x.op = "row" /\ x.campus = s /\ x.read = sub[s] /\ x.write = w /\ x.event = e /\ x.settles = i
  BY <1>1
<1>3. Begin(c, x)
  BY <1>1 DEF Request
<1>4. session'[c] = x /\ UNCHANGED <<now, sub, invoice>>
  BY <1>3 DEF Begin, BInv, Shapes
<1> HIDE DEF r
<1>5. sub[s] \in Sub /\ (sub[s] # NoSub => sub[s].status # "none" /\ s \in Known) /\ Known' = Known
  BY <1>4 DEF BInv, Shapes, RowOK, Known
<1>6. i # NoValue => i \in InvoicesOf(s) /\ i \in InvoicesOf(s)' /\ invoice[i].status = "pending"
  BY <1>4 DEF Pending, InvoicesOf
<1>7. RowRequestOK(c)'
  BY <1>2, <1>4, <1>5, <1>6 DEF RowRequestOK, Assigns, Over, NoSub, Nothing
<1>8. ExpireOK(c)' /\ BillOK(c)'
  BY <1>2, <1>4 DEF ExpireOK, BillOK
<1>9. \A t \in Campuses \ raced : ReadsCurrent(c, t)'
  BY <1>2, <1>4, <1>6 DEF ReadsCurrent
<1> QED
  BY <1>2, <1>3, <1>7, <1>8, <1>9, BeginKeeps

LEMMA ChangePreserves ==
  ASSUME BillingGiven, BInv, NEW c \in Sessions, NEW s \in Campuses, NEW w,
         Assigns(sub[s], w), "start" \in DOMAIN w => w["start"] <= now, Change(c, s, w)
  PROVE  BInv'
  BY RequestPreserves DEF Change

-----------------------------------------------------------------------------
(* What is read of a row and of the plans.                                 *)
LEMMA RowIs ==
  ASSUME BillingGiven, BInv, NEW s \in Campuses
  PROVE  /\ sub[s] \in Sub /\ sub[s].start \in Nat /\ sub[s].start <= now /\ now \in Nat
         /\ sub[s].plan \in Plans /\ Length[sub[s].plan] \in Nat \ {0} /\ Length[TrialPlan] \in Nat \ {0}
         /\ TrialPlan \in Plans
         /\ s \in Known => sub[s].status # "none"
         /\ s \notin Known => sub[s] = NoSub
<1>1. sub[s] \in Sub /\ now \in Nat /\ RowOK(s)
  BY DEF BInv, Shapes
<1>2. sub[s].start \in Nat /\ sub[s].plan \in Plans
  BY <1>1 DEF Sub
<1>3. s \in Known <=> sub[s].status # "none"
  BY <1>1, KnownIs
<1> QED
  BY <1>1, <1>2, <1>3 DEF BillingGiven, RowOK, Known

LEMMA TrialPreserves ==
  ASSUME BillingGiven, BInv, NEW c \in Sessions, NEW s \in Campuses, GetOrCreateTrial(c, s)
  PROVE  BInv'
<1>1. PICK w : w = [status |-> "trial", plan |-> TrialPlan, start |-> now,
                    end |-> now + Length[TrialPlan], cape |-> FALSE]
  OBVIOUS
<1>2. s \notin Known /\ Change(c, s, w)
  BY <1>1 DEF GetOrCreateTrial
<1>3. Assigns(sub[s], w) /\ w["start"] <= now
  BY <1>1, <1>2, RowIs DEF Assigns, Over, NoSub
<1> QED
  BY <1>2, <1>3, ChangePreserves

LEMMA PlanPreserves ==
  ASSUME BillingGiven, BInv, NEW c \in Sessions, NEW s \in Campuses, NEW p \in Plans, ChangePlan(c, s, p)
  PROVE  BInv'
<1>1. PICK w : w = [plan |-> p]
  OBVIOUS
<1>2. s \in Known /\ Change(c, s, w)
  BY <1>1 DEF ChangePlan
<1>3. Assigns(sub[s], w) /\ "start" \notin DOMAIN w
  BY <1>1, <1>2, RowIs DEF Assigns
<1> QED
  BY <1>2, <1>3, ChangePreserves

LEMMA CancelPreserves ==
  ASSUME BillingGiven, BInv, NEW c \in Sessions, NEW s \in Campuses, NEW atEnd \in BOOLEAN,
         Cancel(c, s, atEnd)
  PROVE  BInv'
<1>1. PICK w : w = IF atEnd THEN [cape |-> TRUE] ELSE [status |-> "cancelled", cape |-> FALSE]
  OBVIOUS
<1>2. s \in Known /\ Change(c, s, w)
  BY <1>1 DEF Cancel
<1>3. Assigns(sub[s], w) /\ "start" \notin DOMAIN w
  BY <1>1, <1>2, RowIs DEF Assigns
<1> QED
  BY <1>2, <1>3, ChangePreserves

LEMMA RenewPreserves ==
  ASSUME BillingGiven, BInv, NEW c \in Sessions, NEW s \in Campuses, Renew(c, s)
  PROVE  BInv'
<1>1. PICK w : w = [status |-> "active", cape |-> FALSE, start |-> now,
                    end |-> now + Length[sub[s].plan]]
  OBVIOUS
<1>2. s \in Known /\ ~Over(sub[s]) /\ Change(c, s, w)
  BY <1>1 DEF Renew
<1>3. Assigns(sub[s], w) /\ w["start"] <= now
  BY <1>1, <1>2, RowIs DEF Assigns
<1> QED
  BY <1>2, <1>3, ChangePreserves

LEMMA FailedPreserves ==
  ASSUME BillingGiven, BInv, NEW c \in Sessions, NEW e \in Events, PaymentFailed(c, e)
  PROVE  BInv'
<1> DEFINE s == Event[e].campus
<1>1. s \in Campuses
  BY DEF BillingGiven
<1>2. PICK w : w = IF sub[s].status \in {"trial", "past_due"} THEN [status |-> "past_due"] ELSE Nothing
  OBVIOUS
<1>3. Request(c, s, w, e, NoValue)
  BY <1>2 DEF PaymentFailed
<1>4. Assigns(sub[s], w) /\ "start" \notin DOMAIN w
  <2>1. CASE sub[s].status \in {"trial", "past_due"}
    BY <1>1, <1>2, <2>1, RowIs DEF Assigns, Over
  <2>2. CASE ~(sub[s].status \in {"trial", "past_due"})
    <3>1. w = Nothing /\ DOMAIN w = {}
      BY <1>2, <2>2 DEF Nothing
    <3> QED
      BY <3>1 DEF Assigns
  <2> QED
    BY <2>1, <2>2
<1> HIDE DEF s
<1> QED
  BY <1>1, <1>3, <1>4, RequestPreserves

LEMMA ChosenIs ==
  ASSUME BInv, NEW s, NEW a, Pending(s) # {}
  PROVE  Chosen(s, a) \in Pending(s)
<1>1. PICK S : S = IF Match(s, a) # {} THEN Match(s, a) ELSE Pending(s)
  OBVIOUS
<1>2. S # {} /\ S \subseteq Pending(s) /\ Pending(s) \subseteq DOMAIN invoice
  BY <1>1 DEF Match, Pending, InvoicesOf
<1>3. PICK m \in S : TRUE
  BY <1>2
<1>4. \A j \in Campuses : \A k, l \in Pending(j) : k = l
  BY DEF BInv
<1>5. invoice[m].campus \in Campuses /\ invoice[m].campus = s /\ m \in Nat
  BY <1>2, <1>3 DEF BInv, InvoiceOK, Known, Pending, InvoicesOf, Shapes
<1>6. \A j \in S : j <= m
  BY <1>2, <1>3, <1>4, <1>5
<1>7. Newest(S) \in S
  BY <1>3, <1>6 DEF Newest
<1> QED
  BY <1>1, <1>2, <1>7 DEF Chosen

LEMMA CapturedPreserves ==
  ASSUME BillingGiven, BInv, NEW c \in Sessions, NEW e \in Events, PaymentCaptured(c, e)
  PROVE  BInv'
<1> DEFINE s == Event[e].campus
           a == Event[e].amount
<1>1. s \in Campuses /\ a \in Nat \cup {NoValue} /\ NoValue \notin Events
  BY DEF BillingGiven
<1>2. CASE s \in Known /\ ~Over(sub[s]) /\ Settles(s, a)
  <2>1. PICK w : w = [status |-> "active", cape |-> FALSE]
    OBVIOUS
  <2>2. PICK i : i = IF Pending(s) = {} THEN NoValue ELSE Chosen(s, a)
    OBVIOUS
  <2>3. Request(c, s, w, e, i)
    BY <1>2, <2>1, <2>2 DEF PaymentCaptured
  <2>4. Assigns(sub[s], w) /\ "start" \notin DOMAIN w /\ w # Nothing
    <3>1. DOMAIN w = {"status", "cape"} /\ DOMAIN Nothing = {}
      BY <2>1 DEF Nothing
    <3>2. w # Nothing
      BY <3>1
    <3> QED
      BY <1>1, <1>2, <2>1, <3>1, <3>2, RowIs DEF Assigns
  <2>5. i # NoValue => i \in Pending(s) /\ a \in Nat /\ a >= invoice[i].amount
    BY <1>1, <1>2, <2>2, ChosenIs DEF Settles
  <2> HIDE DEF s, a
  <2>6. i # NoValue => /\ i \in Pending(s) /\ e \in Events /\ w # Nothing
                       /\ Event[e].amount \in Nat /\ Event[e].amount >= invoice[i].amount
    BY <2>4, <2>5 DEF a
  <2> QED
    BY <1>1, <2>3, <2>4, <2>6, RequestPreserves
<1>3. CASE ~(s \in Known /\ ~Over(sub[s]) /\ Settles(s, a))
  <2>1. PICK w : w = Nothing
    OBVIOUS
  <2>2. Request(c, s, w, e, NoValue)
    BY <1>3, <2>1 DEF PaymentCaptured
  <2>3. DOMAIN w = {}
    BY <2>1 DEF Nothing
  <2>4. Assigns(sub[s], w) /\ "start" \notin DOMAIN w
    BY <2>1, <2>3 DEF Assigns
  <2> HIDE DEF s, a
  <2> QED
    BY <1>1, <2>2, <2>4, RequestPreserves
<1> QED
  BY <1>2, <1>3
-----------------------------------------------------------------------------
LEMMA ExpireBegins ==
  ASSUME BillingGiven, BInv, NEW c \in Sessions, NEW S \in SUBSET Known,
         Begin(c, [op |-> "expire", campuses |-> S])
  PROVE  BInv'
<1>1. PICK x : x = [op |-> "expire", campuses |-> S]
  OBVIOUS
<1>2. Begin(c, x) /\ x.op = "expire" /\ x.campuses = S
  BY <1>1
<1>3. session'[c] = x /\ UNCHANGED <<now, sub, invoice>>
  BY <1>2 DEF Begin, BInv, Shapes
<1>4. RowRequestOK(c)' /\ ExpireOK(c)' /\ BillOK(c)' /\ \A s \in Campuses \ raced : ReadsCurrent(c, s)'
  BY <1>2, <1>3 DEF RowRequestOK, ExpireOK, BillOK, ReadsCurrent, Known
<1> QED
  BY <1>2, <1>4, BeginKeeps

LEMMA LatePreserves ==
  ASSUME BillingGiven, BInv, NEW c \in Sessions, ExpirePastDue(c)
  PROVE  BInv'
<1>1. PICK S : S = {s \in Known : sub[s].status = "past_due" /\ sub[s].end < now}
  OBVIOUS
<1> QED
  BY <1>1, ExpireBegins DEF ExpirePastDue

LEMMA ExpireOnePreserves ==
  ASSUME BillingGiven, BInv, NEW c \in Sessions, NEW s \in Campuses, ExpireOne(c, s)
  PROVE  BInv'
<1>1. PICK S : S = {s}
  OBVIOUS
<1> QED
  BY <1>1, ExpireBegins DEF ExpireOne

LEMMA ListingPreserves ==
  ASSUME BillingGiven, BInv, NEW c \in Sessions, ProcessPeriodEnd(c)
  PROVE  BInv'
<1>1. PICK D, f : /\ D = {s \in Known : sub[s].status \in {"trial", "active"} /\ sub[s].end <= now}
                  /\ f = [s \in D |-> sub[s]]
  OBVIOUS
<1>2. PICK x : x = [op |-> "bill", read |-> f, done |-> {}, bills |-> <<>>]
  OBVIOUS
<1>3. Begin(c, x) /\ x.op = "bill" /\ x.read = f /\ x.done = {} /\ x.bills = <<>>
  BY <1>1, <1>2 DEF ProcessPeriodEnd
<1>4. session'[c] = x /\ UNCHANGED <<now, sub, invoice>>
  BY <1>3 DEF Begin, BInv, Shapes
<1>5. RowRequestOK(c)' /\ ExpireOK(c)'
  BY <1>3, <1>4 DEF RowRequestOK, ExpireOK
<1>6. \A s \in Campuses \ raced : ReadsCurrent(c, s)'
  BY <1>1, <1>3, <1>4 DEF ReadsCurrent
<1>7. BillOK(c)'
  <2>1. D \subseteq Known /\ Known \subseteq Campuses /\ DOMAIN f = D /\ Known' = Known
    BY <1>1, <1>4 DEF Known
  <2>2. \A s \in D : /\ sub[s] \in Sub /\ f[s] = sub[s] /\ sub[s].start < sub[s].end
                     /\ sub[s].status \in {"trial", "active"} /\ sub[s].end <= now
    BY <1>1, <2>1 DEF BInv, Shapes, RowOK
  <2>3. f \in [D -> Sub]
    BY <1>1, <2>2
  <2>4. x.bills \in Seq(Invoice) /\ DOMAIN x.bills = {}
    BY <1>3
  <2> QED
    BY <1>2, <1>3, <1>4, <2>1, <2>2, <2>3, <2>4 DEF BillOK
<1> QED
  BY <1>3, <1>5, <1>6, <1>7, BeginKeeps

-----------------------------------------------------------------------------
(* Session c ends and S are the campuses whose rows or invoices it has     *)
(* changed: nobody else has them locked, and who has read one races.       *)
LEMMA EndKeeps ==
  ASSUME BillingGiven, BInv, NEW c \in Sessions, NEW S,
         session' = [session EXCEPT ![c] = IdleSession], now' = now,
         \A d \in Sessions \ {c} : Locked(d) \cap S = {},
         raced \subseteq raced', \A s \in S \ raced' : \A d \in Sessions \ {c} : s \notin Reads(session[d]),
         sub' \in [Campuses -> Sub], invoice' \in Seq(Invoice),
         \A s \in Campuses : RowOK(s)', \A i \in DOMAIN invoice' : InvoiceOK(i)',
         Known \subseteq Known', Accrues,
         \A s \in Campuses \ S : /\ sub'[s] = sub[s] /\ InvoicesOf(s)' = InvoicesOf(s)
                                 /\ \A i \in InvoicesOf(s) : invoice'[i] = invoice[i],
         \A s \in Campuses : \A i, j \in Pending(s)' : i = j,
         \A s \in (Campuses \cap S) \ raced' : Orderly(s)'
  PROVE  BInv'
<1>1. \A d \in Sessions : session'[d] = IF d = c THEN IdleSession ELSE session[d]
  BY DEF BInv, Shapes
<1>2. IdleSession.op = "idle"
  BY DEF IdleSession
<1>3. Shapes'
  BY <1>1, <1>2 DEF BInv, Shapes
<1>4. \A s \in Campuses \ S : Pending(s)' = Pending(s)
  BY DEF Pending
<1>5. \A d \in Sessions : RowRequestOK(d)' /\ ExpireOK(d)' /\ BillOK(d)'
  <2> SUFFICES ASSUME NEW d \in Sessions PROVE RowRequestOK(d)' /\ ExpireOK(d)' /\ BillOK(d)'
    OBVIOUS
  <2>1. CASE d = c
    BY <1>1, <1>2, <2>1 DEF RowRequestOK, ExpireOK, BillOK
  <2>2. CASE d # c
    <3>1. session'[d] = session[d] /\ now \in Nat /\ now' \in Nat /\ now <= now'
      BY <1>1, <2>2 DEF BInv, Shapes
    <3>2. \A s \in Locked(d) : Pending(s) = {} => Pending(s)' = {}
      <4>1. \A s \in Locked(d) : s \in Campuses \ S
        BY <2>2 DEF BInv, BillOK, Locked, Known
      <4> QED
        BY <1>4, <4>1
    <3>3. RowRequestOK(d)'
      BY <3>1, RequestStays DEF BInv
    <3>4. BillOK(d)'
      BY <3>1, <3>2, BillStays DEF BInv
    <3> QED
      BY <3>1, <3>3, <3>4 DEF BInv, ExpireOK
  <2> QED
    BY <2>1, <2>2
<1>6. \A d, e \in Sessions : d # e => Locked(d)' \cap Locked(e)' = {}
  <2>1. \A d \in Sessions : Locked(d)' = IF d = c THEN {} ELSE Locked(d)
    BY <1>1, <1>2 DEF Locked
  <2> QED
    BY <2>1 DEF BInv
<1>7. ASSUME NEW s \in Campuses \ raced' PROVE Orderly(s)'
  <2>1. CASE s \in S
    BY <1>7, <2>1
  <2>2. CASE s \notin S
    <3>1. Orderly(s) /\ s \in Campuses \ S
      BY <1>7, <2>2 DEF BInv
    <3> QED
      BY <3>1 DEF Orderly
  <2> QED
    BY <2>1, <2>2
<1>8. ASSUME NEW s \in Campuses \ raced', NEW d \in Sessions PROVE ReadsCurrent(d, s)'
  <2>1. CASE d = c
    BY <1>1, <1>2, <2>1 DEF ReadsCurrent
  <2>2. CASE d # c
    <3>1. session'[d] = session[d]
      BY <1>1, <2>2
    <3>2. CASE s \in S
      <4>1. s \notin Reads(session[d])
        BY <1>8, <2>2, <3>2
      <4>2. ~(session[d].op = "row" /\ session[d].campus = s)
        BY <4>1 DEF Reads
      <4>3. ~(session[d].op = "bill" /\ s \in DOMAIN session[d].read)
        BY <4>1 DEF Reads
      <4> QED
        BY <3>1, <4>2, <4>3 DEF ReadsCurrent
    <3>3. CASE s \notin S
      <4>1. ReadsCurrent(d, s) /\ RowRequestOK(d) /\ s \in Campuses \ S
        BY <1>8, <3>3 DEF BInv
      <4> QED
        BY <3>1, <4>1 DEF ReadsCurrent, RowRequestOK
    <3> QED
      BY <3>2, <3>3
  <2> QED
    BY <2>1, <2>2
<1> QED
  BY <1>3, <1>5, <1>6, <1>7, <1>8 DEF BInv

-----------------------------------------------------------------------------
LEMMA RollBackPreserves ==
  ASSUME BillingGiven, BInv, NEW c \in Sessions, RollBack(c)
  PROVE  BInv'
<1>1. session' = [session EXCEPT ![c] = IdleSession] /\ UNCHANGED <<now, sub, invoice, seen, raced>>
  BY DEF RollBack
<1>2. /\ Known' = Known /\ Accrues
      /\ \A s : InvoicesOf(s)' = InvoicesOf(s) /\ Pending(s)' = Pending(s)
  BY <1>1 DEF Known, Accrues, InvoicesOf, Pending
<1>3. (\A s \in Campuses : RowOK(s)') /\ (\A i \in DOMAIN invoice' : InvoiceOK(i)')
  BY <1>1, <1>2 DEF BInv, RowOK, InvoiceOK
<1>4. PICK S : S = {}
  OBVIOUS
<1>5. sub' \in [Campuses -> Sub] /\ invoice' \in Seq(Invoice)
  BY <1>1 DEF BInv, Shapes
<1>6. \A s \in Campuses : \A i, j \in Pending(s)' : i = j
  BY <1>2 DEF BInv
<1>7. /\ \A d \in Sessions \ {c} : Locked(d) \cap S = {}
      /\ \A s \in S \ raced' : \A d \in Sessions \ {c} : s \notin Reads(session[d])
      /\ \A s \in (Campuses \cap S) \ raced' : Orderly(s)'
  BY <1>4
<1>8. \A s \in Campuses \ S : /\ sub'[s] = sub[s] /\ InvoicesOf(s)' = InvoicesOf(s)
                              /\ \A i \in InvoicesOf(s) : invoice'[i] = invoice[i]
  BY <1>1, <1>2
<1>9. now' = now /\ raced \subseteq raced' /\ Known \subseteq Known'
  BY <1>1, <1>2
<1> QED
  BY ONLY BillingGiven, BInv, c \in Sessions, <1>1, <1>2, <1>3, <1>5, <1>6, <1>7, <1>8, <1>9, EndKeeps

LEMMA TickPreserves ==
  ASSUME BillingGiven, BInv, now' \in {now, now + 1}, UNCHANGED <<sub, invoice, session, raced>>
  PROVE  BInv'
<1>1. now \in Nat /\ now' \in Nat /\ now <= now'
  BY DEF BInv, Shapes
<1>2. /\ Known' = Known /\ Accrues
      /\ \A s : InvoicesOf(s)' = InvoicesOf(s) /\ Pending(s)' = Pending(s)
  BY DEF Known, Accrues, InvoicesOf, Pending
<1>3. Shapes'
  BY <1>1 DEF BInv, Shapes
<1>4. \A s \in Campuses : RowOK(s)'
  <2>1. \A s \in Campuses : sub[s].start \in Nat
    BY DEF BInv, Shapes, Sub
  <2> QED
    BY <1>1, <1>2, <2>1 DEF BInv, RowOK
<1>5. \A i \in DOMAIN invoice' : InvoiceOK(i)'
  BY <1>2 DEF BInv, InvoiceOK
<1>6. \A d \in Sessions : RowRequestOK(d)' /\ ExpireOK(d)' /\ BillOK(d)'
  <2> SUFFICES ASSUME NEW d \in Sessions PROVE RowRequestOK(d)' /\ ExpireOK(d)' /\ BillOK(d)'
    OBVIOUS
  <2> QED
    BY <1>1, <1>2, RequestStays, BillStays DEF BInv, ExpireOK
<1>7. \A d \in Sessions : Locked(d)' = Locked(d)
  BY DEF Locked
<1>8. \A s \in Campuses \ raced' : Orderly(s)' /\ \A d \in Sessions : ReadsCurrent(d, s)'
  BY <1>2 DEF BInv, Orderly, ReadsCurrent
<1> QED
  BY <1>2, <1>3, <1>4, <1>5, <1>6, <1>7, <1>8 DEF BInv
-----------------------------------------------------------------------------
LEMMA LockPreserves ==
  ASSUME BillingGiven, BInv, NEW c \in Sessions, NEW s \in Campuses, LockRow(c, s)
  PROVE  BInv'
<1>1. PICK r : r = session[c]
  OBVIOUS
<1>2. PICK bills : bills = IF NothingOwed(s) THEN Append(r.bills, Bill(s, r.read[s])) ELSE r.bills
  OBVIOUS
<1>3. /\ r.op = "bill" /\ s \in DOMAIN r.read \ r.done /\ Unlocked(c, {s})
      /\ UNCHANGED <<now, sub, invoice, seen, raced>>
  BY <1>1 DEF LockRow
<1>4. /\ r = [op |-> "bill", read |-> r.read, done |-> r.done, bills |-> r.bills]
      /\ r.read \in [DOMAIN r.read -> Sub] /\ DOMAIN r.read \subseteq Known
      /\ \A t \in DOMAIN r.read : /\ r.read[t].status \in {"trial", "active"}
                                  /\ r.read[t].start < r.read[t].end /\ r.read[t].end <= now
      /\ r.done \subseteq DOMAIN r.read
      /\ r.bills \in Seq(Invoice)
      /\ \A n \in DOMAIN r.bills : /\ r.bills[n].campus \in r.done
                                   /\ r.bills[n] = Bill(r.bills[n].campus, r.read[r.bills[n].campus])
                                   /\ Pending(r.bills[n].campus) = {}
      /\ \A m, n \in DOMAIN r.bills : r.bills[m].campus = r.bills[n].campus => m = n
  BY <1>1, <1>3 DEF BInv, BillOK
<1>5. PICK x : x = [op |-> "bill", read |-> r.read, done |-> r.done \cup {s}, bills |-> bills]
  OBVIOUS
<1>6. \A d \in Sessions : session'[d] = IF d = c THEN x ELSE session[d]
  <2>1. session' = [session EXCEPT ![c].done = @ \cup {s},
                       ![c].bills = IF NothingOwed(s) THEN Append(@, Bill(s, r.read[s])) ELSE @]
    BY <1>1 DEF LockRow
  <2>2. session'[c] = [[r EXCEPT !.done = @ \cup {s}] EXCEPT !.bills = bills]
    BY <1>1, <1>2, <1>4, <2>1 DEF BInv, Shapes
  <2>3. PICK f, done, old : f = r.read /\ done = r.done /\ old = r.bills
    OBVIOUS
  <2>4. r = [op |-> "bill", read |-> f, done |-> done, bills |-> old]
    BY <1>4, <2>3
  <2>5. [[r EXCEPT !.done = @ \cup {s}] EXCEPT !.bills = bills]
          = [op |-> "bill", read |-> f, done |-> done \cup {s}, bills |-> bills]
    <3>1. PICK y : y = [r EXCEPT !.done = @ \cup {s}]
      OBVIOUS
    <3>2. y = [op |-> "bill", read |-> f, done |-> done \cup {s}, bills |-> old]
      BY ONLY <2>4, <3>1
    <3>3. [y EXCEPT !.bills = bills] = [op |-> "bill", read |-> f, done |-> done \cup {s}, bills |-> bills]
      BY ONLY <3>2
    <3> QED
      BY ONLY <3>1, <3>3
  <2>6. x = [op |-> "bill", read |-> f, done |-> done \cup {s}, bills |-> bills]
    BY <1>5, <2>3
  <2>7. session'[c] = x
    BY <2>2, <2>5, <2>6
  <2> QED
    BY <2>1, <2>7 DEF BInv, Shapes
<1>7. session' = [d \in Sessions |-> session'[d]]
  BY DEF LockRow, BInv, Shapes
<1>8. Shapes'
  BY <1>3, <1>5, <1>6, <1>7 DEF BInv, Shapes
<1>9. /\ Known' = Known /\ Accrues
      /\ \A t : InvoicesOf(t)' = InvoicesOf(t) /\ Pending(t)' = Pending(t)
  BY <1>3 DEF Known, Accrues, InvoicesOf, Pending
<1>10. /\ \A t \in Campuses : RowOK(t)' /\ \A i, j \in Pending(t)' : i = j
       /\ \A i \in DOMAIN invoice' : InvoiceOK(i)'
  BY <1>3, <1>9 DEF BInv, RowOK, InvoiceOK
<1>11. BillOK(c)'
  <2>6. /\ x.op = "bill" /\ x.read = r.read /\ x.done = r.done \cup {s} /\ x.bills = bills
        /\ x = [op |-> "bill", read |-> x.read, done |-> x.done, bills |-> x.bills]
    BY <1>5
  <2>7. /\ x.read \in [DOMAIN x.read -> Sub] /\ DOMAIN x.read \subseteq Known'
        /\ \A t \in DOMAIN x.read : /\ x.read[t].status \in {"trial", "active"}
                                    /\ x.read[t].start < x.read[t].end /\ x.read[t].end <= now'
        /\ x.done \subseteq DOMAIN x.read
    BY <1>3, <1>4, <1>9, <2>6
  <2> SUFFICES /\ bills \in Seq(Invoice)
               /\ \A n \in DOMAIN bills : /\ bills[n].campus \in r.done \cup {s}
                                          /\ bills[n] = Bill(bills[n].campus, r.read[bills[n].campus])
                                          /\ Pending(bills[n].campus) = {}
               /\ \A m, n \in DOMAIN bills : bills[m].campus = bills[n].campus => m = n
    <3>1. /\ x.bills \in Seq(Invoice)
          /\ \A n \in DOMAIN x.bills : /\ x.bills[n].campus \in x.done
                                       /\ x.bills[n] = Bill(x.bills[n].campus, x.read[x.bills[n].campus])
                                       /\ Pending(x.bills[n].campus)' = {}
          /\ \A m, n \in DOMAIN x.bills : x.bills[m].campus = x.bills[n].campus => m = n
      BY <1>9, <2>6
    <3>2. session'[c] = x
      BY <1>6
    <3> QED
      BY ONLY <2>6, <2>7, <3>1, <3>2 DEF BillOK, Bill, Pending, InvoicesOf
  <2> DEFINE b == Bill(s, r.read[s])
  <2>1. r.read[s] \in Sub /\ s \in Campuses
    BY <1>3, <1>4
  <2>2. b.campus = s /\ b = Bill(b.campus, r.read[b.campus])
    BY DEF Bill
  <2>3. b \in Invoice
    BY <2>1 DEF Bill, Invoice, Sub, BillingGiven
  <2> HIDE DEF b
  <2>4. CASE NothingOwed(s)
    <3>1. bills = Append(r.bills, b) /\ Pending(s) = {}
      BY <1>2, <2>4 DEF NothingOwed, b
    <3>2. /\ bills \in Seq(Invoice) /\ DOMAIN bills = 1 .. Len(r.bills) + 1 /\ Len(r.bills) \in Nat
          /\ DOMAIN r.bills = 1 .. Len(r.bills)
          /\ bills[Len(r.bills) + 1] = b
          /\ \A n \in DOMAIN r.bills : bills[n] = r.bills[n]
      BY <1>4, <2>3, <3>1
    <3>3. \A n \in DOMAIN bills : /\ bills[n].campus \in r.done \cup {s}
                                  /\ bills[n] = Bill(bills[n].campus, r.read[bills[n].campus])
                                  /\ Pending(bills[n].campus) = {}
      <4> SUFFICES ASSUME NEW n \in DOMAIN bills
                   PROVE  /\ bills[n].campus \in r.done \cup {s}
                          /\ bills[n] = Bill(bills[n].campus, r.read[bills[n].campus])
                          /\ Pending(bills[n].campus) = {}
        OBVIOUS
      <4>1. CASE n \in DOMAIN r.bills
        BY <1>4, <3>2, <4>1
      <4>2. CASE n = Len(r.bills) + 1
        BY <2>2, <3>1, <3>2, <4>2
      <4> QED
        BY <3>2, <4>1, <4>2
    <3>4. \A m, n \in DOMAIN bills : bills[m].campus = bills[n].campus => m = n
      BY <1>3, <1>4, <2>2, <3>2
    <3> QED
      BY <3>2, <3>3, <3>4
  <2>5. CASE ~NothingOwed(s)
    <3>1. bills = r.bills
      BY <1>2, <2>5
    <3> QED
      BY <1>4, <3>1
  <2> QED
    BY <2>4, <2>5
<1>12. \A d \in Sessions : RowRequestOK(d)' /\ ExpireOK(d)' /\ BillOK(d)'
  <2> SUFFICES ASSUME NEW d \in Sessions PROVE RowRequestOK(d)' /\ ExpireOK(d)' /\ BillOK(d)'
    OBVIOUS
  <2>1. CASE d = c
    BY <1>5, <1>6, <1>11, <2>1 DEF RowRequestOK, ExpireOK
  <2>2. CASE d # c
    <3>1. session'[d] = session[d] /\ now \in Nat /\ now' \in Nat /\ now <= now'
      BY <1>3, <1>6, <2>2 DEF BInv, Shapes
    <3> QED
      BY <1>9, <3>1, RequestStays, BillStays DEF BInv, ExpireOK
  <2> QED
    BY <2>1, <2>2
<1>13. \A d, e \in Sessions : d # e => Locked(d)' \cap Locked(e)' = {}
  <2>1. \A d \in Sessions : Locked(d)' = IF d = c THEN r.done \cup {s} ELSE Locked(d)
    BY <1>5, <1>6 DEF Locked
  <2>2. Locked(c) = r.done /\ \A d \in Sessions \ {c} : s \notin Locked(d)
    BY <1>1, <1>3 DEF Locked, Unlocked
  <2> QED
    BY <2>1, <2>2 DEF BInv
<1>14. \A t \in Campuses \ raced' : Orderly(t)' /\ \A d \in Sessions : ReadsCurrent(d, t)'
  <2> SUFFICES ASSUME NEW t \in Campuses \ raced' PROVE Orderly(t)' /\ \A d \in Sessions : ReadsCurrent(d, t)'
    OBVIOUS
  <2>1. Orderly(t)'
    BY <1>3, <1>9 DEF BInv, Orderly
  <2>2. ASSUME NEW d \in Sessions PROVE ReadsCurrent(d, t)'
    <3>1. ReadsCurrent(d, t)
      BY <1>3 DEF BInv
    <3> QED
      BY <1>1, <1>3, <1>5, <1>6, <3>1 DEF ReadsCurrent
  <2> QED
    BY <2>1, <2>2
<1> QED
  BY <1>8, <1>10, <1>12, <1>13, <1>14 DEF BInv

LEMMA ExpirePreserves ==
  ASSUME BillingGiven, BInv, NEW c \in Sessions, CommitExpire(c)
  PROVE  BInv'
<1>1. PICK S : S = session[c].campuses
  OBVIOUS
<1>2. /\ session[c].op = "expire" /\ UNCHANGED <<now, invoice>> /\ Unlocked(c, S)
      /\ session' = [session EXCEPT ![c] = IdleSession]
      /\ raced' = raced \cup {s \in S : \E d \in Sessions \ {c} : s \in Reads(session[d])}
      /\ sub' = [s \in Campuses |-> IF s \in S THEN [sub[s] EXCEPT !.status = "expired"] ELSE sub[s]]
  BY <1>1 DEF CommitExpire, End
<1>3. S \subseteq Known /\ Known \subseteq Campuses
  BY <1>1, <1>2 DEF BInv, ExpireOK, Known
<1>4. \A s \in S : /\ sub'[s] \in Sub /\ sub'[s].start = sub[s].start /\ sub'[s].end = sub[s].end
                   /\ sub'[s].status = "expired"
  BY <1>2, <1>3 DEF BInv, Shapes, Sub
<1>5. \A s \in Campuses \ S : sub'[s] = sub[s]
  BY <1>2
<1>6. sub' \in [Campuses -> Sub] /\ invoice' \in Seq(Invoice)
  BY <1>2, <1>3, <1>4, <1>5 DEF BInv, Shapes
<1>7. /\ \A s : InvoicesOf(s)' = InvoicesOf(s) /\ Pending(s)' = Pending(s)
      /\ Accrues
  BY <1>2 DEF Accrues, InvoicesOf, Pending
<1>8. Known \subseteq Known'
  BY <1>3, <1>4, <1>5 DEF Known, NoSub
<1>9. \A s \in Campuses : RowOK(s)'
  BY <1>2, <1>3, <1>4, <1>5 DEF BInv, RowOK, Known
<1>10. \A i \in DOMAIN invoice' : InvoiceOK(i)'
  BY <1>2, <1>8 DEF BInv, InvoiceOK
<1>11. \A s \in (Campuses \cap S) \ raced' : Orderly(s)'
  <2> SUFFICES ASSUME NEW s \in (Campuses \cap S) \ raced' PROVE Orderly(s)'
    OBVIOUS
  <2>1. Orderly(s) /\ sub'[s].start = sub[s].start
    BY <1>2, <1>4 DEF BInv
  <2> QED
    BY <1>2, <1>7, <2>1 DEF Orderly
<1>12. \A d \in Sessions \ {c} : Locked(d) \cap S = {}
  BY <1>2 DEF Unlocked
<1>13. \A s \in S \ raced' : \A d \in Sessions \ {c} : s \notin Reads(session[d])
  BY <1>2
<1>14. \A s \in Campuses \ S : /\ sub'[s] = sub[s] /\ InvoicesOf(s)' = InvoicesOf(s)
                               /\ \A i \in InvoicesOf(s) : invoice'[i] = invoice[i]
  BY <1>2, <1>5, <1>7
<1>15. \A s \in Campuses : \A i, j \in Pending(s)' : i = j
  BY <1>7 DEF BInv
<1>16. now' = now /\ raced \subseteq raced' /\ session' = [session EXCEPT ![c] = IdleSession]
  BY <1>2
<1> QED
  BY ONLY BillingGiven, BInv, c \in Sessions, <1>6, <1>7, <1>8, <1>9, <1>10, <1>11, <1>12, <1>13, <1>14,
          <1>15, <1>16, EndKeeps
-----------------------------------------------------------------------------
LEMMA SettleIs ==
  ASSUME invoice \in Seq(Invoice), NEW i \in DOMAIN invoice, NEW e \in Events, NEW v, v = Settle(i, e)
  PROVE  /\ v \in Seq(Invoice) /\ DOMAIN v = DOMAIN invoice
         /\ \A j \in DOMAIN invoice \ {i} : v[j] = invoice[j]
         /\ v[i].campus = invoice[i].campus /\ v[i].amount = invoice[i].amount
         /\ v[i].start = invoice[i].start /\ v[i].end = invoice[i].end
         /\ v[i].status = "paid" /\ v[i].by = invoice[i].by \cup {e}
<1>1. PICK x : x = invoice[i]
  OBVIOUS
<1>2. x \in Invoice
  BY <1>1
<1>3. PICK y : y = [x EXCEPT !.status = "paid"]
  OBVIOUS
<1>4. /\ y \in Invoice /\ y.status = "paid" /\ y.by = x.by
      /\ y.campus = x.campus /\ y.amount = x.amount /\ y.start = x.start /\ y.end = x.end
  BY ONLY <1>2, <1>3 DEF Invoice
<1>5. PICK z : z = [y EXCEPT !.by = @ \cup {e}]
  OBVIOUS
<1>6. /\ z \in Invoice /\ z.status = "paid" /\ z.by = x.by \cup {e}
      /\ z.campus = x.campus /\ z.amount = x.amount /\ z.start = x.start /\ z.end = x.end
  BY ONLY e \in Events, <1>4, <1>5 DEF Invoice
<1>7. v = [[invoice EXCEPT ![i] = y] EXCEPT ![i] = z]
  BY <1>1, <1>3, <1>5 DEF Settle
<1>8. v = [invoice EXCEPT ![i] = z]
  BY <1>7
<1>9. DOMAIN v = DOMAIN invoice /\ v[i] = z /\ \A j \in DOMAIN invoice \ {i} : v[j] = invoice[j]
  BY <1>8
<1>10. v \in Seq(Invoice)
  <2>1. DOMAIN v = 1 .. Len(invoice) /\ Len(invoice) \in Nat
    BY <1>9
  <2>2. v = [j \in 1 .. Len(invoice) |-> v[j]]
    BY <1>8, <2>1
  <2>3. \A j \in 1 .. Len(invoice) : v[j] \in Invoice
    BY <1>6, <1>9, <2>1
  <2> QED
    BY <2>1, <2>2, <2>3
<1> QED
  BY <1>1, <1>6, <1>9, <1>10

LEMMA CommitPreserves ==
  ASSUME BillingGiven, BInv, NEW c \in Sessions, Commit(c)
  PROVE  BInv'
<1>1. PICK r, s, w : r = session[c] /\ s = r.campus /\ w = r.write
  OBVIOUS
<1>2. PICK m : m = Merge(sub[s], r.read, w)
  OBVIOUS
<1>3. PICK S : S = IF w = Nothing THEN {} ELSE {s}
  OBVIOUS
<1>4. /\ r.op = "row" /\ now' = now
      /\ r.read = NoSub /\ w # Nothing => s \notin Known
      /\ sub' = [sub EXCEPT ![s] = m]
      /\ invoice' = IF r.settles = NoValue THEN invoice ELSE Settle(r.settles, r.event)
      /\ Unlocked(c, S) /\ session' = [session EXCEPT ![c] = IdleSession]
      /\ raced' = raced \cup {t \in S : \E d \in Sessions \ {c} : t \in Reads(session[d])}
  BY <1>1, <1>2, <1>3 DEF Commit, End
<1>5. /\ s \in Campuses /\ r.read \in Sub /\ Assigns(r.read, w)
      /\ r.read # NoSub => r.read.status # "none" /\ s \in Known
      /\ "start" \in DOMAIN w => w["start"] <= now
      /\ r.settles # NoValue =>
            /\ r.settles \in InvoicesOf(s) /\ r.event \in Events /\ w # Nothing
            /\ Event[r.event].amount \in Nat /\ Event[r.event].amount >= invoice[r.settles].amount
  BY <1>1, <1>4 DEF BInv, RowRequestOK
<1>6. sub[s] \in Sub /\ RowOK(s) /\ (s \in Known <=> sub[s].status # "none")
  BY <1>5, KnownIs DEF BInv, Shapes
<1>7. /\ m \in Sub
      /\ IF "start" \in DOMAIN w THEN m.start = w["start"] /\ m.end = w["end"]
         ELSE m.start = sub[s].start /\ m.end = sub[s].end
      /\ m.status = IF "status" \in DOMAIN w /\ w["status"] # r.read.status THEN w["status"]
                    ELSE sub[s].status
  BY <1>2, <1>5, <1>6, MergeIs
<1>8. w = Nothing => m = sub[s]
  BY <1>2, <1>6, MergeNothing
<1>9. sub' \in [Campuses -> Sub] /\ \A t \in Campuses : sub'[t] = IF t = s THEN m ELSE sub[t]
  BY <1>4, <1>7 DEF BInv, Shapes
<1>10. NoSub.status = "none" /\ (sub[s].status = "none" => w = Nothing \/ m.status # "none")
  <2>1. NoSub.status = "none" /\ (sub[s].status = "none" => r.read.status = "none")
    BY <1>5, <1>6 DEF NoSub
  <2>2. r.read.status = "none" /\ w # Nothing => "status" \in DOMAIN w /\ w["status"] # "none"
    BY <1>5 DEF Assigns
  <2> QED
    BY <1>7, <2>1, <2>2
<1>11. s \in Known => m.status # "none"
  BY <1>5, <1>6, <1>7 DEF Assigns
<1>12. Known \subseteq Known'
  BY <1>9, <1>10, <1>11 DEF Known
<1>13. \A t \in Campuses : RowOK(t)'
  <2>1. m.status = "none" => m = NoSub
    BY <1>6, <1>8, <1>10, <1>11 DEF RowOK
  <2>2. m # NoSub => m.start < m.end
    <3>1. CASE "start" \in DOMAIN w
      BY <1>5, <1>7, <3>1 DEF Assigns
    <3>2. CASE "start" \notin DOMAIN w
      <4>1. s \notin Known => w = Nothing
        BY <1>5, <1>10, <3>2 DEF Assigns
      <4>2. s \notin Known => m = NoSub
        BY <1>5, <1>8, <4>1 DEF Known
      <4> QED
        BY <1>6, <1>7, <3>2, <4>2 DEF RowOK
    <3> QED
      BY <3>1, <3>2
  <2>3. m.start <= now
    BY <1>5, <1>6, <1>7 DEF RowOK
  <2> QED
    BY <1>4, <1>9, <2>1, <2>2, <2>3 DEF BInv, RowOK, Known
<1> DEFINE i == r.settles
           e == r.event
<1>14. i # NoValue => /\ i \in DOMAIN invoice /\ invoice[i].campus = s
                      /\ invoice' \in Seq(Invoice) /\ DOMAIN invoice' = DOMAIN invoice
                      /\ \A j \in DOMAIN invoice \ {i} : invoice'[j] = invoice[j]
                      /\ invoice'[i].campus = invoice[i].campus /\ invoice'[i].amount = invoice[i].amount
                      /\ invoice'[i].start = invoice[i].start /\ invoice'[i].end = invoice[i].end
                      /\ invoice'[i].status = "paid" /\ invoice'[i].by = invoice[i].by \cup {e}
  <2> SUFFICES ASSUME i # NoValue
               PROVE  /\ i \in DOMAIN invoice /\ invoice[i].campus = s
                      /\ invoice' \in Seq(Invoice) /\ DOMAIN invoice' = DOMAIN invoice
                      /\ \A j \in DOMAIN invoice \ {i} : invoice'[j] = invoice[j]
                      /\ invoice'[i].campus = invoice[i].campus /\ invoice'[i].amount = invoice[i].amount
                      /\ invoice'[i].start = invoice[i].start /\ invoice'[i].end = invoice[i].end
                      /\ invoice'[i].status = "paid" /\ invoice'[i].by = invoice[i].by \cup {e}
    OBVIOUS
  <2>1. i \in DOMAIN invoice /\ invoice[i].campus = s /\ e \in Events
    BY <1>5 DEF InvoicesOf
  <2>2. PICK v : v = Settle(i, e)
    OBVIOUS
  <2>3. invoice' = v
    BY <1>4, <2>2
  <2> HIDE DEF i, e
  <2> QED
    BY <2>1, <2>2, <2>3, SettleIs DEF BInv, Shapes
<1>15. i = NoValue => invoice' = invoice
  BY <1>4
<1>16. i # NoValue => /\ e \in Events /\ w # Nothing /\ Event[e].amount \in Nat
                      /\ Event[e].amount >= invoice[i].amount
  BY <1>5
<1>17. i # NoValue /\ s \notin raced => invoice[i].status = "pending"
  BY <1>1, <1>4, <1>5 DEF BInv, ReadsCurrent
<1>18. s \notin raced => r.read = sub[s]
  BY <1>1, <1>4, <1>5 DEF BInv, ReadsCurrent
<1> HIDE DEF i, e
<1>19. /\ DOMAIN invoice' = DOMAIN invoice /\ invoice' \in Seq(Invoice)
       /\ \A j \in DOMAIN invoice :
             /\ invoice'[j].campus = invoice[j].campus /\ invoice'[j].amount = invoice[j].amount
             /\ invoice'[j].start = invoice[j].start /\ invoice'[j].end = invoice[j].end
             /\ invoice'[j].status = "pending" => invoice[j].status = "pending"
             /\ j # i \/ i = NoValue => invoice'[j] = invoice[j]
  BY <1>14, <1>15 DEF BInv, Shapes
<1>20. Accrues
  BY <1>19 DEF Accrues
<1>21. \A j \in DOMAIN invoice' : InvoiceOK(j)'
  <2> SUFFICES ASSUME NEW j \in DOMAIN invoice' PROVE InvoiceOK(j)'
    OBVIOUS
  <2>1. InvoiceOK(j) /\ j \in DOMAIN invoice
    BY <1>19 DEF BInv
  <2>2. CASE j = i /\ i # NoValue
    BY <1>12, <1>14, <1>16, <2>1, <2>2 DEF InvoiceOK
  <2>3. CASE j # i \/ i = NoValue
    BY <1>12, <1>19, <2>1, <2>3 DEF InvoiceOK
  <2> QED
    BY <2>2, <2>3
<1>22. \A t \in Campuses \ S : /\ sub'[t] = sub[t] /\ InvoicesOf(t)' = InvoicesOf(t)
                               /\ \A j \in InvoicesOf(t) : invoice'[j] = invoice[j]
  <2> SUFFICES ASSUME NEW t \in Campuses \ S
               PROVE  /\ sub'[t] = sub[t] /\ InvoicesOf(t)' = InvoicesOf(t)
                      /\ \A j \in InvoicesOf(t) : invoice'[j] = invoice[j]
    OBVIOUS
  <2>1. InvoicesOf(t)' = InvoicesOf(t)
    BY <1>19 DEF InvoicesOf
  <2>2. w = Nothing \/ t # s
    BY <1>3
  <2>3. sub'[t] = sub[t]
    BY <1>8, <1>9, <2>2
  <2>4. \A j \in InvoicesOf(t) : j \in DOMAIN invoice /\ (i = NoValue \/ j # i)
    BY <1>14, <1>16, <2>2 DEF InvoicesOf
  <2> QED
    BY <1>19, <2>1, <2>3, <2>4
<1>23. \A t \in Campuses : \A j, k \in Pending(t)' : j = k
  <2>1. \A t : Pending(t)' \subseteq Pending(t)
    BY <1>19 DEF Pending, InvoicesOf
  <2> QED
    BY <2>1 DEF BInv
<1>24. \A t \in (Campuses \cap S) \ raced' : Orderly(t)'
  <2> SUFFICES ASSUME NEW t \in (Campuses \cap S) \ raced' PROVE Orderly(t)'
    OBVIOUS
  <2>1. t = s /\ s \notin raced /\ w # Nothing /\ Orderly(s)
    BY <1>3, <1>4, <1>5 DEF BInv
  <2>2. sub[s].start <= m.start /\ sub[s].start \in Nat /\ m.start \in Nat
    BY <1>5, <1>6, <1>7, <1>18, <2>1 DEF Assigns, Sub
  <2>3. InvoicesOf(s)' = InvoicesOf(s)
    BY <1>19 DEF InvoicesOf
  <2>4. ASSUME NEW j \in InvoicesOf(s)
        PROVE  /\ IF invoice'[j].status = "paid" THEN \E x \in Events : invoice'[j].by = {x}
                  ELSE invoice'[j].by = {}
               /\ invoice'[j].end <= m.start
    <3>1. /\ IF invoice[j].status = "paid" THEN \E x \in Events : invoice[j].by = {x}
             ELSE invoice[j].by = {}
          /\ invoice[j].end <= sub[s].start /\ j \in DOMAIN invoice
      BY <2>1, <2>4 DEF Orderly, InvoicesOf
    <3>2. invoice[j].end \in Nat
      <4>1. invoice \in Seq(Invoice)
        BY DEF BInv, Shapes
      <4>2. invoice[j] \in Invoice
        BY ONLY <3>1, <4>1
      <4> QED
        BY ONLY <4>2 DEF Invoice
    <3>3. invoice'[j].end <= m.start
      BY <1>19, <2>2, <3>1, <3>2
    <3>4. CASE j = i /\ i # NoValue
      <4>1. invoice'[j].status = "paid" /\ invoice'[j].by = {e} /\ e \in Events
        BY <1>14, <1>16, <1>17, <2>1, <3>1, <3>4
      <4> QED
        BY <3>3, <4>1
    <3>5. CASE j # i \/ i = NoValue
      BY <1>19, <3>1, <3>3, <3>5
    <3> QED
      BY <3>4, <3>5
  <2>5. \A j \in InvoicesOf(s), k \in InvoicesOf(s) : j # k =>
            invoice'[j].end <= invoice'[k].start \/ invoice'[k].end <= invoice'[j].start
    BY <1>19, <2>1 DEF Orderly, InvoicesOf
  <2> QED
    <3>1. sub'[s].start = m.start
      BY <1>5, <1>9
    <3>2. \A j \in InvoicesOf(s)' : \A k \in InvoicesOf(s)' \ {j} :
              invoice'[j].end <= invoice'[k].start \/ invoice'[k].end <= invoice'[j].start
      BY ONLY <2>3, <2>5
    <3>3. Orderly(s)'
      BY ONLY <2>3, <2>4, <3>1, <3>2 DEF Orderly
    <3> QED
      BY <2>1, <3>3
<1>25. \A d \in Sessions \ {c} : Locked(d) \cap S = {}
  BY <1>4 DEF Unlocked
<1>26. \A t \in S \ raced' : \A d \in Sessions \ {c} : t \notin Reads(session[d])
  BY <1>4
<1>27. now' = now /\ raced \subseteq raced' /\ session' = [session EXCEPT ![c] = IdleSession]
       /\ sub' \in [Campuses -> Sub] /\ invoice' \in Seq(Invoice)
  BY <1>4, <1>9, <1>19
<1> QED
  BY ONLY BillingGiven, BInv, c \in Sessions, <1>12, <1>13, <1>20, <1>21, <1>22, <1>23, <1>24, <1>25,
          <1>26, <1>27, EndKeeps
-----------------------------------------------------------------------------
LEMMA AdvanceIs ==
  ASSUME BillingGiven, NEW r \in Sub, r.status \in {"trial", "active"}, r.start < r.end
  PROVE  /\ Assigns(r, Advance(r))
         /\ {"start", "end", "status"} = DOMAIN Advance(r)
         /\ Advance(r)["start"] = r.end /\ Advance(r)["status"] # "none"
         /\ Advance(r)["end"] \in Nat /\ r.end < Advance(r)["end"]
<1>1. r.start \in Nat /\ r.end \in Nat /\ Length[r.plan] \in Nat \ {0}
  BY DEF Sub, BillingGiven
<1>2. PICK w : w = Advance(r)
  OBVIOUS
<1>3. w = [start |-> r.end, end |-> r.end + Length[r.plan],
           status |-> IF r.cape THEN "cancelled" ELSE r.status]
  BY <1>2 DEF Advance
<1>4. /\ DOMAIN w = {"start", "end", "status"}
      /\ w["start"] = r.end /\ w["end"] = r.end + Length[r.plan]
      /\ w["status"] \in {"cancelled", "trial", "active"}
  BY <1>3
<1>5. Assigns(r, w)
  BY <1>1, <1>4 DEF Assigns, Over
<1> QED
  BY <1>1, <1>2, <1>4, <1>5

LEMMA PeriodEndPreserves ==
  ASSUME BillingGiven, BInv, NEW c \in Sessions, CommitPeriodEnd(c)
  PROVE  BInv'
<1>1. PICK r, f, bills : r = session[c] /\ f = r.read /\ bills = r.bills
  OBVIOUS
<1>2. PICK S : S = Billed(bills)
  OBVIOUS
<1>3. /\ r.op = "bill" /\ r.done = DOMAIN f /\ now' = now
      /\ invoice' = invoice \o bills
      /\ sub' = [s \in Campuses |-> IF s \in S THEN Merge(sub[s], f[s], Advance(f[s])) ELSE sub[s]]
      /\ Unlocked(c, S) /\ session' = [session EXCEPT ![c] = IdleSession]
      /\ raced' = raced \cup {t \in S : \E d \in Sessions \ {c} : t \in Reads(session[d])}
  BY <1>1, <1>2 DEF CommitPeriodEnd, End
<1>4. /\ f \in [DOMAIN f -> Sub] /\ DOMAIN f \subseteq Known
      /\ \A s \in DOMAIN f : f[s].status \in {"trial", "active"} /\ f[s].start < f[s].end /\ f[s].end <= now
      /\ bills \in Seq(Invoice)
      /\ \A n \in DOMAIN bills : /\ bills[n].campus \in DOMAIN f
                                 /\ bills[n] = Bill(bills[n].campus, f[bills[n].campus])
                                 /\ Pending(bills[n].campus) = {}
      /\ \A m, n \in DOMAIN bills : bills[m].campus = bills[n].campus => m = n
  BY <1>1, <1>3 DEF BInv, BillOK
<1>5. \A s : s \in S <=> \E n \in DOMAIN bills : bills[n].campus = s
  BY <1>2 DEF Billed, ToSet
<1>6. S \subseteq DOMAIN f /\ Known \subseteq Campuses
  BY <1>4, <1>5 DEF Known
<1>7. PICK L : L = Len(invoice)
  OBVIOUS
<1>8. /\ L \in Nat /\ DOMAIN invoice = 1 .. L /\ Len(bills) \in Nat /\ DOMAIN bills = 1 .. Len(bills)
      /\ invoice' \in Seq(Invoice) /\ DOMAIN invoice' = 1 .. L + Len(bills)
      /\ \A i \in 1 .. L : invoice'[i] = invoice[i]
      /\ \A i \in DOMAIN invoice' \ (1 .. L) : i - L \in DOMAIN bills /\ invoice'[i] = bills[i - L]
  <2>1. invoice \in Seq(Invoice) /\ bills \in Seq(Invoice)
    BY <1>4 DEF BInv, Shapes
  <2> QED
    BY <1>3, <1>7, <2>1
<1>9. Accrues
  BY <1>8 DEF Accrues
<1>10. ASSUME NEW s \in S
       PROVE  /\ sub'[s] \in Sub /\ sub'[s].start = f[s].end /\ sub'[s].start < sub'[s].end
              /\ sub'[s].status # "none"
              /\ f[s] \in Sub /\ f[s].start < f[s].end /\ f[s].end <= now
  <2>1. s \in Campuses /\ sub[s] \in Sub /\ f[s] \in Sub /\ s \in Known
    BY <1>4, <1>6, <1>10 DEF BInv, Shapes
  <2>2. sub[s].status # "none"
    BY <2>1, KnownIs DEF BInv
  <2>3. f[s].status \in {"trial", "active"} /\ f[s].start < f[s].end /\ f[s].end <= now
    BY <1>4, <1>6, <1>10
  <2>4. PICK w, m : w = Advance(f[s]) /\ m = Merge(sub[s], f[s], w)
    OBVIOUS
  <2>5. /\ Assigns(f[s], w) /\ {"start", "end", "status"} = DOMAIN w /\ w["start"] = f[s].end
        /\ w["status"] # "none" /\ f[s].end < w["end"]
    BY <2>1, <2>3, <2>4, AdvanceIs
  <2>6. /\ m \in Sub /\ m.start = f[s].end /\ m.end = w["end"] /\ m.status # "none"
    <3>1. PICK x : x = sub[s]
      OBVIOUS
    <3>2. x \in Sub /\ m = Merge(x, f[s], w)
      BY <2>1, <2>4, <3>1
    <3> QED
      BY <2>1, <2>2, <2>5, <3>1, <3>2, MergeIs
  <2>7. sub'[s] = m
    BY <1>3, <2>1, <2>4
  <2> QED
    BY <2>1, <2>3, <2>5, <2>6, <2>7
<1>11. \A s \in Campuses \ S : sub'[s] = sub[s]
  BY <1>3
<1>12. sub' \in [Campuses -> Sub]
  BY <1>3, <1>10, <1>11 DEF BInv, Shapes
<1>13. Known \subseteq Known'
  BY <1>6, <1>10, <1>11 DEF Known, NoSub
<1>14. \A s \in Campuses : RowOK(s)'
  <2> SUFFICES ASSUME NEW s \in Campuses PROVE RowOK(s)'
    OBVIOUS
  <2>1. CASE s \in S
    BY <1>3, <1>10, <2>1 DEF RowOK, Known
  <2>2. CASE s \notin S
    BY <1>3, <1>11, <2>2 DEF BInv, RowOK, Known
  <2> QED
    BY <2>1, <2>2
<1>15. \A n \in DOMAIN bills : \A s : s = bills[n].campus =>
          /\ s \in S /\ bills[n].start = f[s].start /\ bills[n].end = f[s].end
          /\ bills[n].status = "pending" /\ bills[n].by = {}
  BY <1>4, <1>5 DEF Bill
<1>16. \A i \in DOMAIN invoice' : InvoiceOK(i)'
  <2> SUFFICES ASSUME NEW i \in DOMAIN invoice' PROVE InvoiceOK(i)'
    OBVIOUS
  <2>1. CASE i \in 1 .. L
    BY <1>8, <1>13, <2>1 DEF BInv, InvoiceOK
  <2>2. CASE i \notin 1 .. L
    <3>1. i - L \in DOMAIN bills /\ invoice'[i] = bills[i - L]
      BY <1>8, <2>2
    <3>2. PICK s : s = bills[i - L].campus
      OBVIOUS
    <3>3. /\ s \in S /\ s \in Known' /\ invoice'[i].campus = s
          /\ invoice'[i].start = f[s].start /\ invoice'[i].end = f[s].end /\ invoice'[i].by = {}
      BY <1>4, <1>6, <1>13, <1>15, <3>1, <3>2
    <3>4. f[s].start < f[s].end
      BY <1>10, <3>3
    <3> QED
      BY <3>3, <3>4 DEF InvoiceOK
  <2> QED
    BY <2>1, <2>2
<1>17. \A s \in Campuses : \A i \in InvoicesOf(s)' :
          \/ i \in 1 .. L /\ i \in InvoicesOf(s) /\ invoice'[i] = invoice[i]
          \/ i \notin 1 .. L /\ i - L \in DOMAIN bills /\ bills[i - L].campus = s
             /\ invoice'[i] = bills[i - L] /\ i \in Nat
  BY <1>8 DEF InvoicesOf
<1>18. \A s \in Campuses \ S : /\ sub'[s] = sub[s] /\ InvoicesOf(s)' = InvoicesOf(s)
                               /\ \A i \in InvoicesOf(s) : invoice'[i] = invoice[i]
  <2> SUFFICES ASSUME NEW s \in Campuses \ S
               PROVE  /\ InvoicesOf(s)' = InvoicesOf(s)
                      /\ \A i \in InvoicesOf(s) : invoice'[i] = invoice[i]
    BY <1>11
  <2>1. \A i \in InvoicesOf(s)' : i \in InvoicesOf(s)
    BY <1>5, <1>17
  <2>2. \A i \in InvoicesOf(s) : i \in InvoicesOf(s)' /\ invoice'[i] = invoice[i]
    BY <1>8 DEF InvoicesOf
  <2> QED
    BY <2>1, <2>2
<1>19. ASSUME NEW s \in Campuses, NEW i \in Pending(s)', NEW j \in Pending(s)' PROVE i = j
  <2>1. i \in InvoicesOf(s)' /\ j \in InvoicesOf(s)'
    BY DEF Pending
  <2>2. CASE s \in S
    <3>1. Pending(s) = {}
      BY <1>4, <1>5, <2>2
    <3>2. i \notin 1 .. L /\ j \notin 1 .. L
      BY <1>17, <1>19, <2>1, <3>1 DEF Pending
    <3>3. /\ i - L \in DOMAIN bills /\ bills[i - L].campus = s /\ i \in Nat
          /\ j - L \in DOMAIN bills /\ bills[j - L].campus = s /\ j \in Nat
      BY <1>17, <2>1, <3>2
    <3>4. i - L = j - L
      BY <1>4, <3>3
    <3> QED
      BY <1>8, <3>3, <3>4
  <2>3. CASE s \notin S
    <3>1. i \in Pending(s) /\ j \in Pending(s)
      BY <1>18, <1>19, <2>1, <2>3 DEF Pending
    <3> QED
      BY <3>1 DEF BInv
  <2> QED
    BY <2>2, <2>3
<1>20. \A s \in (Campuses \cap S) \ raced' : Orderly(s)'
  <2> SUFFICES ASSUME NEW s \in (Campuses \cap S) \ raced' PROVE Orderly(s)'
    OBVIOUS
  <2>1. Orderly(s) /\ f[s] = sub[s]
    BY <1>1, <1>3, <1>6 DEF BInv, ReadsCurrent
  <2>2. /\ f[s].start \in Nat /\ f[s].end \in Nat /\ f[s].start < f[s].end /\ sub'[s].start = f[s].end
    BY <1>10 DEF Sub
  <2>3. ASSUME NEW i \in InvoicesOf(s)', i \in 1 .. L
        PROVE  /\ i \in InvoicesOf(s) /\ invoice'[i] = invoice[i]
               /\ invoice[i].start \in Nat /\ invoice[i].end \in Nat /\ invoice[i].end <= f[s].start
    <3>1. i \in InvoicesOf(s) /\ i \in DOMAIN invoice /\ invoice'[i] = invoice[i]
      BY <1>8, <1>17, <2>3
    <3>2. invoice \in Seq(Invoice)
      BY DEF BInv, Shapes
    <3>3. invoice[i] \in Invoice
      BY ONLY <3>1, <3>2
    <3>4. invoice[i].end <= f[s].start
      BY <2>1, <3>1 DEF Orderly
    <3> QED
      BY <3>1, <3>3, <3>4 DEF Invoice
  <2>4. ASSUME NEW i \in InvoicesOf(s)', i \notin 1 .. L
        PROVE  /\ invoice'[i].start = f[s].start /\ invoice'[i].end = f[s].end
               /\ invoice'[i].status = "pending" /\ invoice'[i].by = {}
               /\ i - L \in DOMAIN bills /\ bills[i - L].campus = s /\ i \in Nat
    BY <1>15, <1>17, <2>4
  <2>5. ASSUME NEW i \in InvoicesOf(s)'
        PROVE  /\ IF invoice'[i].status = "paid" THEN \E e \in Events : invoice'[i].by = {e}
                  ELSE invoice'[i].by = {}
               /\ invoice'[i].end <= f[s].end
    <3>1. CASE i \in 1 .. L
      BY <2>1, <2>2, <2>3, <2>5, <3>1 DEF Orderly
    <3>2. CASE i \notin 1 .. L
      BY <2>2, <2>4, <2>5, <3>2
    <3> QED
      BY <3>1, <3>2
  <2>6. ASSUME NEW i \in InvoicesOf(s)', NEW j \in InvoicesOf(s)' \ {i}
        PROVE  invoice'[i].end <= invoice'[j].start \/ invoice'[j].end <= invoice'[i].start
    <3>1. CASE i \in 1 .. L /\ j \in 1 .. L
      BY <2>1, <2>3, <2>6, <3>1 DEF Orderly
    <3>2. CASE i \in 1 .. L /\ j \notin 1 .. L
      BY <2>3, <2>4, <2>6, <3>2
    <3>3. CASE i \notin 1 .. L /\ j \in 1 .. L
      BY <2>3, <2>4, <2>6, <3>3
    <3>4. CASE i \notin 1 .. L /\ j \notin 1 .. L
      <4>1. i - L = j - L /\ i \in Nat /\ j \in Nat
        BY <1>4, <2>4, <2>6, <3>4
      <4> QED
        BY <1>8, <2>6, <4>1
    <3> QED
      BY <3>1, <3>2, <3>3, <3>4
  <2> QED
    BY ONLY <2>2, <2>5, <2>6 DEF Orderly
<1>21. \A d \in Sessions \ {c} : Locked(d) \cap S = {}
  BY <1>3 DEF Unlocked
<1>22. \A s \in S \ raced' : \A d \in Sessions \ {c} : s \notin Reads(session[d])
  BY <1>3
<1>23. now' = now /\ raced \subseteq raced' /\ session' = [session EXCEPT ![c] = IdleSession]
       /\ invoice' \in Seq(Invoice)
  BY <1>3, <1>8
<1>24. \A s \in Campuses : \A i, j \in Pending(s)' : i = j
  BY <1>19
<1> QED
  BY ONLY BillingGiven, BInv, c \in Sessions, <1>9, <1>12, <1>13, <1>14, <1>16, <1>18, <1>20, <1>21,
          <1>22, <1>23, <1>24, EndKeeps
-----------------------------------------------------------------------------
LEMMA StepBilling == BillingGiven /\ BInv /\ [BillingNext]_billingVars => BInv'
<1> SUFFICES ASSUME BillingGiven, BInv, [BillingNext]_billingVars PROVE BInv'
  OBVIOUS
<1>1. CASE Tick \/ UNCHANGED billingVars
  BY <1>1, TickPreserves DEF Tick, billingVars
<1>2. ASSUME NEW c \in Sessions, NEW s \in Campuses,
             \/ GetOrCreateTrial(c, s)
             \/ \E p \in Plans : ChangePlan(c, s, p)
             \/ \E atEnd \in BOOLEAN : Cancel(c, s, atEnd)
             \/ Renew(c, s)
             \/ ExpireOne(c, s)
             \/ LockRow(c, s)
      PROVE  BInv'
  BY <1>2, TrialPreserves, PlanPreserves, CancelPreserves, RenewPreserves, ExpireOnePreserves,
     LockPreserves
<1>3. ASSUME NEW c \in Sessions, NEW e \in Events, PaymentCaptured(c, e) \/ PaymentFailed(c, e)
      PROVE  BInv'
  BY <1>3, CapturedPreserves, FailedPreserves
<1>4. ASSUME NEW c \in Sessions,
             \/ Commit(c) \/ ExpirePastDue(c) \/ CommitExpire(c)
             \/ ProcessPeriodEnd(c) \/ CommitPeriodEnd(c) \/ RollBack(c)
      PROVE  BInv'
  BY <1>4, CommitPreserves, LatePreserves, ExpirePreserves, ListingPreserves, PeriodEndPreserves,
     RollBackPreserves
<1> QED
  BY <1>1, <1>2, <1>3, <1>4 DEF BillingNext

LEMMA BillingGives == BillingGiven
  BY BillingAssumption DEF BillingGiven

(* The ledger of events: each is in it once, and settles one invoice.      *)
SeenInv ==
    /\ now \in 0 .. Horizon /\ seen \subseteq Events
    /\ \A i \in DOMAIN invoice : invoice[i].by \subseteq seen
    /\ \A i, j \in DOMAIN invoice : i # j => invoice[i].by \cap invoice[j].by = {}

LEMMA InitSeen == BillingGiven /\ BillingInit => SeenInv
  BY DEF BillingGiven, BillingInit, SeenInv

(* A request that commits records its event, and marks the invoice that it *)
(* settles, if any, with an event nobody has seen.                         *)
LEMMA CommitSeen ==
  ASSUME BInv, SeenInv, NEW c \in Sessions, Commit(c)
  PROVE  SeenInv'
<1>1. PICK r, s : r = session[c] /\ s = r.campus
  OBVIOUS
<1>2. /\ r.op = "row" /\ now' = now /\ r.event \notin seen
      /\ invoice' = IF r.settles = NoValue THEN invoice ELSE Settle(r.settles, r.event)
      /\ seen' = IF r.event = NoValue THEN seen ELSE seen \cup {r.event}
  BY <1>1 DEF Commit
<1>3. /\ r.event \in Events \cup {NoValue}
      /\ r.settles # NoValue => r.settles \in DOMAIN invoice /\ r.event \in Events
  BY <1>1, <1>2 DEF BInv, RowRequestOK, InvoicesOf
<1>4. CASE r.settles = NoValue
  BY <1>2, <1>3, <1>4 DEF SeenInv
<1>5. CASE r.settles # NoValue
  <2>1. PICK k, e : k = r.settles /\ e = r.event
    OBVIOUS
  <2>2. k \in DOMAIN invoice /\ e \in Events /\ e \notin seen
    BY <1>2, <1>3, <1>5, <2>1
  <2>3. invoice \in Seq(Invoice) /\ invoice[k] \in Invoice
    BY <2>2 DEF BInv, Shapes
  <2>4. invoice' = [invoice EXCEPT ![k].status = "paid", ![k].by = @ \cup {e}]
    BY <1>2, <1>5, <2>1 DEF Settle
  <2>5. /\ DOMAIN invoice' = DOMAIN invoice
        /\ \A i \in DOMAIN invoice : i # k => invoice'[i] = invoice[i]
        /\ invoice'[k].by = invoice[k].by \cup {e}
    BY <2>2, <2>3, <2>4 DEF Invoice
  <2>6. seen' = seen \cup {e}
    BY <1>2, <2>1, <2>2, BillingGives DEF BillingGiven
  <2>7. \A i \in DOMAIN invoice : e \notin invoice[i].by
    BY <2>2 DEF SeenInv
  <2> QED
    BY <1>2, <2>2, <2>5, <2>6, <2>7 DEF SeenInv
<1> QED
  BY <1>4, <1>5

(* A new invoice is paid by nobody yet.                                    *)
LEMMA PeriodEndSeen ==
  ASSUME BInv, SeenInv, NEW c \in Sessions, CommitPeriodEnd(c)
  PROVE  SeenInv'
<1>1. PICK bills : bills = session[c].bills
  OBVIOUS
<1>2. invoice' = invoice \o bills /\ now' = now /\ seen' = seen
  BY <1>1 DEF CommitPeriodEnd
<1>3. bills \in Seq(Invoice) /\ \A n \in DOMAIN bills : bills[n].by = {}
  <2>1. session[c].op = "bill" /\ BillOK(c)
    BY DEF CommitPeriodEnd, BInv
  <2>2. /\ bills \in Seq(Invoice)
        /\ \A n \in DOMAIN bills :
              bills[n] = Bill(bills[n].campus, session[c].read[bills[n].campus])
    BY <1>1, <2>1 DEF BillOK
  <2>3. \A s, r : Bill(s, r).by = {}
    BY DEF Bill
  <2>4. ASSUME NEW n \in DOMAIN bills PROVE bills[n].by = {}
    <3>1. PICK s, r : bills[n] = Bill(s, r)
      BY <2>2
    <3> QED
      BY <2>3, <3>1
  <2> QED
    BY <2>2, <2>4
<1>4. invoice \in Seq(Invoice)
  BY DEF BInv, Shapes
<1>5. PICK L : L = Len(invoice)
  OBVIOUS
<1>6. /\ DOMAIN invoice = 1 .. L /\ DOMAIN invoice' = 1 .. L + Len(bills)
      /\ \A i \in 1 .. L : invoice'[i] = invoice[i]
      /\ \A i \in DOMAIN invoice' \ (1 .. L) : i - L \in DOMAIN bills /\ invoice'[i] = bills[i - L]
  BY <1>2, <1>3, <1>4, <1>5
<1>7. \A i \in DOMAIN invoice' : \/ i \in DOMAIN invoice /\ invoice'[i] = invoice[i]
                                 \/ invoice'[i].by = {}
  BY <1>3, <1>6
<1> QED
  BY <1>2, <1>7 DEF SeenInv

LEMMA StepSeen ==
  ASSUME BillingGiven, BInv, SeenInv, [BillingNext]_billingVars
  PROVE  SeenInv'
<1>1. CASE UNCHANGED <<now, invoice, seen>>
  BY <1>1 DEF SeenInv
<1>2. CASE Tick
  BY <1>2 DEF Tick, BillingGiven, SeenInv
<1>3. ASSUME NEW c \in Sessions, NEW e \in Events, PaymentCaptured(c, e) \/ PaymentFailed(c, e)
      PROVE  UNCHANGED <<now, invoice, seen>>
  BY <1>3 DEF PaymentCaptured, PaymentFailed, Request, Begin
<1>4. ASSUME NEW c \in Sessions, NEW t \in Campuses,
             \/ GetOrCreateTrial(c, t)
             \/ \E p \in Plans : ChangePlan(c, t, p)
             \/ \E atEnd \in BOOLEAN : Cancel(c, t, atEnd)
             \/ Renew(c, t)
             \/ ExpireOne(c, t)
             \/ LockRow(c, t)
      PROVE  UNCHANGED <<now, invoice, seen>>
  BY <1>4 DEF GetOrCreateTrial, ChangePlan, Cancel, Renew, ExpireOne, LockRow, Change, Request, Begin
<1>5. ASSUME NEW c \in Sessions, ExpirePastDue(c) \/ CommitExpire(c) \/ ProcessPeriodEnd(c) \/ RollBack(c)
      PROVE  UNCHANGED <<now, invoice, seen>>
  BY <1>5 DEF ExpirePastDue, CommitExpire, ProcessPeriodEnd, RollBack, Begin
<1>6. CASE UNCHANGED billingVars
  BY <1>1, <1>6 DEF billingVars
<1> QED
  BY <1>1, <1>2, <1>3, <1>4, <1>5, <1>6, CommitSeen, PeriodEndSeen DEF BillingNext

LEMMA BillingInvariance == BillingSpec => []BInv
  BY BillingGives, InitBilling, StepBilling, PTL DEF BillingSpec

LEMMA SeenInvariance == BillingSpec => []SeenInv
  BY BillingGives, BillingInvariance, InitSeen, StepSeen, PTL DEF BillingSpec

(* Rows are of their types, periods end after they start, and an invoice   *)
(* is only paid by events that were recorded.                              *)
THEOREM BillingTyped == BillingSpec => []BillingTypeOK
<1>1. BInv /\ SeenInv => BillingTypeOK
  <2> SUFFICES ASSUME BInv, SeenInv PROVE BillingTypeOK
    OBVIOUS
  <2>1. now \in 0 .. Horizon /\ seen \subseteq Events
    BY DEF SeenInv
  <2>2. sub \in [Campuses -> Sub] /\ invoice \in Seq(Invoice)
    BY DEF BInv, Shapes
  <2>3. \A s \in Known : s \in Campuses /\ sub[s].start < sub[s].end
    BY DEF BInv, RowOK, Known
  <2>4. ASSUME NEW i \in DOMAIN invoice
        PROVE  /\ invoice[i].campus \in Known /\ invoice[i].start < invoice[i].end
               /\ invoice[i].status \in {"pending", "paid"} /\ invoice[i].by \subseteq seen
    <3>1. invoice[i] \in Invoice
      BY <2>2
    <3>2. invoice[i].campus \in Known /\ invoice[i].start < invoice[i].end
      BY DEF BInv, InvoiceOK
    <3>3. invoice[i].status \in {"pending", "paid"}
      BY <3>1 DEF Invoice
    <3>4. invoice[i].by \subseteq seen
      BY DEF SeenInv
    <3> QED
      BY <3>2, <3>3, <3>4
  <2> QED
    BY <2>1, <2>2, <2>3, <2>4 DEF BillingTypeOK
<1> QED
  BY BillingInvariance, SeenInvariance, <1>1, PTL

(* A campus owes at most one invoice, however many runs of the period end, *)
(* requests and webhooks race.                                             *)
THEOREM OwesOnce == BillingSpec => []OneInvoiceOwed
<1>1. BInv => OneInvoiceOwed
  <2> SUFFICES ASSUME BInv, NEW s \in Campuses PROVE Cardinality(Pending(s)) <= 1
    BY DEF OneInvoiceOwed
  <2>1. CASE Pending(s) = {}
    BY <2>1, FS_EmptySet
  <2>2. CASE Pending(s) # {}
    <3>1. PICK i \in Pending(s) : TRUE
      BY <2>2
    <3>2. Pending(s) = {i}
      BY <3>1 DEF BInv
    <3>3. Cardinality({i}) = 1
      BY FS_Singleton
    <3> QED
      BY <3>2, <3>3
  <2> QED
    BY <2>1, <2>2
<1> QED
  BY BillingInvariance, <1>1, PTL

(* A paid invoice was paid in full by events that paid no other, and       *)
(* unless sessions raced on its campus by one, for periods that follow one *)
(* another.                                                                *)
THEOREM RacesAloneMisbill == BillingSpec => []OnlyRacesMisbill
<1>1. BInv /\ SeenInv => OnlyRacesMisbill
  <2> SUFFICES ASSUME BInv, SeenInv PROVE OnlyRacesMisbill
    OBVIOUS
  <2>1. \A i \in DOMAIN invoice : \A e \in invoice[i].by :
           /\ Event[e].amount >= invoice[i].amount
           /\ \A j \in DOMAIN invoice \ {i} : e \notin invoice[j].by
    BY DEF BInv, InvoiceOK, SeenInv
  <2>2. ASSUME NEW s \in Campuses \ raced, NEW i \in InvoicesOf(s)
        PROVE  /\ Cardinality(invoice[i].by) = IF invoice[i].status = "paid" THEN 1 ELSE 0
               /\ invoice[i].end <= sub[s].start
               /\ \A j \in InvoicesOf(s) \ {i} :
                     invoice[i].end <= invoice[j].start \/ invoice[j].end <= invoice[i].start
    <3>1. Orderly(s)
      BY DEF BInv
    <3>2. CASE invoice[i].status = "paid"
      <4>1. PICK e \in Events : invoice[i].by = {e}
        BY <2>2, <3>1, <3>2 DEF Orderly
      <4>2. Cardinality({e}) = 1
        BY FS_Singleton
      <4> QED
        BY <2>2, <3>1, <3>2, <4>1, <4>2 DEF Orderly
    <3>3. CASE invoice[i].status # "paid"
      <4>1. invoice[i].by = {}
        BY <2>2, <3>1, <3>3 DEF Orderly
      <4> QED
        BY <2>2, <3>1, <3>3, <4>1, FS_EmptySet DEF Orderly
    <3> QED
      BY <3>2, <3>3
  <2> QED
    BY <2>1, <2>2 DEF OnlyRacesMisbill
<1> QED
  BY BillingInvariance, SeenInvariance, <1>1, PTL

-----------------------------------------------------------------------------
LEMMA StaysOver ==
  ASSUME BillingGiven, BInv, [BillingNext]_billingVars, NEW s \in Campuses, Over(sub[s]), ~Over(sub'[s])
  PROVE  s \in raced
<1>1. UNCHANGED sub => FALSE
  BY DEF Over
<1>2. \A c \in Sessions : ~CommitExpire(c)
  <2> SUFFICES ASSUME NEW c \in Sessions, CommitExpire(c) PROVE FALSE
    OBVIOUS
  <2>1. sub'[s] = sub[s] \/ sub'[s] = [sub[s] EXCEPT !.status = "expired"]
    BY DEF CommitExpire
  <2>2. sub[s] \in Sub
    BY DEF BInv, Shapes
  <2> QED
    BY <2>1, <2>2 DEF Over, Sub
<1>3. PICK c \in Sessions : Commit(c) \/ CommitPeriodEnd(c)
  <2>1. ~Tick /\ ~UNCHANGED billingVars
    BY <1>1 DEF Tick, billingVars
  <2>2. ASSUME NEW c \in Sessions, NEW e \in Events, PaymentCaptured(c, e) \/ PaymentFailed(c, e)
        PROVE  FALSE
    BY <1>1, <2>2 DEF PaymentCaptured, PaymentFailed, Request, Begin
  <2>3. ASSUME NEW c \in Sessions, NEW t \in Campuses,
               \/ GetOrCreateTrial(c, t)
               \/ \E p \in Plans : ChangePlan(c, t, p)
               \/ \E atEnd \in BOOLEAN : Cancel(c, t, atEnd)
               \/ Renew(c, t)
               \/ ExpireOne(c, t)
               \/ LockRow(c, t)
        PROVE  FALSE
    BY <1>1, <2>3 DEF GetOrCreateTrial, ChangePlan, Cancel, Renew, ExpireOne, LockRow,
         Change, Request, Begin
  <2>4. ASSUME NEW c \in Sessions, ExpirePastDue(c) \/ ProcessPeriodEnd(c) \/ RollBack(c)
        PROVE  FALSE
    BY <1>1, <2>4 DEF ExpirePastDue, ProcessPeriodEnd, RollBack, Begin
  <2> QED
    BY <1>2, <2>1, <2>2, <2>3, <2>4 DEF BillingNext
<1>4. sub[s] \in Sub /\ ~(sub[s].status \in {"trial", "active"})
  BY DEF BInv, Shapes, Over
<1> SUFFICES ASSUME s \notin raced PROVE FALSE
  OBVIOUS
<1>5. CASE Commit(c)
  <2>1. PICK r, w : r = session[c] /\ w = r.write
    OBVIOUS
  <2>2. PICK m : m = Merge(sub[s], r.read, w)
    OBVIOUS
  <2>3. /\ r.op = "row" /\ sub' = [sub EXCEPT ![r.campus] = Merge(sub[r.campus], r.read, w)]
    BY <1>5, <2>1 DEF Commit
  <2>4. r.campus = s /\ sub'[s] = m
    BY <1>1, <2>2, <2>3 DEF BInv, Shapes, Over
  <2>5. r.read = sub[s] /\ r.read \in Sub /\ Assigns(r.read, w)
    BY <2>1, <2>3, <2>4 DEF BInv, ReadsCurrent, RowRequestOK
  <2>6. m.status = IF "status" \in DOMAIN w /\ w["status"] # r.read.status THEN w["status"] ELSE sub[s].status
    BY <1>4, <2>2, <2>5, MergeIs
  <2>7. "status" \in DOMAIN w => w["status"] = "cancelled"
    BY <2>5 DEF Assigns
  <2> QED
    BY <2>4, <2>6, <2>7 DEF Over
<1>6. CASE CommitPeriodEnd(c)
  <2>1. PICK r : r = session[c]
    OBVIOUS
  <2>2. /\ r.op = "bill" /\ s \in Billed(r.bills)
    BY <1>1, <1>6, <2>1 DEF CommitPeriodEnd, Over
  <2>3. s \in DOMAIN r.read /\ r.read[s].status \in {"trial", "active"}
    <3>1. PICK n \in DOMAIN r.bills : r.bills[n].campus = s
      BY <2>2 DEF Billed, ToSet
    <3>2. BillOK(c)
      BY DEF BInv
    <3>3. s \in r.done /\ r.done \subseteq DOMAIN r.read
      BY <2>1, <2>2, <3>1, <3>2 DEF BillOK
    <3> QED
      BY <2>1, <2>2, <3>2, <3>3 DEF BillOK
  <2>4. r.read[s] = sub[s]
    BY <2>1, <2>2, <2>3 DEF BInv, ReadsCurrent
  <2> QED
    BY <1>4, <2>3, <2>4
<1> QED
  BY <1>3, <1>5, <1>6

(* What is over stays over, whatever payments, renewals and jobs arrive,   *)
(* unless a session had read the subscription before it ended.             *)
THEOREM OverStaysOver == BillingSpec => OverIsFinal
<1>1. BInv /\ [BillingNext]_billingVars =>
        [\A s \in Campuses : Over(sub[s]) /\ ~Over(sub'[s]) => s \in raced]_billingVars
  BY BillingGives, StaysOver
<1> QED
  BY BillingInvariance, <1>1, PTL DEF BillingSpec, OverIsFinal
=============================================================================
