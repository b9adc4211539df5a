------------------------------ MODULE Migration -----------------------------
(***************************************************************************)
(* One migration project: its mapping, validation, approval, import,       *)
(* reconciliation, cutover and rollback, asked for by overlapping          *)
(* requests, and the import job that workers execute chunk by chunk.       *)
(*                                                                         *)
(* A request reads the project, checks its status and later writes what it *)
(* touches without looking again (Begin and Commit).  The job commits      *)
(* every chunk; an attempt may fail, its worker may die, and the reaper    *)
(* may give the job to a second worker while the first is still at it.     *)
(***************************************************************************)
EXTENDS Integers, FiniteSets

CONSTANTS
    Sessions, Workers,
    Chunks,         \* number of chunks of the uploaded file
    Existing,       \* chunks whose records the campus has already
    MaxRetries,     \* max_retries of the job
    MaxMishaps,     \* bound: kinds of mishaps after which no request begins
    None

ASSUME MigrationAssumption ==
    /\ Chunks \in Nat /\ MaxRetries \in Nat /\ MaxMishaps \in Nat
    /\ Existing \subseteq 1 .. Chunks
    /\ None \notin Workers

VARIABLES
    project,    \* status, approval, whether it was cut over, whether it has a run
    run,        \* status of the run, "none" before it is created
    rows,       \* records: the chunk, and the attempt that created it (0: none)
    mapped,     \* migration_mappings: the rows the run created
    job,        \* status, retries and the worker whose claim is uncommitted
    worker,     \* what each worker's attempt knows and has done
    session,    \* what each request has read
    mishaps     \* history: "raced" (two requests overlapped on the project),
                \* "disturbed" (a rollback and an attempt overlapped),
                \* "undone" (the run was rolled back by its own endpoint),
                \* "late" (an approval was asked for after the import had started)

vars == <<project, run, rows, mapped, job, worker, session, mishaps>>

Idle == [op |-> "idle"]
Rest == [pc |-> "idle"]

(* create_project, which discovers the file.                               *)
Init ==
    /\ project = [status |-> "MAPPING", approval |-> "none", live |-> FALSE, started |-> FALSE]
    /\ run = "none"
    /\ rows = Existing \X {0}
    /\ mapped = {}
    /\ job = [status |-> "none", retries |-> 0, lock |-> None]
    /\ worker = [w \in Workers |-> Rest]
    /\ session = [c \in Sessions |-> Idle]
    /\ mishaps = {}

(* MIGRATION_TRANSITIONS                                                   *)
Allowed(from) ==
    CASE from = "MAPPING"           -> {"VALIDATING", "DISCOVERING"}
      [] from = "VALIDATING"        -> {"READY", "MAPPING"}
      [] from = "READY"             -> {"IMPORTING", "VALIDATING", "APPROVAL_REQUIRED"}
      [] from = "APPROVAL_REQUIRED" -> {"APPROVED", "VALIDATING", "MAPPING"}
      [] from = "APPROVED"          -> {"IMPORTING", "VALIDATING"}
      [] from = "IMPORTING"         -> {"RECONCILING", "FAILED", "CANCELLED"}
      [] from = "RECONCILING"       -> {"COMPLETED", "FAILED"}
      [] from = "COMPLETED"         -> {"ROLLED_BACK"}
      [] from \in {"FAILED", "CANCELLED", "ROLLED_BACK"} -> {}

Exists(c) == \E n \in 0 .. MaxRetries + 1 : <<c, n>> \in rows

RollingBack == \E c \in Sessions : session[c].op \in {"rollback", "rollback_run"}
Attempted == \E w \in Workers : worker[w].pc # "idle"

-----------------------------------------------------------------------------
(* Requests.                                                               *)
Begin(c, op, read) ==
    /\ session[c] = Idle
    /\ Cardinality(mishaps) < MaxMishaps
    /\ session' = [session EXCEPT ![c] = [op |-> op, read |-> read]]
    /\ UNCHANGED <<project, run, rows, mapped, job, worker, mishaps>>

May(to) == to \in Allowed(project.status)

SaveMapping(c) ==
    /\ \/ project.status \in {"MAPPING", "VALIDATING", "READY", "APPROVED", "APPROVAL_REQUIRED"}
       \/ May("MAPPING")
    /\ Begin(c, "save", None)

(* run_validation does not look at the status.                             *)
RunValidation(c) == Begin(c, "validate", None)

RequestApproval(c) == May("APPROVAL_REQUIRED") /\ Begin(c, "request", None)

Approve(c) == May("APPROVED") /\ project.approval = "required" /\ Begin(c, "approve", None)

RejectApproval(c) == May("VALIDATING") /\ project.approval = "required" /\ Begin(c, "reject", None)

(* Broken variant: the approval is not looked at.                          *)
StartImportUnapproved(c) == May("IMPORTING") /\ Begin(c, "start", job.status)

StartImport(c) ==
    /\ project.approval \notin {"required", "rejected"}
    /\ May("IMPORTING")
    /\ Begin(c, "start", job.status)

Reconcile(c) == project.started /\ project.status = "RECONCILING" /\ Begin(c, "reconcile", None)

Cutover(c) == project.status = "COMPLETED" /\ Begin(c, "cutover", None)

(* An import has a job to cancel, unless it has ended.                     *)
Cancel(c) ==
    Begin(c, "cancel", project.status = "IMPORTING" /\ job.status \notin {"completed", "dead_letter"})

(* Broken variant: a project that was cut over is rolled back as well.     *)
RollbackLive(c) == May("ROLLED_BACK") /\ project.started /\ Begin(c, "rollback", mapped)

Rollback(c) ==
    /\ ~project.live
    /\ May("ROLLED_BACK")
    /\ project.started
    /\ Begin(c, "rollback", mapped)

(* POST /runs/{run_id}/rollback: the run by itself, whatever its project.  *)
RollbackRun(c) == run # "none" /\ Begin(c, "rollback_run", mapped)

(* Session c ends; it wrote the project if touched.                        *)
End(c, touched, what) ==
    /\ session' = [session EXCEPT ![c] = Idle]
    /\ mishaps' = mishaps \cup what \cup
          (IF touched /\ \E d \in Sessions \ {c} : session[d] # Idle THEN {"raced"} ELSE {})

(* The requests that only write the project.                               *)
CommitStatus(c, op, to) ==
    /\ session[c].op = op
    /\ project' = [project EXCEPT
          !.status = to,
          !.approval = CASE op = "request" -> "required"
                         [] op = "approve" -> "approved"
                         [] op = "reject"  -> "rejected"
                         [] OTHER          -> @]
    /\ End(c, TRUE, IF op = "request" /\ job.status # "none" THEN {"late"} ELSE {})
    /\ UNCHANGED <<run, rows, mapped, job, worker>>

CommitCutover(c) ==
    /\ session[c].op = "cutover"
    /\ project' = [project EXCEPT !.live = TRUE]
    /\ End(c, TRUE, {})
    /\ UNCHANGED <<run, rows, mapped, job, worker>>

(* create_job returns the one job the project's identity key ever has; of  *)
(* two requests that create it one fails.                                  *)
CommitStart(c) ==
    /\ session[c].op = "start"
    /\ session[c].read = "none" => job.status = "none"
    /\ job' = IF session[c].read = "none" THEN [job EXCEPT !.status = "pending"] ELSE job
    /\ project' = [project EXCEPT !.status = "IMPORTING"]
    /\ End(c, TRUE, {})
    /\ UNCHANGED <<run, rows, mapped, worker>>

(* The status is set in any case.                                          *)
CommitCancel(c) ==
    /\ session[c].op = "cancel"
    /\ session[c].read => job.lock = None
    /\ job' = IF session[c].read THEN [job EXCEPT !.status = "cancelled"] ELSE job
    /\ project' = [project EXCEPT !.status = "CANCELLED"]
    /\ End(c, TRUE, {})
    /\ UNCHANGED <<run, rows, mapped, worker>>

(* Broken variant: the campus's own records go as well.                    *)
UndoAll(listed) == rows' = {} /\ mapped' = {}

(* The records of the mappings listed go, then all mappings of the run.    *)
Undo(listed) == rows' = rows \ listed /\ mapped' = {}

CommitRollback(c) ==
    LET s == session[c]
        over == s.op = "rollback"
    IN
    /\ s.op \in {"rollback", "rollback_run"}
    /\ Undo(s.read)
    /\ run' = "rolled_back"
    /\ project' = IF over THEN [project EXCEPT !.status = "ROLLED_BACK"] ELSE project
    /\ End(c, over, (IF over THEN {} ELSE {"undone"}) \cup (IF Attempted THEN {"disturbed"} ELSE {}))
    /\ UNCHANGED <<job, worker>>

(* The request fails.                                                      *)
RollBack(c) ==
    /\ session[c] # Idle
    /\ session' = [session EXCEPT ![c] = Idle]
    /\ UNCHANGED <<project, run, rows, mapped, job, worker, mishaps>>

-----------------------------------------------------------------------------
(* The import job.                                                         *)
Known(w) == {x[1] : x \in worker[w].known}

(* The worker claims the job and reads what its run has committed; a run   *)
(* that is completed is not gone through again.                            *)
Claim(w) ==
    /\ worker[w] = Rest
    /\ job.status = "pending" /\ job.lock = None
    /\ job' = [job EXCEPT !.lock = w]
    /\ worker' = [worker EXCEPT ![w] =
          [pc |-> IF run = "completed" THEN "imported" ELSE "importing",
           next |-> 1, known |-> mapped, retries |-> job.retries, committed |-> FALSE]]
    /\ UNCHANGED <<project, run, rows, mapped, session, mishaps>>

(* Worker w commits; with its first commit its claim is visible.           *)
Checkpoint(w, pc, next) ==
    /\ worker' = [worker EXCEPT ![w].pc = pc, ![w].next = next, ![w].committed = TRUE]
    /\ job' = IF worker[w].committed THEN job ELSE [job EXCEPT !.status = "running", !.lock = None]

(* Broken variant: a record that is there already is not looked for.       *)
CreatesBlindly(w, c) == c \notin Known(w)

(* A record is created unless this run did so before the attempt, or one   *)
(* with its natural key is there.                                          *)
Creates(w, c) == c \notin Known(w) /\ ~Exists(c)

ImportChunk(w) ==
    LET c == worker[w].next
        new == IF Creates(w, c) THEN {<<c, worker[w].retries + 1>>} ELSE {}
    IN
    /\ worker[w].pc = "importing" /\ c <= Chunks
    /\ rows' = rows \cup new
    /\ mapped' = mapped \cup new
    /\ run' = IF run = "none" THEN "validating" ELSE run
    /\ project' = [project EXCEPT !.started = TRUE]
    /\ Checkpoint(w, "importing", c + 1)
    /\ mishaps' = mishaps \cup (IF RollingBack THEN {"disturbed"} ELSE {})
    /\ UNCHANGED session

CompleteRun(w) ==
    /\ worker[w].pc = "importing" /\ worker[w].next > Chunks
    /\ run' = "completed"
    /\ Checkpoint(w, "imported", worker[w].next)
    /\ mishaps' = mishaps \cup (IF RollingBack THEN {"disturbed"} ELSE {})
    /\ UNCHANGED <<project, rows, mapped, session>>

(* The attempt of worker w ends, having set the project's status to to.    *)
EndAttempt(w, to, status, retries) ==
    /\ job.lock \in {w, None}
    /\ job' = [status |-> status, retries |-> retries, lock |-> None]
    /\ project' = [project EXCEPT !.status = to]
    /\ worker' = [worker EXCEPT ![w] = Rest]
    /\ mishaps' = mishaps \cup
          (IF to # project.status /\ \E c \in Sessions : session[c] # Idle THEN {"raced"} ELSE {})
    /\ UNCHANGED <<rows, mapped, session>>

(* The project is finalised and the job completed, whatever they are.      *)
Finish(w) ==
    /\ worker[w].pc = "imported"
    /\ EndAttempt(w, "RECONCILING", "completed", job.retries)
    /\ UNCHANGED run

(* The attempt raises: with a commit behind it what it writes about the    *)
(* failure stands, otherwise the savepoint takes it back.                  *)
Fail(w) ==
    LET n == worker[w].retries
        stands == worker[w].committed
    IN
    /\ worker[w].pc # "idle"
    /\ EndAttempt(w, IF stands THEN "FAILED" ELSE project.status,
                  IF n < MaxRetries THEN "pending" ELSE "dead_letter",
                  IF n < MaxRetries THEN n + 1 ELSE job.retries)
    /\ run' = IF stands /\ run # "none" THEN "failed" ELSE run

(* The worker dies, or its session is beyond use.                          *)
Crash(w) ==
    /\ worker[w].pc # "idle"
    /\ worker' = [worker EXCEPT ![w] = Rest]
    /\ job' = IF job.lock = w THEN [job EXCEPT !.lock = None] ELSE job
    /\ UNCHANGED <<project, run, rows, mapped, session, mishaps>>

(* The reaper: the job has not been heard of for long.  A worker at a long *)
(* chunk may still be at it.                                               *)
Reap ==
    /\ job.status = "running"
    /\ job' = IF job.retries < MaxRetries
              THEN [job EXCEPT !.status = "pending", !.retries = @ + 1]
              ELSE [job EXCEPT !.status = "dead_letter"]
    /\ UNCHANGED <<project, run, rows, mapped, worker, session, mishaps>>

-----------------------------------------------------------------------------
Next ==
    \/ \E c \in Sessions :
          \/ SaveMapping(c)
          \/ RunValidation(c)
          \/ RequestApproval(c)
          \/ Approve(c)
          \/ RejectApproval(c)
          \/ StartImport(c)
          \/ Reconcile(c)
          \/ Cutover(c)
          \/ Cancel(c)
          \/ Rollback(c)
          \/ RollbackRun(c)
          \/ CommitStatus(c, "save", "MAPPING")
          \/ CommitStatus(c, "validate", "READY")
          \/ CommitStatus(c, "validate", "VALIDATING")
          \/ CommitStatus(c, "request", "APPROVAL_REQUIRED")
          \/ CommitStatus(c, "approve", "APPROVED")
          \/ CommitStatus(c, "reject", "VALIDATING")
          \/ CommitStatus(c, "reconcile", "COMPLETED")
          \/ CommitCutover(c)
          \/ CommitStart(c)
          \/ CommitCancel(c)
          \/ CommitRollback(c)
          \/ RollBack(c)
    \/ \E w \in Workers :
          \/ Claim(w)
          \/ ImportChunk(w)
          \/ CompleteRun(w)
          \/ Finish(w)
          \/ Fail(w)
          \/ Crash(w)
    \/ Reap

Spec == Init /\ [][Next]_vars

-----------------------------------------------------------------------------
(* Types of the rows.                                                      *)
TypeOK ==
    /\ project.status \in {"MAPPING", "VALIDATING", "READY", "APPROVAL_REQUIRED", "APPROVED", "IMPORTING",
                           "RECONCILING", "COMPLETED", "FAILED", "CANCELLED", "ROLLED_BACK"}
    /\ run \in {"none", "validating", "completed", "failed", "rolled_back"}
    /\ rows \subseteq (1 .. Chunks) \X (0 .. MaxRetries + 1)
    /\ job.status \in {"none", "pending", "running", "completed", "dead_letter", "cancelled"}
    /\ job.retries \in 0 .. MaxRetries
    /\ job.lock \in Workers \cup {None}

(* Nothing is imported twice, whichever attempts overlap, die and resume,  *)
(* whatever was there before and whatever was rolled back in between.      *)
OneRecordPerChunk == \A x, y \in rows : x[1] = y[1] => x = y

Whole == \A c \in 1 .. Chunks : Exists(c)

(* Every record is accounted for: unless a rollback and an attempt met,    *)
(* the records are those the campus had and those the mappings name, so    *)
(* that a rollback takes exactly the import back, and a completed run,     *)
(* resumed and retried as it may be, has imported every chunk.             *)
RowsAreAccounted ==
    "disturbed" \notin mishaps =>
        /\ rows = (Existing \X {0}) \cup mapped
        /\ run = "completed" => Whole

(* A cut-over migration stays: unless requests overlapped, a rollback met  *)
(* an attempt or the run was rolled back by its own endpoint, all of its   *)
(* records are there.                                                      *)
CutoverStands ==
    project.live /\ mishaps \subseteq {"late"} => Whole

(* Reviews are waited for: while an approval is asked for or has been      *)
(* refused, whatever is saved and validated meanwhile, no import has been  *)
(* started and no record written; unless requests overlapped, or the       *)
(* approval was asked for when the import had been started already.        *)
ImportIsApproved ==
    project.approval \in {"required", "rejected"} /\ mishaps \cap {"raced", "late"} = {} =>
        job.status = "none" /\ rows = Existing \X {0}

(* The job of the project keeps to the job queue's abstract specification. *)
AttemptOf(w) ==
    LET of(open) == {[job |-> "import", retries |-> worker[w].retries, open |-> open]} IN
    IF worker[w].pc = "idle" THEN {}
    ELSE IF worker[w].committed THEN of(FALSE) ELSE of(TRUE)

Queue == INSTANCE DurableJobs WITH
    Jobs    <- {"import"},
    Limit   <- [j \in {"import"} |-> MaxRetries],
    Handled <- {"import"},
    Asked   <- {"cancelled"},
    status  <- [j \in {"import"} |-> job.status],
    retries <- [j \in {"import"} |-> job.retries],
    attempt <- [w \in Workers |-> AttemptOf(w)]

ImplementsQueue == Queue!Spec
=============================================================================
