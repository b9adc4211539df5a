-------------------------- MODULE Migration_proofs --------------------------
(***************************************************************************)
(* Proofs that an import creates no record twice, that every record of a   *)
(* migration is accounted for, that a cut-over import stays and that       *)
(* nothing is imported against a review, and that its job keeps to what    *)
(* the job queue promises: for every number of requests and workers, every *)
(* file and every number of retries.                                       *)
(***************************************************************************)
EXTENDS Migration, TLAPS

-----------------------------------------------------------------------------
Row == (1 .. Chunks) \X (0 .. MaxRetries + 1)
Imported == (1 .. Chunks) \X (1 .. MaxRetries + 1)

ProjectStatus == {"MAPPING", "VALIDATING", "READY", "APPROVAL_REQUIRED", "APPROVED", "IMPORTING",
                  "RECONCILING", "COMPLETED", "FAILED", "CANCELLED", "ROLLED_BACK"}
Project == [status : ProjectStatus, approval : {"none", "required", "approved", "rejected"},
            live : BOOLEAN, started : BOOLEAN]

JobStatus == {"none", "pending", "running", "completed", "dead_letter", "cancelled"}
Job == [status : JobStatus, retries : 0 .. MaxRetries, lock : Workers \cup {None}]

Attempt == [pc : {"importing", "imported"}, next : 1 .. Chunks + 1, known : SUBSET Imported,
            retries : 0 .. MaxRetries, committed : BOOLEAN]

Request ==
    {Idle}
    \cup [op : {"save", "validate", "request", "approve", "reject", "reconcile", "cutover"}, read : {None}]
    \cup [op : {"start"}, read : JobStatus]
    \cup [op : {"cancel"}, read : BOOLEAN]
    \cup [op : {"rollback", "rollback_run"}, read : SUBSET Imported]

Types ==
    /\ project \in Project
    /\ run \in {"none", "validating", "completed", "failed", "rolled_back"}
    /\ rows \subseteq Row
    /\ mapped \subseteq Imported
    /\ job \in Job
    /\ worker \in [Workers -> {Rest} \cup Attempt]
    /\ session \in [Sessions -> Request]

(* What an attempt relies on: the chunks before the next one are there,    *)
(* and so is what it skips.                                                *)
WorkerOK(w) ==
    "disturbed" \notin mishaps =>
        /\ worker[w].pc = "importing" => /\ worker[w].known \subseteq rows
                                         /\ \A c \in 1 .. Chunks : c < worker[w].next => Exists(c)
        /\ worker[w].pc = "imported" => Whole

(* What a request relies on: a rollback has listed every mapping, and      *)
(* unless requests overlapped the project is as it was read.               *)
SessionOK(c) ==
    /\ "disturbed" \notin mishaps /\ session[c].op \in {"rollback", "rollback_run"} =>
          mapped \subseteq session[c].read
    /\ "raced" \notin mishaps =>
          /\ session[c].op = "reconcile" => project.status = "RECONCILING"
          /\ session[c].op = "cutover" => project.status = "COMPLETED"
          /\ session[c].op = "rollback" => ~project.live

(* A project that has been imported, or was cut over, has all its records. *)
ProjectOK ==
    mishaps \subseteq {"late"} /\ (project.live \/ project.status \in {"RECONCILING", "COMPLETED"}) => Whole

(* The inductive invariant.                                                *)
MInv ==
    /\ Types
    /\ OneRecordPerChunk
    /\ RowsAreAccounted
    /\ ProjectOK
    /\ \A w \in Workers : WorkerOK(w)
    /\ \A c \in Sessions : SessionOK(c)

-----------------------------------------------------------------------------
LEMMA InitEstablishes == Init => MInv
<1> SUFFICES ASSUME Init PROVE MInv
  OBVIOUS
<1> USE MigrationAssumption DEF Init
<1>1. Types
  <2>1. project \in Project /\ job \in Job /\ mapped \subseteq Imported
    BY DEF Project, ProjectStatus, Job, JobStatus
  <2>2. rows \subseteq Row
    <3>1. Existing \subseteq 1 .. Chunks /\ {0} \subseteq 0 .. MaxRetries + 1
      OBVIOUS
    <3>2. Existing \X {0} \subseteq (1 .. Chunks) \X (0 .. MaxRetries + 1)
      BY ONLY <3>1
    <3> QED
      BY <3>2 DEF Row
  <2>3. worker \in [Workers -> {Rest} \cup Attempt] /\ session \in [Sessions -> Request]
    BY DEF Request
  <2> QED
    BY <2>1, <2>2, <2>3 DEF Types
<1>2. OneRecordPerChunk
  BY DEF OneRecordPerChunk
<1>3. RowsAreAccounted /\ ProjectOK
  BY DEF RowsAreAccounted, ProjectOK
<1>4. \A w \in Workers : WorkerOK(w)
  BY DEF WorkerOK, Rest
<1>5. \A c \in Sessions : SessionOK(c)
  BY DEF SessionOK, Idle
<1> QED
  BY <1>1, <1>2, <1>3, <1>4, <1>5 DEF MInv

(* A request begins, having read the project as it is.                     *)
LEMMA BeginPreserves ==
  ASSUME MInv, NEW c \in Sessions, NEW op, NEW read, Begin(c, op, read),
         [op |-> op, read |-> read] \in Request,
         op \in {"rollback", "rollback_run"} => read = mapped,
         op = "reconcile" => project.status = "RECONCILING",
         op = "cutover" => project.status = "COMPLETED",
         op = "rollback" => ~project.live
  PROVE  MInv'
<1> USE DEF MInv, Begin
<1>1. Types'
  BY DEF Types
<1>2. OneRecordPerChunk' /\ RowsAreAccounted' /\ ProjectOK'
  BY DEF OneRecordPerChunk, RowsAreAccounted, ProjectOK, Whole, Exists
<1>3. ASSUME NEW w \in Workers PROVE WorkerOK(w)'
  BY <1>3 DEF WorkerOK, Whole, Exists
<1>4. ASSUME NEW d \in Sessions PROVE SessionOK(d)'
  <2>1. CASE d = c
    <3>1. session'[d] = [op |-> op, read |-> read]
      BY <2>1 DEF Types
    <3> QED
      BY <3>1 DEF SessionOK
  <2>2. CASE d # c
    BY <1>4, <2>2 DEF SessionOK, Types
  <2> QED
    BY <2>1, <2>2
<1> QED
  BY <1>1, <1>2, <1>3, <1>4

(* A request ends that touched nothing but the project and its job.        *)
LEMMA WritePreserves ==
  ASSUME MInv, NEW c \in Sessions, NEW what, End(c, TRUE, what), project' \in Project, job' \in Job,
         UNCHANGED <<run, rows, mapped, worker>>,
         mishaps \subseteq {"late"} /\ (project'.live \/ project'.status \in {"RECONCILING", "COMPLETED"}) => Whole
  PROVE  MInv'
<1> USE DEF MInv, End
<1>1. Types'
  BY DEF Types, Request
<1>2. mishaps \subseteq mishaps'
  OBVIOUS
<1>3. OneRecordPerChunk' /\ RowsAreAccounted' /\ ProjectOK'
  BY <1>2 DEF OneRecordPerChunk, RowsAreAccounted, ProjectOK, Whole, Exists
<1>4. ASSUME NEW w \in Workers PROVE WorkerOK(w)'
  BY <1>2, <1>4 DEF WorkerOK, Whole, Exists
<1>5. ASSUME NEW d \in Sessions PROVE SessionOK(d)'
  <2>1. CASE session'[d] = Idle
    BY <2>1 DEF SessionOK, Idle
  <2>2. CASE session'[d] # Idle
    <3>1. d # c /\ session'[d] = session[d]
      BY <1>5, <2>2 DEF Types
    <3>2. "raced" \in mishaps'
      BY <1>5, <2>2, <3>1
    <3> QED
      BY <1>2, <1>5, <3>1, <3>2 DEF SessionOK
  <2> QED
    BY <2>1, <2>2
<1> QED
  BY <1>1, <1>3, <1>4, <1>5

(* A request ends without a write.                                         *)
LEMMA RollBackPreserves ==
  ASSUME MInv, NEW c \in Sessions, RollBack(c)
  PROVE  MInv'
<1> USE DEF MInv, RollBack
<1>1. Types'
  BY DEF Types, Request
<1>2. OneRecordPerChunk' /\ RowsAreAccounted' /\ ProjectOK'
  BY DEF OneRecordPerChunk, RowsAreAccounted, ProjectOK, Whole, Exists
<1>3. ASSUME NEW w \in Workers PROVE WorkerOK(w)'
  BY <1>3 DEF WorkerOK, Whole, Exists
<1>4. ASSUME NEW d \in Sessions PROVE SessionOK(d)'
  BY <1>4 DEF SessionOK, Types, Idle
<1> QED
  BY <1>1, <1>2, <1>3, <1>4

(* A rollback takes the records it listed and all mappings.                *)
LEMMA RollbackPreserves ==
  ASSUME MInv, NEW c \in Sessions, CommitRollback(c)
  PROVE  MInv'
<1> DEFINE s == session[c]
           over == s.op = "rollback"
<1> USE DEF MInv
<1>0. /\ s \in Request /\ s.op \in {"rollback", "rollback_run"}
      /\ rows' = rows \ s.read /\ mapped' = {} /\ run' = "rolled_back"
      /\ project' = IF over THEN [project EXCEPT !.status = "ROLLED_BACK"] ELSE project
      /\ session' = [session EXCEPT ![c] = Idle]
      /\ mishaps \subseteq mishaps'
      /\ Attempted => "disturbed" \in mishaps'
      /\ ~over => "undone" \in mishaps'
      /\ over => \A d \in Sessions \ {c} : session[d] # Idle => "raced" \in mishaps'
      /\ UNCHANGED <<job, worker>>
  BY DEF CommitRollback, Undo, End, Types
<1>1. s.read \subseteq Imported
  BY <1>0 DEF Request, Idle
<1>2. project' \in Project
  BY <1>0 DEF Types, Project, ProjectStatus
<1>3. Types'
  BY <1>0, <1>2 DEF Types, Request
<1>4. OneRecordPerChunk'
  BY <1>0 DEF OneRecordPerChunk
<1>5. RowsAreAccounted'
  <2> SUFFICES ASSUME "disturbed" \notin mishaps' PROVE rows' = (Existing \X {0}) \cup mapped'
    BY <1>0 DEF RowsAreAccounted
  <2>1. "disturbed" \notin mishaps
    BY <1>0
  <2>2. rows = (Existing \X {0}) \cup mapped /\ mapped \subseteq s.read
    BY <1>0, <2>1 DEF RowsAreAccounted, SessionOK
  <2>3. (Existing \X {0}) \cap Imported = {}
    BY MigrationAssumption DEF Imported
  <2> QED
    BY <1>0, <1>1, <2>2, <2>3
<1>7. ProjectOK'
  <2> SUFFICES ASSUME mishaps' \subseteq {"late"} PROVE ~project'.live /\ project'.status = "ROLLED_BACK"
    BY DEF ProjectOK
  <2>1. over /\ mishaps \subseteq {"late"}
    BY <1>0
  <2> QED
    BY <1>0, <2>1 DEF SessionOK, Types, Project
<1>8. ASSUME NEW w \in Workers PROVE WorkerOK(w)'
  <2>1. worker[w].pc # "idle" => Attempted
    BY <1>8 DEF Attempted
  <2> QED
    BY <1>0, <2>1, <1>8 DEF WorkerOK
<1>9. ASSUME NEW d \in Sessions PROVE SessionOK(d)'
  <2>1. CASE session'[d] = Idle
    BY <2>1 DEF SessionOK, Idle
  <2>2. CASE session'[d] # Idle
    <3>1. d # c /\ session'[d] = session[d]
      BY <1>0, <1>9, <2>2 DEF Types
    <3>2. CASE over
      BY <1>0, <1>9, <2>2, <3>1, <3>2 DEF SessionOK
    <3>3. CASE ~over
      BY <1>0, <1>9, <3>1, <3>3 DEF SessionOK
    <3> QED
      BY <3>2, <3>3
  <2> QED
    BY <2>1, <2>2
<1> QED
  BY <1>3, <1>4, <1>5, <1>7, <1>8, <1>9

-----------------------------------------------------------------------------
(* The records that are there stay there.                                  *)
LEMMA Monotone ==
  ASSUME rows \subseteq rows'
  PROVE  /\ \A c \in 1 .. Chunks : Exists(c) => Exists(c)'
         /\ Whole => Whole'
  BY DEF Whole, Exists

(* Between two attempts nothing is relied on.                              *)
LEMMA Typed ==
  ASSUME Types, NEW w \in Workers, worker[w].pc # "idle"
  PROVE  worker[w] \in Attempt
  BY DEF Types, Rest

LEMMA ClaimPreserves ==
  ASSUME MInv, NEW w \in Workers, Claim(w)
  PROVE  MInv'
<1> USE DEF MInv, Claim
<1> DEFINE a == [pc |-> IF run = "completed" THEN "imported" ELSE "importing",
                 next |-> 1, known |-> mapped, retries |-> job.retries, committed |-> FALSE]
<1>1. a \in Attempt /\ worker' = [worker EXCEPT ![w] = a]
  BY MigrationAssumption DEF Types, Job, Attempt
<1>2. Types'
  BY <1>1 DEF Types, Job
<1>3. OneRecordPerChunk' /\ RowsAreAccounted' /\ ProjectOK'
  BY DEF OneRecordPerChunk, RowsAreAccounted, ProjectOK, Whole, Exists
<1>4. ASSUME NEW v \in Workers PROVE WorkerOK(v)'
  <2>1. CASE v = w
    <3>1. worker'[v] = a
      BY <1>1, <2>1 DEF Types
    <3>2. "disturbed" \notin mishaps => mapped \subseteq rows /\ (run = "completed" => Whole)
      BY DEF RowsAreAccounted
    <3>3. \A c \in 1 .. Chunks : ~ c < 1
      BY MigrationAssumption
    <3> QED
      BY <3>1, <3>2, <3>3 DEF WorkerOK, Whole, Exists
  <2>2. CASE v # w
    <3>1. worker'[v] = worker[v]
      BY <1>1, <1>4, <2>2 DEF Types
    <3> QED
      BY <1>4, <3>1 DEF WorkerOK, Whole, Exists
  <2> QED
    BY <2>1, <2>2
<1>5. ASSUME NEW c \in Sessions PROVE SessionOK(c)'
  BY <1>5 DEF SessionOK
<1> QED
  BY <1>2, <1>3, <1>4, <1>5

(* What a commit of an attempt leaves of the worker and of the job.        *)
LEMMA CheckpointTyped ==
  ASSUME Types, NEW w \in Workers, NEW pc \in {"importing", "imported"}, NEW next \in 1 .. Chunks + 1,
         worker[w].pc # "idle", Checkpoint(w, pc, next)
  PROVE  /\ job' \in Job
         /\ worker' \in [Workers -> {Rest} \cup Attempt]
         /\ worker'[w].pc = pc /\ worker'[w].next = next /\ worker'[w].known = worker[w].known
         /\ \A v \in Workers \ {w} : worker'[v] = worker[v]
<1> USE DEF Types
<1>1. worker[w] \in Attempt
  BY Typed
<1>2. job' \in Job
  BY DEF Checkpoint, Job, JobStatus
<1>3. worker' = [worker EXCEPT ![w] = [worker[w] EXCEPT !.pc = pc, !.next = next, !.committed = TRUE]]
  BY DEF Checkpoint
<1>4. [worker[w] EXCEPT !.pc = pc, !.next = next, !.committed = TRUE] \in Attempt
  BY <1>1 DEF Attempt
<1> QED
  BY <1>1, <1>2, <1>3, <1>4 DEF Attempt

(* A chunk is imported: its record is created unless it is there.          *)
LEMMA ImportChunkPreserves ==
  ASSUME MInv, NEW w \in Workers, ImportChunk(w)
  PROVE  MInv'
<1> PICK c : c = worker[w].next
  OBVIOUS
<1> DEFINE new == IF Creates(w, c) THEN {<<c, worker[w].retries + 1>>} ELSE {}
<1> USE DEF MInv
<1>0. /\ worker[w].pc = "importing" /\ c = worker[w].next /\ c <= Chunks
      /\ rows' = rows \cup new /\ mapped' = mapped \cup new
      /\ run' = IF run = "none" THEN "validating" ELSE run
      /\ project' = [project EXCEPT !.started = TRUE]
      /\ Checkpoint(w, "importing", c + 1)
      /\ mishaps \subseteq mishaps' /\ mishaps' \subseteq mishaps \cup {"disturbed"}
      /\ RollingBack => "disturbed" \in mishaps'
      /\ session' = session
  BY DEF ImportChunk
<1>1. worker[w] \in Attempt
  BY <1>0, Typed
<1>2. c \in 1 .. Chunks /\ c + 1 \in 1 .. Chunks + 1
  BY <1>0, <1>1, MigrationAssumption DEF Attempt
<1>3. worker[w].retries + 1 \in 1 .. MaxRetries + 1
  BY <1>1, MigrationAssumption DEF Attempt
<1>4. new \subseteq Imported /\ Imported \subseteq Row
  BY <1>2, <1>3 DEF Imported, Row
<1>5. /\ job' \in Job
      /\ worker' \in [Workers -> {Rest} \cup Attempt]
      /\ worker'[w].pc = "importing" /\ worker'[w].next = c + 1 /\ worker'[w].known = worker[w].known
      /\ \A v \in Workers \ {w} : worker'[v] = worker[v]
  BY <1>0, <1>2, CheckpointTyped
<1>6. /\ project' \in Project /\ project'.status = project.status
      /\ project'.approval = project.approval /\ project'.live = project.live
  BY <1>0 DEF Types, Project
<1>7. Types'
  BY <1>0, <1>4, <1>5, <1>6 DEF Types
<1>8. OneRecordPerChunk'
  <2>1. ASSUME Creates(w, c), NEW x \in rows PROVE x[1] # c
    <3>1. x = <<x[1], x[2]>> /\ x[2] \in 0 .. MaxRetries + 1
      BY DEF Types, Row
    <3> QED
      BY <2>1, <3>1 DEF Creates, Exists
  <2>2. CASE Creates(w, c)
    BY <1>0, <2>1, <2>2 DEF OneRecordPerChunk
  <2>3. CASE ~Creates(w, c)
    BY <1>0, <2>3 DEF OneRecordPerChunk
  <2> QED
    BY <2>2, <2>3
<1>9. /\ \A e \in 1 .. Chunks : Exists(e) => Exists(e)'
      /\ Whole => Whole'
  BY <1>0, Monotone
<1>10. RowsAreAccounted' /\ ProjectOK'
  BY <1>0, <1>6, <1>9 DEF RowsAreAccounted, ProjectOK
<1>11. "disturbed" \notin mishaps => Exists(c)'
  <2>1. CASE Creates(w, c)
    <3>1. <<c, worker[w].retries + 1>> \in rows'
      BY <1>0, <2>1
    <3>2. worker[w].retries + 1 \in 0 .. MaxRetries + 1
      BY <1>3
    <3> QED
      BY <3>1, <3>2 DEF Exists
  <2>2. CASE Exists(c)
    BY <1>2, <1>9, <2>2
  <2>3. ASSUME c \in Known(w), "disturbed" \notin mishaps PROVE Exists(c)'
    <3>1. PICK x \in worker[w].known : x[1] = c
      BY <2>3 DEF Known
    <3>2. x \in rows /\ x \in Row
      BY <1>0, <2>3 DEF WorkerOK, Types
    <3>3. x = <<c, x[2]>> /\ x[2] \in 0 .. MaxRetries + 1
      BY <3>1, <3>2 DEF Row
    <3> QED
      BY <1>2, <1>9, <3>2, <3>3 DEF Exists
  <2> QED
    BY <2>1, <2>2, <2>3 DEF Creates
<1>12. ASSUME NEW v \in Workers PROVE WorkerOK(v)'
  <2>1. CASE v = w
    <3> SUFFICES ASSUME "disturbed" \notin mishaps' 
                 PROVE  /\ worker[w].known \subseteq rows'
                        /\ \A e \in 1 .. Chunks : e < c + 1 => Exists(e)'
      BY <1>5, <2>1 DEF WorkerOK
    <3>1. worker[w].known \subseteq rows /\ \A e \in 1 .. Chunks : e < c => Exists(e)
      BY <1>0 DEF WorkerOK
    <3>2. ASSUME NEW e \in 1 .. Chunks, e < c + 1 PROVE Exists(e)'
      <4>1. e < c \/ e = c
        BY <1>2, <3>2
      <4> QED
        BY <1>0, <1>9, <1>11, <3>1, <4>1
    <3> QED
      BY <1>0, <3>1, <3>2
  <2>2. CASE v # w
    <3>1. worker'[v] = worker[v]
      BY <1>5, <1>12, <2>2
    <3> QED
      BY <1>0, <1>9, <1>12, <3>1 DEF WorkerOK
  <2> QED
    BY <2>1, <2>2
<1>13. ASSUME NEW d \in Sessions PROVE SessionOK(d)'
  <2>1. session[d].op \in {"rollback", "rollback_run"} => "disturbed" \in mishaps'
    BY <1>0, <1>13 DEF RollingBack
  <2>2. "raced" \in mishaps' <=> "raced" \in mishaps
    BY <1>0
  <2> QED
    BY <1>0, <1>6, <1>13, <2>1, <2>2 DEF SessionOK
<1> QED
  BY <1>7, <1>8, <1>10, <1>12, <1>13

(* The run is completed: it has gone through every chunk.                  *)
LEMMA CompleteRunPreserves ==
  ASSUME MInv, NEW w \in Workers, CompleteRun(w)
  PROVE  MInv'
<1> USE DEF MInv
<1>0. /\ worker[w].pc = "importing" /\ worker[w].next > Chunks
      /\ run' = "completed"
      /\ Checkpoint(w, "imported", worker[w].next)
      /\ mishaps \subseteq mishaps' /\ mishaps' \subseteq mishaps \cup {"disturbed"}
      /\ UNCHANGED <<project, rows, mapped, session>>
  BY DEF CompleteRun
<1>1. worker[w] \in Attempt
  BY <1>0, Typed
<1>2. /\ job' \in Job
      /\ worker' \in [Workers -> {Rest} \cup Attempt]
      /\ worker'[w].pc = "imported"
      /\ \A v \in Workers \ {w} : worker'[v] = worker[v]
  <2>1. worker[w].next \in 1 .. Chunks + 1
    BY <1>1 DEF Attempt
  <2> QED
    BY <1>0, <2>1, CheckpointTyped
<1>3. Types'
  BY <1>0, <1>2 DEF Types
<1>4. /\ \A e \in 1 .. Chunks : Exists(e) => Exists(e)'
      /\ Whole => Whole'
  BY <1>0, Monotone
<1>5. "disturbed" \notin mishaps => Whole
  <2>1. \A e \in 1 .. Chunks : e < worker[w].next
    BY <1>0, <1>1, MigrationAssumption DEF Attempt
  <2> QED
    BY <1>0, <2>1 DEF WorkerOK, Whole
<1>6. OneRecordPerChunk' /\ RowsAreAccounted' /\ ProjectOK'
  BY <1>0, <1>4, <1>5 DEF OneRecordPerChunk, RowsAreAccounted, ProjectOK
<1>7. ASSUME NEW v \in Workers PROVE WorkerOK(v)'
  <2>1. CASE v = w
    BY <1>0, <1>2, <1>4, <1>5, <2>1 DEF WorkerOK
  <2>2. CASE v # w
    <3>1. worker'[v] = worker[v]
      BY <1>2, <1>7, <2>2
    <3> QED
      BY <1>0, <1>4, <1>7, <3>1 DEF WorkerOK
  <2> QED
    BY <2>1, <2>2
<1>8. ASSUME NEW d \in Sessions PROVE SessionOK(d)'
  BY <1>0, <1>8 DEF SessionOK
<1> QED
  BY <1>3, <1>6, <1>7, <1>8

(* An attempt ends.                                                        *)
LEMMA AttemptEnds ==
  ASSUME MInv, NEW w \in Workers, NEW to \in ProjectStatus, NEW status \in JobStatus,
         NEW retries \in 0 .. MaxRetries, EndAttempt(w, to, status, retries),
         run' \in {"none", "validating", "completed", "failed", "rolled_back"},
         run' = "completed" => run = "completed",
         mishaps \subseteq {"late"} /\ to \in {"RECONCILING", "COMPLETED"} => Whole
  PROVE  MInv'
<1> USE DEF MInv
<1>0. /\ job' = [status |-> status, retries |-> retries, lock |-> None]
      /\ project' = [project EXCEPT !.status = to]
      /\ worker' = [worker EXCEPT ![w] = Rest]
      /\ mishaps \subseteq mishaps' /\ mishaps' \subseteq mishaps \cup {"raced"}
      /\ to # project.status => \A c \in Sessions : session[c] # Idle => "raced" \in mishaps'
      /\ UNCHANGED <<rows, mapped, session>>
  BY DEF EndAttempt
<1>1. /\ project' \in Project /\ project'.status = to
      /\ project'.approval = project.approval /\ project'.live = project.live
  BY <1>0 DEF Types, Project
<1>2. Types'
  BY <1>0, <1>1 DEF Types, Job
<1>3. /\ \A e \in 1 .. Chunks : Exists(e) => Exists(e)'
      /\ Whole => Whole'
  BY <1>0, Monotone
<1>4. OneRecordPerChunk' /\ RowsAreAccounted'
  BY <1>0, <1>1, <1>3 DEF OneRecordPerChunk, RowsAreAccounted
<1>5. ProjectOK'
  BY <1>0, <1>1, <1>3 DEF ProjectOK
<1>6. ASSUME NEW v \in Workers PROVE WorkerOK(v)'
  <2>1. CASE v = w
    <3>1. worker'[v] = Rest
      BY <1>0, <2>1 DEF Types
    <3> QED
      BY <3>1 DEF WorkerOK, Rest
  <2>2. CASE v # w
    <3>1. worker'[v] = worker[v]
      BY <1>0, <1>6, <2>2 DEF Types
    <3> QED
      BY <1>0, <1>3, <1>6, <3>1 DEF WorkerOK
  <2> QED
    BY <2>1, <2>2
<1>7. ASSUME NEW d \in Sessions PROVE SessionOK(d)'
  <2>1. CASE session[d] = Idle
    BY <1>0, <2>1 DEF SessionOK, Idle
  <2>2. CASE session[d] # Idle
    <3>1. "raced" \notin mishaps' => project'.status = project.status
      BY <1>0, <1>1, <1>7, <2>2
    <3> QED
      BY <1>0, <1>1, <1>7, <3>1 DEF SessionOK
  <2> QED
    BY <2>1, <2>2
<1> QED
  BY <1>2, <1>4, <1>5, <1>6, <1>7

(* The job finishes, its run completed and every chunk imported.           *)
LEMMA FinishPreserves ==
  ASSUME MInv, NEW w \in Workers, Finish(w)
  PROVE  MInv'
<1>1. job.retries \in 0 .. MaxRetries
  BY DEF MInv, Types, Job
<1>2. mishaps \subseteq {"late"} => Whole
  BY DEF MInv, WorkerOK, Finish
<1>3. run' = run /\ EndAttempt(w, "RECONCILING", "completed", job.retries)
  BY DEF Finish
<1>4. run \in {"none", "validating", "completed", "failed", "rolled_back"}
  BY DEF MInv, Types
<1>5. "RECONCILING" \in ProjectStatus /\ "completed" \in JobStatus
  BY DEF ProjectStatus, JobStatus
<1> QED
  BY <1>1, <1>2, <1>3, <1>4, <1>5, AttemptEnds

(* The attempt raises.                                                     *)
LEMMA FailPreserves ==
  ASSUME MInv, NEW w \in Workers, Fail(w)
  PROVE  MInv'
<1> DEFINE n == worker[w].retries
           stands == worker[w].committed
           to == IF stands THEN "FAILED" ELSE project.status
           status == IF n < MaxRetries THEN "pending" ELSE "dead_letter"
           retries == IF n < MaxRetries THEN n + 1 ELSE job.retries
<1>1. worker[w] \in Attempt
  BY Typed DEF Fail, MInv
<1>2. retries \in 0 .. MaxRetries
  BY <1>1, MigrationAssumption DEF Attempt, MInv, Types, Job
<1>3. to \in ProjectStatus /\ status \in JobStatus
  BY DEF MInv, Types, Project, ProjectStatus, JobStatus
<1>4. EndAttempt(w, to, status, retries) /\ run' = IF stands /\ run # "none" THEN "failed" ELSE run
  BY DEF Fail
<1>5. /\ run' \in {"none", "validating", "completed", "failed", "rolled_back"}
      /\ run' = "completed" => run = "completed"
  BY <1>4 DEF MInv, Types
<1>7. mishaps \subseteq {"late"} /\ to \in {"RECONCILING", "COMPLETED"} => Whole
  BY DEF MInv, ProjectOK
<1> HIDE DEF to, status, retries
<1> QED
  BY <1>2, <1>3, <1>4, <1>5, <1>7, AttemptEnds

(* The worker dies.                                                        *)
LEMMA CrashPreserves ==
  ASSUME MInv, NEW w \in Workers, Crash(w)
  PROVE  MInv'
<1> USE DEF MInv, Crash
<1>1. Types'
  BY DEF Types, Job
<1>2. OneRecordPerChunk' /\ RowsAreAccounted' /\ ProjectOK'
  BY DEF OneRecordPerChunk, RowsAreAccounted, ProjectOK, Whole, Exists
<1>3. ASSUME NEW v \in Workers PROVE WorkerOK(v)'
  <2>1. CASE v = w
    BY <2>1 DEF WorkerOK, Types, Rest
  <2>2. CASE v # w
    BY <1>3, <2>2 DEF WorkerOK, Types, Whole, Exists
  <2> QED
    BY <2>1, <2>2
<1>4. ASSUME NEW d \in Sessions PROVE SessionOK(d)'
  BY <1>4 DEF SessionOK
<1> QED
  BY <1>1, <1>2, <1>3, <1>4

(* The reaper gives the job to another attempt.                            *)
LEMMA ReapPreserves ==
  ASSUME MInv, Reap
  PROVE  MInv'
<1> USE DEF MInv, Reap
<1>1. Types'
  <2>1. job \in Job
    BY DEF Types
  <2>2. CASE job.retries < MaxRetries
    <3>1. job.retries + 1 \in 0 .. MaxRetries
      BY <2>1, <2>2, MigrationAssumption DEF Job
    <3>2. job' \in Job
      BY <2>1, <2>2, <3>1 DEF Job, JobStatus
    <3> QED
      BY <3>2 DEF Types
  <2>3. CASE ~(job.retries < MaxRetries)
    <3>1. job' \in Job
      BY <2>1, <2>3 DEF Job, JobStatus
    <3> QED
      BY <3>1 DEF Types
  <2> QED
    BY <2>2, <2>3
<1>2. OneRecordPerChunk' /\ RowsAreAccounted' /\ ProjectOK'
  BY DEF OneRecordPerChunk, RowsAreAccounted, ProjectOK, Whole, Exists
<1>3. ASSUME NEW v \in Workers PROVE WorkerOK(v)'
  BY <1>3 DEF WorkerOK, Whole, Exists
<1>4. ASSUME NEW d \in Sessions PROVE SessionOK(d)'
  BY <1>4 DEF SessionOK
<1> QED
  BY <1>1, <1>2, <1>3, <1>4

-----------------------------------------------------------------------------
(* The requests that only write the project's status and approval.         *)
LEMMA CommitStatusPreserves ==
  ASSUME MInv, NEW c \in Sessions, NEW op, NEW to \in ProjectStatus, CommitStatus(c, op, to),
         to # "IMPORTING",
         to = "RECONCILING" => FALSE,
         to = "COMPLETED" => op = "reconcile"
  PROVE  MInv'
<1>1. UNCHANGED <<run, rows, mapped, worker>> /\ job' \in Job
  BY DEF CommitStatus, MInv, Types
<1>4. PICK what : End(c, TRUE, what)
  BY DEF CommitStatus
<1>2. project' \in Project /\ project'.status = to /\ project'.live = project.live
  BY DEF CommitStatus, MInv, Types, Project
<1>3. mishaps \subseteq {"late"} /\ (project'.live \/ project'.status \in {"RECONCILING", "COMPLETED"}) => Whole
  <2>1. mishaps \subseteq {"late"} /\ op = "reconcile" => project.status = "RECONCILING"
    BY DEF CommitStatus, MInv, SessionOK
  <2> QED
    BY <1>2, <2>1 DEF MInv, ProjectOK
<1> QED
  BY <1>1, <1>2, <1>3, <1>4, WritePreserves

LEMMA CommitCutoverPreserves ==
  ASSUME MInv, NEW c \in Sessions, CommitCutover(c)
  PROVE  MInv'
<1>1. End(c, TRUE, {}) /\ UNCHANGED <<run, rows, mapped, worker>> /\ job' \in Job
  BY DEF CommitCutover, MInv, Types
<1>2. project' \in Project /\ project'.status = project.status /\ project'.approval = project.approval
  BY DEF CommitCutover, MInv, Types, Project
<1>3. mishaps \subseteq {"late"} => Whole
  BY DEF CommitCutover, MInv, ProjectOK, SessionOK
<1> QED
  BY <1>1, <1>2, <1>3, WritePreserves

LEMMA CommitStartPreserves ==
  ASSUME MInv, NEW c \in Sessions, CommitStart(c)
  PROVE  MInv'
<1>1. End(c, TRUE, {}) /\ UNCHANGED <<run, rows, mapped, worker>> /\ job' \in Job
  BY DEF CommitStart, MInv, Types, Job, JobStatus
<1>2. /\ project' \in Project /\ project'.status = "IMPORTING"
      /\ project'.approval = project.approval /\ project'.live = project.live
  BY DEF CommitStart, MInv, Types, Project, ProjectStatus
<1>3. mishaps \subseteq {"late"} /\ project.live => Whole
  BY DEF MInv, ProjectOK
<1> QED
  BY <1>1, <1>2, <1>3, WritePreserves

LEMMA CommitCancelPreserves ==
  ASSUME MInv, NEW c \in Sessions, CommitCancel(c)
  PROVE  MInv'
<1>1. End(c, TRUE, {}) /\ UNCHANGED <<run, rows, mapped, worker>> /\ job' \in Job
  BY DEF CommitCancel, MInv, Types, Job, JobStatus
<1>2. /\ project' \in Project /\ project'.status = "CANCELLED" /\ project'.live = project.live
  BY DEF CommitCancel, MInv, Types, Project, ProjectStatus
<1>3. mishaps \subseteq {"late"} /\ project.live => Whole
  BY DEF MInv, ProjectOK
<1> QED
  BY <1>1, <1>2, <1>3, WritePreserves

-----------------------------------------------------------------------------
(* What a request may have read when it begins.                            *)
LEMMA BeginsPreserve ==
  ASSUME MInv, NEW c \in Sessions,
         \/ SaveMapping(c) \/ RunValidation(c) \/ RequestApproval(c) \/ Approve(c)
         \/ RejectApproval(c) \/ StartImport(c) \/ Reconcile(c) \/ Cutover(c)
         \/ Cancel(c) \/ Rollback(c) \/ RollbackRun(c)
  PROVE  MInv'
<1>1. job.status \in JobStatus /\ mapped \in SUBSET Imported
  BY DEF MInv, Types, Job
<1>2. ASSUME NEW op \in {"save", "validate", "request", "approve", "reject"}, Begin(c, op, None)
      PROVE  MInv'
  <2>1. [op |-> op, read |-> None] \in Request
    BY <1>2 DEF Request
  <2> QED
    BY <1>2, <2>1, BeginPreserves
<1>3. CASE StartImport(c)
  <2>1. [op |-> "start", read |-> job.status] \in Request
    BY <1>1 DEF Request
  <2> QED
    BY <1>3, <2>1, BeginPreserves DEF StartImport
<1>4. CASE Reconcile(c)
  <2>1. [op |-> "reconcile", read |-> None] \in Request
    BY DEF Request
  <2> QED
    BY <1>4, <2>1, BeginPreserves DEF Reconcile
<1>5. CASE Cutover(c)
  <2>1. [op |-> "cutover", read |-> None] \in Request
    BY DEF Request
  <2> QED
    BY <1>5, <2>1, BeginPreserves DEF Cutover
<1>6. CASE Cancel(c)
  <2>1. PICK b \in BOOLEAN : Begin(c, "cancel", b)
    BY <1>6 DEF Cancel
  <2>2. [op |-> "cancel", read |-> b] \in Request
    BY DEF Request
  <2> QED
    BY <2>1, <2>2, BeginPreserves
<1>7. CASE Rollback(c)
  <2>1. [op |-> "rollback", read |-> mapped] \in Request
    BY <1>1 DEF Request
  <2> QED
    BY <1>7, <2>1, BeginPreserves DEF Rollback
<1>8. CASE RollbackRun(c)
  <2>1. [op |-> "rollback_run", read |-> mapped] \in Request
    BY <1>1 DEF Request
  <2> QED
    BY <1>8, <2>1, BeginPreserves DEF RollbackRun
<1> QED
  BY <1>2, <1>3, <1>4, <1>5, <1>6, <1>7, <1>8
     DEF SaveMapping, RunValidation, RequestApproval, Approve, RejectApproval

LEMMA StutterPreserves ==
  ASSUME MInv, UNCHANGED vars
  PROVE  MInv'
<1> USE DEF MInv, vars
<1>1. Types'
  BY DEF Types
<1>2. OneRecordPerChunk' /\ RowsAreAccounted' /\ ProjectOK'
  BY DEF OneRecordPerChunk, RowsAreAccounted, ProjectOK, Whole, Exists
<1>3. ASSUME NEW v \in Workers PROVE WorkerOK(v)'
  BY <1>3 DEF WorkerOK, Whole, Exists
<1>4. ASSUME NEW d \in Sessions PROVE SessionOK(d)'
  BY <1>4 DEF SessionOK
<1> QED
  BY <1>1, <1>2, <1>3, <1>4

LEMMA StepPreserves ==
  ASSUME MInv, [Next]_vars
  PROVE  MInv'
<1>1. ASSUME NEW c \in Sessions,
             \/ SaveMapping(c) \/ RunValidation(c) \/ RequestApproval(c) \/ Approve(c)
             \/ RejectApproval(c) \/ StartImport(c) \/ Reconcile(c) \/ Cutover(c)
             \/ Cancel(c) \/ Rollback(c) \/ RollbackRun(c)
      PROVE  MInv'
  BY <1>1, BeginsPreserve
<1>2. ASSUME NEW c \in Sessions,
             NEW to \in {"MAPPING", "READY", "VALIDATING", "APPROVAL_REQUIRED", "APPROVED", "COMPLETED"},
             NEW op, to = "COMPLETED" => op = "reconcile", CommitStatus(c, op, to)
      PROVE  MInv'
  BY <1>2, CommitStatusPreserves DEF ProjectStatus
<1>3. ASSUME NEW c \in Sessions, CommitCutover(c) PROVE MInv'
  BY <1>3, CommitCutoverPreserves
<1>4. ASSUME NEW c \in Sessions, CommitStart(c) PROVE MInv'
  BY <1>4, CommitStartPreserves
<1>5. ASSUME NEW c \in Sessions, CommitCancel(c) PROVE MInv'
  BY <1>5, CommitCancelPreserves
<1>6. ASSUME NEW c \in Sessions, CommitRollback(c) PROVE MInv'
  BY <1>6, RollbackPreserves
<1>7. ASSUME NEW c \in Sessions, RollBack(c) PROVE MInv'
  BY <1>7, RollBackPreserves
<1>8. ASSUME NEW w \in Workers, Claim(w) PROVE MInv'
  BY <1>8, ClaimPreserves
<1>9. ASSUME NEW w \in Workers, ImportChunk(w) PROVE MInv'
  BY <1>9, ImportChunkPreserves
<1>10. ASSUME NEW w \in Workers, CompleteRun(w) PROVE MInv'
  BY <1>10, CompleteRunPreserves
<1>11. ASSUME NEW w \in Workers, Finish(w) PROVE MInv'
  BY <1>11, FinishPreserves
<1>12. ASSUME NEW w \in Workers, Fail(w) PROVE MInv'
  BY <1>12, FailPreserves
<1>13. ASSUME NEW w \in Workers, Crash(w) PROVE MInv'
  BY <1>13, CrashPreserves
<1>14. CASE Reap
  BY <1>14, ReapPreserves
<1>15. CASE UNCHANGED vars
  BY <1>15, StutterPreserves
<1> QED
  BY <1>1, <1>2, <1>3, <1>4, <1>5, <1>6, <1>7, <1>8, <1>9, <1>10, <1>11, <1>12, <1>13, <1>14, <1>15
     DEF Next

(* Every reachable state of a migration satisfies the inductive invariant. *)
THEOREM Invariance == Spec => []MInv
<1>1. Init => MInv
  BY InitEstablishes
<1>2. MInv /\ [Next]_vars => MInv'
  BY StepPreserves
<1> QED
  BY <1>1, <1>2, PTL DEF Spec

(* The types of the project, its run, its records and its job are kept by  *)
(* the requests of project_service.py and by the import job.               *)
THEOREM Typing == Spec => []TypeOK
<1>1. MInv => TypeOK
  BY DEF MInv, Types, TypeOK, Project, ProjectStatus, Job, JobStatus, Row
<1> QED
  BY <1>1, Invariance, PTL

(* _import_row creates no record twice: whichever attempts of the import   *)
(* job overlap, die and resume, a chunk has one record at most.            *)
THEOREM NothingImportedTwice == Spec => []OneRecordPerChunk
<1>1. MInv => OneRecordPerChunk
  BY DEF MInv
<1> QED
  BY <1>1, Invariance, PTL

(* The mappings of a run name exactly the records it created, and a run    *)
(* that is completed has imported every chunk, unless rollback_run and an  *)
(* attempt overlapped.                                                     *)
THEOREM EveryRowAccounted == Spec => []RowsAreAccounted
<1>1. MInv => RowsAreAccounted
  BY DEF MInv
<1> QED
  BY <1>1, Invariance, PTL

(* After cutover the records of the migration stay, unless two requests    *)
(* overlapped, a rollback met an attempt or the run's own rollback         *)
(* endpoint was called.                                                    *)
THEOREM CutoverKeepsRecords == Spec => []CutoverStands
<1>1. MInv => CutoverStands
  BY DEF MInv, ProjectOK, CutoverStands
<1> QED
  BY <1>1, Invariance, PTL

-----------------------------------------------------------------------------
(* The job's row is locked exactly while an attempt has committed nothing, *)
(* and then it still says pending.  A project that is importing has a job. *)
Open(w) == worker[w].pc # "idle" /\ ~worker[w].committed

ClaimIsHeld ==
    /\ \A w \in Workers : job.lock = w <=> Open(w)
    /\ job.lock # None => job.status = "pending"

HasJob(c) ==
    /\ session[c].op = "start" /\ session[c].read # "none" => job.status # "none"
    /\ session[c].op = "cancel" /\ session[c].read => job.status # "none"

LInv ==
    /\ ClaimIsHeld
    /\ project.status = "IMPORTING" => job.status # "none"
    /\ \A c \in Sessions : HasJob(c)

LEMMA InitClaims == Init => LInv
  BY MigrationAssumption DEF Init, LInv, ClaimIsHeld, Open, HasJob, Rest, Idle

(* Steps that leave the attempts alone.                                    *)
LEMMA RequestKeepsClaims ==
  ASSUME LInv, worker' = worker, job'.lock = job.lock,
         job.status # "none" => job'.status # "none",
         job.lock # None => job'.status = "pending",
         project'.status = "IMPORTING" => project.status = "IMPORTING" \/ job'.status # "none",
         \A c \in Sessions : session'[c] = session[c] \/ HasJob(c)'
  PROVE  LInv'
<1>1. ClaimIsHeld'
  BY DEF LInv, ClaimIsHeld, Open
<1>2. \A c \in Sessions : HasJob(c)'
  BY DEF LInv, HasJob
<1> QED
  BY <1>1, <1>2 DEF LInv

(* Steps of the attempt of worker w.                                       *)
LEMMA AttemptKeepsClaims ==
  ASSUME LInv, NEW w \in Workers, session' = session,
         \A v \in Workers \ {w} : worker'[v] = worker[v],
         job.status # "none" => job'.status # "none",
         project'.status = "IMPORTING" => project.status = "IMPORTING",
         \/ job.lock \in {w, None} /\ Open(w)' /\ job'.lock = w /\ job'.status = "pending"
         \/ job.lock \in {w, None} /\ ~Open(w)' /\ job'.lock = None
         \/ ~Open(w) /\ ~Open(w)' /\ job'.lock = job.lock /\ job'.status = job.status
  PROVE  LInv'
<1>1. \A v \in Workers : v # None
  BY MigrationAssumption
<1>2. \A v \in Workers \ {w} : Open(v)' <=> Open(v)
  BY DEF Open
<1>3. ClaimIsHeld
  BY DEF LInv
<1>4. ClaimIsHeld'
  BY <1>1, <1>2, <1>3 DEF ClaimIsHeld
<1>5. \A c \in Sessions : HasJob(c)'
  BY DEF LInv, HasJob
<1> QED
  BY <1>4, <1>5 DEF LInv

LEMMA RequestClaims ==
  ASSUME MInv, LInv, NEW c \in Sessions,
         \/ SaveMapping(c) \/ RunValidation(c) \/ RequestApproval(c) \/ Approve(c)
         \/ RejectApproval(c) \/ StartImport(c) \/ Reconcile(c) \/ Cutover(c)
         \/ Cancel(c) \/ Rollback(c) \/ RollbackRun(c)
         \/ CommitCutover(c) \/ CommitStart(c) \/ CommitCancel(c) \/ CommitRollback(c) \/ RollBack(c)
         \/ \E op, to : to # "IMPORTING" /\ CommitStatus(c, op, to)
  PROVE  LInv'
<1>0. session \in [Sessions -> Request] /\ project \in Project /\ job \in Job
  BY DEF MInv, Types
<1>1. ASSUME NEW op, NEW read, Begin(c, op, read),
             op = "start" /\ read # "none" => job.status # "none",
             op = "cancel" /\ read => job.status # "none"
      PROVE  LInv'
  <2>1. /\ session' = [session EXCEPT ![c] = [op |-> op, read |-> read]]
        /\ UNCHANGED <<project, job, worker>>
    BY <1>1 DEF Begin
  <2>2. /\ session'[c] = [op |-> op, read |-> read]
        /\ \A d \in Sessions \ {c} : session'[d] = session[d]
    BY <1>0, <2>1
  <2>3. session'[c].op = op /\ session'[c].read = read
    BY <2>2
  <2>4. HasJob(c)'
    BY <1>1, <2>1, <2>3 DEF HasJob
  <2>5. job'.lock = job.lock /\ job'.status = job.status /\ project' = project /\ worker' = worker
    BY <2>1
  <2> QED
    BY <2>2, <2>4, <2>5, RequestKeepsClaims DEF LInv, ClaimIsHeld
<1>2. ASSUME session' = [session EXCEPT ![c] = Idle], worker' = worker,
             job'.lock = job.lock,
             job.status # "none" => job'.status # "none",
             job.lock # None => job'.status = "pending",
             project'.status = "IMPORTING" => project.status = "IMPORTING" \/ job'.status # "none"
      PROVE  LInv'
  <2>1. session'[c] = Idle /\ \A d \in Sessions \ {c} : session'[d] = session[d]
    BY <1>0, <1>2
  <2>2. HasJob(c)'
    BY <2>1 DEF HasJob, Idle
  <2> QED
    BY <1>2, <2>1, <2>2, RequestKeepsClaims
<1>3. CASE \/ SaveMapping(c) \/ RunValidation(c) \/ RequestApproval(c) \/ Approve(c)
           \/ RejectApproval(c) \/ Reconcile(c) \/ Cutover(c) \/ Rollback(c) \/ RollbackRun(c)
  <2>1. PICK op \in {"save", "validate", "request", "approve", "reject", "reconcile", "cutover",
                     "rollback", "rollback_run"}, read \in {None, mapped} : Begin(c, op, read)
    BY <1>3 DEF SaveMapping, RunValidation, RequestApproval, Approve, RejectApproval, Reconcile,
                Cutover, Rollback, RollbackRun
  <2> QED
    BY <1>1, <2>1
<1>4. CASE StartImport(c)
  BY <1>1, <1>4 DEF StartImport
<1>5. CASE Cancel(c)
  <2>1. PICK b \in BOOLEAN : Begin(c, "cancel", b) /\ (b => project.status = "IMPORTING")
    BY <1>5 DEF Cancel
  <2>2. b => job.status # "none"
    BY <2>1 DEF LInv
  <2> QED
    BY <1>1, <2>1, <2>2
<1>6. CASE RollBack(c)
  BY <1>2, <1>6 DEF RollBack, LInv, ClaimIsHeld
<1>7. CASE CommitCutover(c)
  <2>1. project'.status = project.status
    BY <1>0, <1>7 DEF CommitCutover, Project
  <2> QED
    BY <1>2, <1>7, <2>1 DEF CommitCutover, End, LInv, ClaimIsHeld
<1>8. CASE CommitRollback(c)
  <2>1. project'.status \in {project.status, "ROLLED_BACK"}
    BY <1>0, <1>8 DEF CommitRollback, Project
  <2> QED
    BY <1>2, <1>8, <2>1 DEF CommitRollback, End, LInv, ClaimIsHeld
<1>9. CASE CommitStart(c)
  <2>1. CASE session[c].read = "none"
    <3>1. job.status = "none" /\ job' = [job EXCEPT !.status = "pending"]
      BY <1>9, <2>1 DEF CommitStart
    <3>2. job'.status = "pending" /\ job'.lock = job.lock
      BY <1>0, <3>1 DEF Job
    <3> QED
      BY <1>2, <1>9, <3>2 DEF CommitStart, End
  <2>2. CASE session[c].read # "none"
    <3>1. job' = job /\ job.status # "none"
      BY <1>9, <2>2 DEF CommitStart, LInv, HasJob
    <3> QED
      BY <1>2, <1>9, <3>1 DEF CommitStart, End, LInv, ClaimIsHeld
  <2> QED
    BY <2>1, <2>2
<1>10. CASE CommitCancel(c)
  <2>1. project'.status = "CANCELLED"
    BY <1>0, <1>10 DEF CommitCancel, Project
  <2>2. CASE session[c].read
    <3>1. job.lock = None /\ job' = [job EXCEPT !.status = "cancelled"]
      BY <1>10, <2>2 DEF CommitCancel
    <3>2. job'.status = "cancelled" /\ job'.lock = job.lock
      BY <1>0, <3>1 DEF Job
    <3> QED
      BY <1>2, <1>10, <2>1, <3>1, <3>2 DEF CommitCancel, End
  <2>3. CASE ~session[c].read
    <3>1. job' = job
      BY <1>10, <2>3 DEF CommitCancel
    <3> QED
      BY <1>2, <1>10, <2>1, <3>1 DEF CommitCancel, End, LInv, ClaimIsHeld
  <2> QED
    BY <2>2, <2>3
<1>11. ASSUME NEW op, NEW to, to # "IMPORTING", CommitStatus(c, op, to)
       PROVE  LInv'
  <2>1. project'.status = to
    BY <1>0, <1>11 DEF CommitStatus, Project
  <2> QED
    BY <1>2, <1>11, <2>1 DEF CommitStatus, End, LInv, ClaimIsHeld
<1> QED
  BY <1>3, <1>4, <1>5, <1>6, <1>7, <1>8, <1>9, <1>10, <1>11

LEMMA WorkClaims ==
  ASSUME MInv, LInv, NEW w \in Workers,
         Claim(w) \/ ImportChunk(w) \/ CompleteRun(w) \/ Finish(w) \/ Fail(w) \/ Crash(w)
  PROVE  LInv'
<1>0. /\ worker \in [Workers -> {Rest} \cup Attempt] /\ project \in Project /\ job \in Job
      /\ job.lock = w <=> Open(w)
      /\ job.lock # None => job.status = "pending"
      /\ w # None
  BY MigrationAssumption DEF MInv, Types, LInv, ClaimIsHeld
<1>1. CASE Claim(w)
  <2> DEFINE a == [pc |-> IF run = "completed" THEN "imported" ELSE "importing",
                   next |-> 1, known |-> mapped, retries |-> job.retries, committed |-> FALSE]
  <2>1. /\ worker' = [worker EXCEPT ![w] = a]
        /\ job.status = "pending" /\ job.lock = None
        /\ job' = [job EXCEPT !.lock = w]
        /\ UNCHANGED <<project, session>>
    BY <1>1 DEF Claim
  <2>2. worker'[w] = a /\ \A v \in Workers \ {w} : worker'[v] = worker[v]
    BY <1>0, <2>1
  <2>3. Open(w)'
    BY <2>2 DEF Open
  <2>4. job'.lock = w /\ job'.status = "pending"
    BY <1>0, <2>1 DEF Job
  <2> QED
    BY <2>1, <2>2, <2>3, <2>4, AttemptKeepsClaims
<1>2. ASSUME NEW pc \in {"importing", "imported"}, NEW next, Checkpoint(w, pc, next),
             worker[w].pc # "idle", session' = session, project'.status = project.status
      PROVE  LInv'
  <2>1. worker[w] \in Attempt
    BY <1>2, Typed DEF MInv
  <2>2. worker' = [worker EXCEPT ![w] = [worker[w] EXCEPT !.pc = pc, !.next = next, !.committed = TRUE]]
    BY <1>0, <1>2 DEF Checkpoint
  <2>3. /\ worker'[w] = [worker[w] EXCEPT !.pc = pc, !.next = next, !.committed = TRUE]
        /\ \A v \in Workers \ {w} : worker'[v] = worker[v]
    BY <1>0, <2>2
  <2>4. worker'[w].committed = TRUE
    BY <2>1, <2>3 DEF Attempt
  <2>5. ~Open(w)'
    BY <2>4 DEF Open
  <2>6. CASE worker[w].committed
    <3>1. job' = job
      BY <1>2, <2>6 DEF Checkpoint
    <3>2. ~Open(w)
      BY <2>6 DEF Open
    <3> QED
      BY <1>2, <2>3, <2>5, <3>1, <3>2, AttemptKeepsClaims
  <2>7. CASE ~worker[w].committed
    <3>1. job' = [job EXCEPT !.status = "running", !.lock = None]
      BY <1>2, <2>7 DEF Checkpoint
    <3>2. job'.status = "running" /\ job'.lock = None
      BY <1>0, <3>1 DEF Job
    <3>3. job.lock = w
      BY <1>0, <1>2, <2>7 DEF Open
    <3> QED
      BY <1>2, <2>3, <2>5, <3>2, <3>3, AttemptKeepsClaims
  <2> QED
    BY <2>6, <2>7
<1>3. CASE ImportChunk(w) \/ CompleteRun(w)
  <2>1. /\ project'.status = project.status /\ session' = session /\ worker[w].pc # "idle"
    BY <1>0, <1>3 DEF ImportChunk, CompleteRun, Project
  <2>2. PICK pc, next : pc \in {"importing", "imported"} /\ Checkpoint(w, pc, next)
    BY <1>3 DEF ImportChunk, CompleteRun
  <2> QED
    BY <1>2, <2>1, <2>2
<1>4. ASSUME NEW to, NEW status, NEW n, status # "none", to = "IMPORTING" => project.status = "IMPORTING",
             EndAttempt(w, to, status, n)
      PROVE  LInv'
  <2>1. /\ job.lock \in {w, None}
        /\ job' = [status |-> status, retries |-> n, lock |-> None]
        /\ project' = [project EXCEPT !.status = to]
        /\ worker' = [worker EXCEPT ![w] = Rest]
        /\ session' = session
    BY <1>4 DEF EndAttempt
  <2>2. worker'[w] = Rest /\ \A v \in Workers \ {w} : worker'[v] = worker[v]
    BY <1>0, <2>1
  <2>3. project'.status = to /\ job'.status = status /\ job'.lock = None
    BY <1>0, <2>1 DEF Project
  <2>4. ~Open(w)'
    BY <2>2 DEF Open, Rest
  <2> QED
    BY <1>4, <2>1, <2>2, <2>3, <2>4, AttemptKeepsClaims
<1>5. CASE Finish(w)
  BY <1>4, <1>5 DEF Finish
<1>6. CASE Fail(w)
  <2>1. PICK to, status, n :
           /\ to \in {"FAILED", project.status} /\ status \in {"pending", "dead_letter"}
           /\ EndAttempt(w, to, status, n)
    BY <1>6 DEF Fail
  <2> QED
    BY <1>4, <2>1
<1>7. CASE Crash(w)
  <2>1. /\ worker' = [worker EXCEPT ![w] = Rest]
        /\ job' = IF job.lock = w THEN [job EXCEPT !.lock = None] ELSE job
        /\ UNCHANGED <<project, session>>
    BY <1>7 DEF Crash
  <2>2. worker'[w] = Rest /\ \A v \in Workers \ {w} : worker'[v] = worker[v]
    BY <1>0, <2>1
  <2>3. ~Open(w)'
    BY <2>2 DEF Open, Rest
  <2>4. CASE job.lock = w
    <3>1. job'.lock = None /\ job'.status = job.status
      BY <1>0, <2>1, <2>4 DEF Job
    <3> QED
      BY <2>1, <2>2, <2>3, <2>4, <3>1, AttemptKeepsClaims
  <2>5. CASE job.lock # w
    <3>1. ~Open(w) /\ job' = job
      BY <1>0, <2>1, <2>5
    <3> QED
      BY <2>1, <2>2, <2>3, <3>1, AttemptKeepsClaims
  <2> QED
    BY <2>4, <2>5
<1> QED
  BY <1>1, <1>3, <1>5, <1>6, <1>7

LEMMA ClaimsStep ==
  ASSUME MInv, LInv, [Next]_vars
  PROVE  LInv'
<1>1. CASE UNCHANGED vars
  BY <1>1 DEF vars, LInv, ClaimIsHeld, Open, HasJob
<1>2. CASE Reap
  <2>1. /\ job.status = "running"
        /\ job' = IF job.retries < MaxRetries
                  THEN [job EXCEPT !.status = "pending", !.retries = @ + 1]
                  ELSE [job EXCEPT !.status = "dead_letter"]
        /\ UNCHANGED <<project, worker, session>>
    BY <1>2 DEF Reap
  <2>2. job \in Job
    BY DEF MInv, Types
  <2>3. job'.lock = job.lock /\ job'.status # "none"
    <3>1. CASE job.retries < MaxRetries
      BY <2>1, <2>2, <3>1 DEF Job
    <3>2. CASE ~(job.retries < MaxRetries)
      BY <2>1, <2>2, <3>2 DEF Job
    <3> QED
      BY <3>1, <3>2
  <2>4. job.lock = None
    BY <2>1 DEF LInv, ClaimIsHeld
  <2> QED
    BY <2>1, <2>3, <2>4, RequestKeepsClaims
<1> QED
  BY <1>1, <1>2, RequestClaims, WorkClaims DEF Next

-----------------------------------------------------------------------------
(* Reviews.  Before the import is started nothing is written, and a review *)
(* that was asked for then keeps it from being started.                    *)
Asked(c) ==
    "raced" \notin mishaps =>
        /\ session[c].op = "start" => project.approval \notin {"required", "rejected"}
        /\ session[c].op = "reject" => project.approval \in {"required", "rejected"}

AInv ==
    /\ job.status = "none" => rows = Existing \X {0} /\ ~Attempted
    /\ ImportIsApproved
    /\ \A c \in Sessions : Asked(c)

LEMMA InitReview == Init => AInv
<1> SUFFICES ASSUME Init PROVE AInv
  OBVIOUS
<1>1. ~Attempted
  BY DEF Init, Attempted, Rest
<1>2. \A c \in Sessions : Asked(c)
  BY DEF Init, Asked, Idle
<1> QED
  BY <1>1, <1>2 DEF Init, AInv, ImportIsApproved

(* A request begins, fails or commits while no other is under way; or the  *)
(* others are on record as raced.                                          *)
LEMMA RequestReviews ==
  ASSUME MInv, AInv, NEW c \in Sessions, session' \in [Sessions -> Request],
         mishaps \subseteq mishaps', worker' = worker,
         job'.status = "none" => job.status = "none" /\ rows' = rows,
         \A d \in Sessions \ {c} :
             session'[d] = session[d] /\ (project' = project \/ session[d] = Idle \/ "raced" \in mishaps'),
         Asked(c)',
         mishaps' \cap {"raced", "late"} = {} /\ project'.approval \in {"required", "rejected"} =>
             job'.status = "none"
  PROVE  AInv'
<1>1. Attempted' <=> Attempted
  BY DEF Attempted
<1>2. job'.status = "none" => rows' = Existing \X {0} /\ ~Attempted'
  BY <1>1 DEF AInv
<1>3. ImportIsApproved'
  BY <1>2 DEF ImportIsApproved
<1>4. ASSUME NEW d \in Sessions PROVE Asked(d)'
  <2>1. CASE d = c
    BY <2>1
  <2>2. CASE d # c /\ session[d] = Idle
    BY <2>2 DEF Asked, Idle
  <2>3. CASE d # c /\ project' = project
    BY <2>3 DEF Asked, AInv
  <2>4. CASE "raced" \in mishaps'
    BY <2>4 DEF Asked
  <2> QED
    BY <2>1, <2>2, <2>3, <2>4
<1> QED
  BY <1>2, <1>3, <1>4 DEF AInv

LEMMA BeginsReview ==
  ASSUME MInv, AInv, NEW c \in Sessions, NEW op, NEW read, Begin(c, op, read), session' \in [Sessions -> Request],
         op = "start" => project.approval \notin {"required", "rejected"},
         op = "reject" => project.approval = "required"
  PROVE  AInv'
<1>1. session \in [Sessions -> Request]
  BY DEF MInv, Types
<1>2. /\ session' = [session EXCEPT ![c] = [op |-> op, read |-> read]]
      /\ UNCHANGED <<project, run, rows, mapped, job, worker, mishaps>>
  BY DEF Begin
<1>3. session'[c] = [op |-> op, read |-> read] /\ \A d \in Sessions \ {c} : session'[d] = session[d]
  BY <1>1, <1>2
<1>4. Asked(c)'
  BY <1>2, <1>3 DEF Asked
<1>5. mishaps' \cap {"raced", "late"} = {} /\ project'.approval \in {"required", "rejected"} => job'.status = "none"
  BY <1>2 DEF AInv, ImportIsApproved
<1> QED
  BY <1>2, <1>3, <1>4, <1>5, RequestReviews

(* A request that ends, having written the project or not.                 *)
LEMMA EndsReview ==
  ASSUME MInv, AInv, NEW c \in Sessions, NEW touched, NEW what, End(c, touched, what), worker' = worker,
         job'.status = "none" => job.status = "none" /\ rows' = rows,
         touched \/ project' = project,
         mishaps' \cap {"raced", "late"} = {} /\ project'.approval \in {"required", "rejected"} =>
             job'.status = "none"
  PROVE  AInv'
<1>1. session \in [Sessions -> Request]
  BY DEF MInv, Types
<1>2. /\ session' = [session EXCEPT ![c] = Idle] /\ mishaps \subseteq mishaps'
      /\ \A d \in Sessions \ {c} : touched /\ session[d] # Idle => "raced" \in mishaps'
  BY DEF End
<1>3. session' \in [Sessions -> Request] /\ session'[c] = Idle /\ \A d \in Sessions \ {c} : session'[d] = session[d]
  BY <1>1, <1>2 DEF Request
<1>4. Asked(c)'
  BY <1>3 DEF Asked, Idle
<1> QED
  BY <1>2, <1>3, <1>4, RequestReviews

LEMMA RequestStepReviews ==
  ASSUME MInv, LInv, AInv, MInv', NEW c \in Sessions,
         \/ SaveMapping(c) \/ RunValidation(c) \/ RequestApproval(c) \/ Approve(c)
         \/ RejectApproval(c) \/ StartImport(c) \/ Reconcile(c) \/ Cutover(c)
         \/ Cancel(c) \/ Rollback(c) \/ RollbackRun(c)
         \/ CommitCutover(c) \/ CommitStart(c) \/ CommitCancel(c) \/ CommitRollback(c) \/ RollBack(c)
         \/ \E op, to : CommitStatus(c, op, to)
  PROVE  AInv'
<1>0. /\ session' \in [Sessions -> Request] /\ session \in [Sessions -> Request]
      /\ project \in Project /\ job \in Job
  BY DEF MInv, Types
<1>1. CASE \/ SaveMapping(c) \/ RunValidation(c) \/ RequestApproval(c) \/ Approve(c)
           \/ Reconcile(c) \/ Cutover(c) \/ Rollback(c) \/ RollbackRun(c) \/ Cancel(c)
  <2>1. PICK op, read : Begin(c, op, read) /\ op \notin {"start", "reject"}
    BY <1>1 DEF SaveMapping, RunValidation, RequestApproval, Approve, Reconcile, Cutover, Rollback,
                RollbackRun, Cancel
  <2> QED
    BY <1>0, <2>1, BeginsReview
<1>2. CASE StartImport(c)
  BY <1>0, <1>2, BeginsReview DEF StartImport
<1>3. CASE RejectApproval(c)
  BY <1>0, <1>3, BeginsReview DEF RejectApproval
<1>4. CASE CommitCutover(c)
  <2>1. End(c, TRUE, {}) /\ UNCHANGED <<rows, job, worker>> /\ project'.approval = project.approval
    BY <1>0, <1>4 DEF CommitCutover, Project
  <2>2. mishaps \subseteq mishaps'
    BY <2>1 DEF End
  <2> QED
    BY <2>1, <2>2, EndsReview DEF AInv, ImportIsApproved
<1>5. CASE CommitStart(c)
  <2>1. /\ End(c, TRUE, {}) /\ worker' = worker /\ session[c].op = "start"
        /\ project'.approval = project.approval
    BY <1>0, <1>5 DEF CommitStart, Project
  <2>2. mishaps \subseteq mishaps'
    BY <2>1 DEF End
  <2>3. "raced" \notin mishaps => project.approval \notin {"required", "rejected"}
    BY <2>1 DEF AInv, Asked
  <2>4. job'.status # "none"
    <3>1. CASE session[c].read = "none"
      BY <1>0, <1>5, <3>1 DEF CommitStart, Job
    <3>2. CASE session[c].read # "none"
      BY <1>5, <2>1, <3>2 DEF CommitStart, LInv, HasJob
    <3> QED
      BY <3>1, <3>2
  <2> QED
    BY <2>1, <2>2, <2>3, <2>4, EndsReview
<1>6. CASE CommitCancel(c)
  <2>1. /\ End(c, TRUE, {}) /\ worker' = worker /\ rows' = rows /\ session[c].op = "cancel"
        /\ project'.approval = project.approval
    BY <1>0, <1>6 DEF CommitCancel, Project
  <2>2. mishaps \subseteq mishaps'
    BY <2>1 DEF End
  <2>3. job'.status = "none" <=> job.status = "none"
    <3>1. CASE session[c].read
      BY <1>0, <1>6, <2>1, <3>1 DEF CommitCancel, LInv, HasJob, Job
    <3>2. CASE ~session[c].read
      BY <1>6, <3>2 DEF CommitCancel
    <3> QED
      BY <3>1, <3>2
  <2> QED
    BY <2>1, <2>2, <2>3, EndsReview DEF AInv, ImportIsApproved
<1>7. CASE CommitRollback(c)
  <2>1. PICK touched, what : End(c, touched, what) /\ (touched \/ project' = project)
    BY <1>7 DEF CommitRollback
  <2>2. mishaps \subseteq mishaps'
    BY <2>1 DEF End
  <2>3. job' = job /\ worker' = worker /\ project'.approval = project.approval
    BY <1>0, <1>7 DEF CommitRollback, Project
  <2>4. job.status = "none" => rows' = rows
    <3>1. rows' = rows \ session[c].read /\ session[c].op \in {"rollback", "rollback_run"}
      BY <1>7 DEF CommitRollback, Undo
    <3>2. session[c].read \subseteq Imported
      BY <1>0, <3>1 DEF Request, Idle
    <3>3. (Existing \X {0}) \cap Imported = {}
      BY MigrationAssumption DEF Imported
    <3> QED
      BY <3>1, <3>2, <3>3 DEF AInv
  <2> QED
    BY <2>1, <2>2, <2>3, <2>4, EndsReview DEF AInv, ImportIsApproved
<1>8. CASE RollBack(c)
  <2>1. session' = [session EXCEPT ![c] = Idle] /\ UNCHANGED <<project, rows, job, worker, mishaps>>
    BY <1>8 DEF RollBack
  <2>2. session'[c] = Idle /\ \A d \in Sessions \ {c} : session'[d] = session[d]
    BY <1>0, <2>1
  <2>3. Asked(c)'
    BY <2>2 DEF Asked, Idle
  <2>4. mishaps' \cap {"raced", "late"} = {} /\ project'.approval \in {"required", "rejected"} => job'.status = "none"
    BY <2>1 DEF AInv, ImportIsApproved
  <2> QED
    BY <1>0, <2>1, <2>2, <2>3, <2>4, RequestReviews
<1>9. ASSUME NEW op, NEW to, CommitStatus(c, op, to) PROVE AInv'
  <2>1. /\ End(c, TRUE, IF op = "request" /\ job.status # "none" THEN {"late"} ELSE {})
        /\ UNCHANGED <<rows, job, worker>> /\ session[c].op = op
        /\ project'.approval = CASE op = "request" -> "required"
                                 [] op = "approve" -> "approved"
                                 [] op = "reject"  -> "rejected"
                                 [] OTHER          -> project.approval
    BY <1>0, <1>9 DEF CommitStatus, Project
  <2>2. mishaps \subseteq mishaps' /\ (op = "request" /\ job.status # "none" => "late" \in mishaps')
    BY <2>1 DEF End
  <2>3. "raced" \notin mishaps /\ op = "reject" => project.approval \in {"required", "rejected"}
    BY <2>1 DEF AInv, Asked
  <2>4. mishaps' \cap {"raced", "late"} = {} /\ project'.approval \in {"required", "rejected"} => job.status = "none"
    <3>1. CASE op = "request"
      BY <2>2, <3>1
    <3>2. CASE op = "reject"
      BY <2>2, <2>3, <3>2 DEF AInv, ImportIsApproved
    <3>3. CASE op = "approve"
      BY <2>1, <3>3
    <3>4. CASE op \notin {"request", "reject", "approve"}
      BY <2>1, <2>2, <3>4 DEF AInv, ImportIsApproved
    <3> QED
      BY <3>1, <3>2, <3>3, <3>4
  <2> QED
    BY <2>1, <2>4, EndsReview
<1> QED
  BY <1>1, <1>2, <1>3, <1>4, <1>5, <1>6, <1>7, <1>8, <1>9

(* The job exists where a worker or the reaper does anything.              *)
LEMMA WorkReviews ==
  ASSUME MInv, AInv, MInv', job.status # "none", job'.status # "none", session' = session,
         mishaps \subseteq mishaps', project'.approval = project.approval
  PROVE  AInv'
<1>1. ImportIsApproved'
  BY DEF AInv, ImportIsApproved
<1>2. \A c \in Sessions : Asked(c)'
  BY DEF AInv, Asked
<1> QED
  BY <1>1, <1>2 DEF AInv

LEMMA WorkStepReviews ==
  ASSUME MInv, AInv, MInv', NEW w \in Workers,
         Claim(w) \/ ImportChunk(w) \/ CompleteRun(w) \/ Finish(w) \/ Fail(w) \/ Crash(w)
  PROVE  AInv'
<1>0. project \in Project /\ job \in Job
  BY DEF MInv, Types
<1>1. job.status # "none"
  <2>1. CASE Claim(w)
    BY <2>1 DEF Claim
  <2>2. CASE worker[w].pc # "idle"
    BY <2>2 DEF AInv, Attempted
  <2> QED
    BY <2>1, <2>2 DEF ImportChunk, CompleteRun, Finish, Fail, Crash
<1>2. CASE Claim(w) \/ Crash(w)
  <2>1. UNCHANGED <<session, project, mishaps>> /\ job'.status = job.status
    BY <1>0, <1>2 DEF Claim, Crash, Job
  <2> QED
    BY <1>1, <2>1, WorkReviews
<1>3. CASE ImportChunk(w) \/ CompleteRun(w)
  <2>1. session' = session /\ mishaps \subseteq mishaps' /\ project'.approval = project.approval
    BY <1>0, <1>3 DEF ImportChunk, CompleteRun, Project
  <2>2. PICK pc, next : Checkpoint(w, pc, next)
    BY <1>3 DEF ImportChunk, CompleteRun
  <2>3. job'.status # "none"
    BY <1>0, <1>1, <2>2 DEF Checkpoint, Job
  <2> QED
    BY <1>1, <2>1, <2>3, WorkReviews
<1>4. CASE Finish(w) \/ Fail(w)
  <2>1. PICK to, status, n : EndAttempt(w, to, status, n) /\ status # "none"
    BY <1>4 DEF Finish, Fail
  <2>2. /\ session' = session /\ mishaps \subseteq mishaps' /\ job'.status = status
        /\ project'.approval = project.approval
    BY <1>0, <2>1 DEF EndAttempt, Project
  <2> QED
    BY <1>1, <2>1, <2>2, WorkReviews
<1> QED
  BY <1>2, <1>3, <1>4

LEMMA ReviewStep ==
  ASSUME MInv, LInv, AInv, [Next]_vars
  PROVE  AInv'
<1>0. MInv' /\ job \in Job
  BY StepPreserves DEF MInv, Types
<1>1. CASE UNCHANGED vars
  BY <1>1 DEF vars, AInv, ImportIsApproved, Asked, Attempted
<1>2. CASE Reap
  <2>1. UNCHANGED <<session, project, mishaps>> /\ job.status = "running"
    BY <1>2 DEF Reap
  <2>2. job'.status # "none"
    BY <1>0, <1>2 DEF Reap, Job
  <2> QED
    BY <1>0, <2>1, <2>2, WorkReviews
<1> QED
  BY <1>0, <1>1, <1>2, RequestStepReviews, WorkStepReviews DEF Next

(* While an approval is asked for or refused no import has been started    *)
(* and nothing written, although validation makes the project ready again; *)
(* unless requests overlapped or it was asked for after the import started.*)
THEOREM ReviewIsWaitedFor == Spec => []ImportIsApproved
<1>1. Init => MInv /\ LInv /\ AInv
  BY InitEstablishes, InitClaims, InitReview
<1>2. MInv /\ LInv /\ AInv /\ [Next]_vars => (MInv /\ LInv /\ AInv)'
  BY StepPreserves, ClaimsStep, ReviewStep
<1>3. AInv => ImportIsApproved
  BY DEF AInv
<1> QED
  BY <1>1, <1>2, <1>3, PTL DEF Spec

-----------------------------------------------------------------------------
(* The import's job implements DurableJobs, as the job queue does: what a  *)
(* first commit shows, an attempt that raises or dies and the reaper do to *)
(* the row here is what the queue promises there.                          *)
LEMMA AttemptIs ==
  ASSUME NEW w \in Workers
  PROVE  /\ worker[w].pc = "idle" => AttemptOf(w) = {}
         /\ worker'[w].pc = "idle" => AttemptOf(w)' = {}
         /\ worker[w].pc # "idle" /\ worker[w].committed =>
              AttemptOf(w) = {[job |-> "import", retries |-> worker[w].retries, open |-> FALSE]}
         /\ worker'[w].pc # "idle" /\ worker'[w].committed =>
              AttemptOf(w)' = {[job |-> "import", retries |-> worker'[w].retries, open |-> FALSE]}
         /\ Open(w) =>
              AttemptOf(w) = {[job |-> "import", retries |-> worker[w].retries, open |-> TRUE]}
         /\ Open(w)' =>
              AttemptOf(w)' = {[job |-> "import", retries |-> worker'[w].retries, open |-> TRUE]}
         /\ worker'[w] = worker[w] => AttemptOf(w)' = AttemptOf(w)
BY DEF AttemptOf, Open

LEMMA AttemptAt ==
  ASSUME NEW w \in Workers, NEW a, AttemptOf(w)' = a,
         \A v \in Workers \ {w} : worker'[v] = worker[v]
  PROVE  [v \in Workers |-> AttemptOf(v)'] = [[v \in Workers |-> AttemptOf(v)] EXCEPT ![w] = a]
<1>1. \A v \in Workers \ {w} : AttemptOf(v)' = AttemptOf(v)
  BY AttemptIs
<1> QED
  BY <1>1

LEMMA RowIs ==
    /\ [k \in {"import"} |-> job'.status]
          = [[k \in {"import"} |-> job.status] EXCEPT !["import"] = job'.status]
    /\ [k \in {"import"} |-> job'.retries]
          = [[k \in {"import"} |-> job.retries] EXCEPT !["import"] = job'.retries]
OBVIOUS

LEMMA FreeIs ==
  ASSUME LInv, NEW W, job.lock \in W \cup {None}
  PROVE  Queue!Free("import", W)
<1> SUFFICES ASSUME NEW v \in Workers \ W, NEW a \in AttemptOf(v), a.open
             PROVE  FALSE
  BY DEF Queue!Free
<1>1. Open(v)
  <2>1. CASE worker[v].pc = "idle"
    BY <2>1, AttemptIs
  <2>2. CASE worker[v].pc # "idle" /\ worker[v].committed
    <3>1. a.open = FALSE
      BY <2>2, AttemptIs
    <3> QED
      BY <3>1
  <2> QED
    BY <2>1, <2>2 DEF Open
<1>2. job.lock = v /\ v # None
  BY <1>1, MigrationAssumption DEF LInv, ClaimIsHeld
<1> QED
  BY <1>2

LEMMA Unseen ==
  ASSUME job'.status = job.status, job'.retries = job.retries,
         \A w \in Workers : AttemptOf(w)' = AttemptOf(w)
  PROVE  UNCHANGED Queue!vars
BY DEF Queue!vars

LEMMA InitImplements == Init => Queue!Init
<1> SUFFICES ASSUME Init PROVE Queue!Init
  OBVIOUS
<1>1. \A w \in Workers : AttemptOf(w) = {}
  BY AttemptIs DEF Init, Rest
<1>2. job.status = "none" /\ job.retries = 0
  BY DEF Init
<1> QED
  BY <1>1, <1>2 DEF Queue!Init

LEMMA ClaimImplements ==
  ASSUME MInv, LInv, NEW w \in Workers, Claim(w)
  PROVE  Queue!Begin(w, "import")
<1> DEFINE a == [pc |-> IF run = "completed" THEN "imported" ELSE "importing",
                 next |-> 1, known |-> mapped, retries |-> job.retries, committed |-> FALSE]
<1>1. /\ worker[w] = Rest
      /\ worker' = [worker EXCEPT ![w] = a]
      /\ job.status = "pending" /\ job.lock = None
      /\ job' = [job EXCEPT !.lock = w]
  BY DEF Claim
<1>2. worker'[w] = a /\ \A v \in Workers \ {w} : worker'[v] = worker[v]
  BY <1>1 DEF MInv, Types
<1>3. job'.status = job.status /\ job'.retries = job.retries
  BY <1>1 DEF MInv, Types, Job
<1>4. AttemptOf(w)' = {[job |-> "import", retries |-> job.retries, open |-> TRUE]}
  <2>1. Open(w)' /\ worker'[w].retries = job.retries
    BY <1>2 DEF Open
  <2> QED
    BY <2>1, AttemptIs
<1>5. [v \in Workers |-> AttemptOf(v)']
        = [[v \in Workers |-> AttemptOf(v)] EXCEPT
              ![w] = {[job |-> "import", retries |-> job.retries, open |-> TRUE]}]
  BY <1>2, <1>4, AttemptAt
<1>6. Queue!Free("import", {})
  BY <1>1, FreeIs
<1>7. AttemptOf(w) = {}
  BY <1>1, AttemptIs DEF Rest
<1> QED
  BY <1>1, <1>3, <1>5, <1>6, <1>7 DEF Queue!Begin

LEMMA CheckpointImplements ==
  ASSUME MInv, LInv, NEW w \in Workers, NEW pc \in {"importing", "imported"}, NEW next,
         worker[w].pc # "idle", Checkpoint(w, pc, next)
  PROVE  [Queue!Next]_Queue!vars
<1>0. worker[w] \in Attempt /\ worker \in [Workers -> {Rest} \cup Attempt] /\ job \in Job
  BY Typed DEF MInv, Types
<1>1. worker' = [worker EXCEPT ![w] = [worker[w] EXCEPT !.pc = pc, !.next = next, !.committed = TRUE]]
  BY <1>0 DEF Checkpoint
<1>2. /\ worker'[w] = [worker[w] EXCEPT !.pc = pc, !.next = next, !.committed = TRUE]
      /\ \A v \in Workers \ {w} : worker'[v] = worker[v]
  BY <1>0, <1>1
<1>3. worker'[w].pc # "idle" /\ worker'[w].committed /\ worker'[w].retries = worker[w].retries
  BY <1>0, <1>2 DEF Attempt
<1> DEFINE a == [job |-> "import", retries |-> worker[w].retries, open |-> TRUE]
           b == [job |-> "import", retries |-> worker[w].retries, open |-> FALSE]
<1>4. AttemptOf(w)' = {b}
  BY <1>3, AttemptIs
<1>5. CASE worker[w].committed
  <2>1. job' = job
    BY <1>5 DEF Checkpoint
  <2>2. AttemptOf(w) = {b}
    BY <1>5, AttemptIs
  <2>3. \A v \in Workers : AttemptOf(v)' = AttemptOf(v)
    BY <1>2, <1>4, <2>2, AttemptIs
  <2> QED
    BY <2>1, <2>3, Unseen
<1>6. CASE ~worker[w].committed
  <2>1. job' = [job EXCEPT !.status = "running", !.lock = None]
    BY <1>6 DEF Checkpoint
  <2>2. job'.status = "running" /\ job'.retries = job.retries
    BY <1>0, <2>1 DEF Job
  <2>3. AttemptOf(w) = {a}
    BY <1>6, AttemptIs DEF Open
  <2>4. [v \in Workers |-> AttemptOf(v)'] = [[v \in Workers |-> AttemptOf(v)] EXCEPT ![w] = {b}]
    BY <1>2, <1>4, AttemptAt
  <2>5. /\ a.open = TRUE /\ a.job = "import"
        /\ b = [job |-> a.job, retries |-> a.retries, open |-> FALSE]
    OBVIOUS
  <2> HIDE DEF a, b
  <2>6. a \in [v \in Workers |-> AttemptOf(v)][w]
    BY <2>3
  <2>7. Queue!Show(w)
    BY <2>2, <2>4, <2>5, <2>6, RowIs DEF Queue!Show
  <2> QED
    BY <2>7 DEF Queue!Next
<1> QED
  BY <1>5, <1>6

LEMMA EndImplements ==
  ASSUME MInv, LInv, NEW w \in Workers, NEW to, NEW s, NEW n,
         worker[w].pc # "idle", EndAttempt(w, to, s, n),
         \/ s = "completed" /\ n = job.retries
         \/ s = "pending" /\ n = worker[w].retries + 1 /\ worker[w].retries < MaxRetries
         \/ s = "dead_letter" /\ n = job.retries /\ worker[w].retries >= MaxRetries
  PROVE  Queue!Finish(w)
<1>1. /\ job.lock \in {w, None}
      /\ job' = [status |-> s, retries |-> n, lock |-> None]
      /\ worker' = [worker EXCEPT ![w] = Rest]
  BY DEF EndAttempt
<1>2. worker'[w] = Rest /\ \A v \in Workers \ {w} : worker'[v] = worker[v]
  BY <1>1 DEF MInv, Types
<1>3. AttemptOf(w)' = {}
  BY <1>2, AttemptIs DEF Rest
<1>4. PICK a \in AttemptOf(w) : a.job = "import" /\ a.retries = worker[w].retries
  <2>1. PICK open \in BOOLEAN :
           AttemptOf(w) = {[job |-> "import", retries |-> worker[w].retries, open |-> open]}
    BY AttemptIs DEF Open
  <2> QED
    BY <2>1
<1>5. [v \in Workers |-> AttemptOf(v)'] = [[v \in Workers |-> AttemptOf(v)] EXCEPT ![w] = {}]
  BY <1>2, <1>3, AttemptAt
<1>6. a \in [v \in Workers |-> AttemptOf(v)][w]
  BY <1>4
<1>7. Queue!Free("import", {w})
  BY <1>1, FreeIs
<1>8. job'.status = s /\ job'.retries = n
  BY <1>1
<1>9. Queue!Settle(w, a, s)
  BY <1>4, <1>5, <1>7, <1>8, RowIs DEF Queue!Settle
<1>10. CASE s = "completed" /\ n = job.retries
  BY <1>4, <1>6, <1>8, <1>9, <1>10 DEF Queue!Finish
<1>11. CASE s = "pending" /\ n = worker[w].retries + 1 /\ worker[w].retries < MaxRetries
  BY <1>4, <1>6, <1>8, <1>9, <1>11, RowIs DEF Queue!Finish
<1>12. CASE s = "dead_letter" /\ n = job.retries /\ worker[w].retries >= MaxRetries
  BY <1>4, <1>6, <1>8, <1>9, <1>12 DEF Queue!Finish
<1> QED
  BY <1>10, <1>11, <1>12

LEMMA WorkImplements ==
  ASSUME MInv, LInv, NEW w \in Workers,
         Claim(w) \/ ImportChunk(w) \/ CompleteRun(w) \/ Finish(w) \/ Fail(w) \/ Crash(w)
  PROVE  [Queue!Next]_Queue!vars
<1>0. /\ worker \in [Workers -> {Rest} \cup Attempt] /\ job \in Job
      /\ worker[w].pc # "idle" => worker[w] \in Attempt
  BY Typed DEF MInv, Types
<1>1. CASE Claim(w)
  BY <1>1, ClaimImplements DEF Queue!Next
<1>2. CASE ImportChunk(w) \/ CompleteRun(w)
  <2>1. PICK pc, next : /\ pc \in {"importing", "imported"}
                         /\ worker[w].pc # "idle" /\ Checkpoint(w, pc, next)
    BY <1>2 DEF ImportChunk, CompleteRun
  <2> QED
    BY <2>1, CheckpointImplements
<1>3. CASE Finish(w)
  <2>1. worker[w].pc # "idle" /\ EndAttempt(w, "RECONCILING", "completed", job.retries)
    BY <1>3 DEF Finish
  <2> QED
    BY <2>1, EndImplements DEF Queue!Next
<1>4. CASE Fail(w)
  <2>0. worker[w].pc # "idle" /\ worker[w].retries \in Nat /\ MaxRetries \in Nat
    BY <1>0, <1>4, MigrationAssumption DEF Fail, Attempt
  <2>1. PICK to : EndAttempt(w, to, IF worker[w].retries < MaxRetries THEN "pending" ELSE "dead_letter",
                             IF worker[w].retries < MaxRetries THEN worker[w].retries + 1 ELSE job.retries)
    BY <1>4 DEF Fail
  <2>2. CASE worker[w].retries < MaxRetries
    <3>1. EndAttempt(w, to, "pending", worker[w].retries + 1)
      BY <2>1, <2>2
    <3> QED
      BY <2>0, <2>2, <3>1, EndImplements DEF Queue!Next
  <2>3. CASE ~(worker[w].retries < MaxRetries)
    <3>1. EndAttempt(w, to, "dead_letter", job.retries) /\ worker[w].retries >= MaxRetries
      BY <2>0, <2>1, <2>3
    <3> QED
      BY <2>0, <3>1, EndImplements DEF Queue!Next
  <2> QED
    BY <2>2, <2>3
<1>5. CASE Crash(w)
  <2>1. /\ worker' = [worker EXCEPT ![w] = Rest]
        /\ job' = IF job.lock = w THEN [job EXCEPT !.lock = None] ELSE job
    BY <1>5 DEF Crash
  <2>2. worker'[w] = Rest /\ \A v \in Workers \ {w} : worker'[v] = worker[v]
    BY <1>0, <2>1
  <2>3. job'.status = job.status /\ job'.retries = job.retries
    BY <1>0, <2>1 DEF Job
  <2>4. AttemptOf(w)' = {}
    BY <2>2, AttemptIs DEF Rest
  <2>5. [v \in Workers |-> AttemptOf(v)'] = [[v \in Workers |-> AttemptOf(v)] EXCEPT ![w] = {}]
    BY <2>2, <2>4, AttemptAt
  <2>6. Queue!Die(w)
    BY <2>3, <2>5 DEF Queue!Die
  <2> QED
    BY <2>6 DEF Queue!Next
<1> QED
  BY <1>1, <1>2, <1>3, <1>4, <1>5

LEMMA ReapImplements ==
  ASSUME MInv, LInv, Reap
  PROVE  Queue!Reap({"import"})
<1>1. /\ job.status = "running" /\ worker' = worker
      /\ job' = IF job.retries < MaxRetries
                THEN [job EXCEPT !.status = "pending", !.retries = @ + 1]
                ELSE [job EXCEPT !.status = "dead_letter"]
  BY DEF Reap
<1>2. job \in Job
  BY DEF MInv, Types
<1>3. Queue!Free("import", {})
  <2>1. job.lock = None
    BY <1>1 DEF LInv, ClaimIsHeld
  <2> QED
    BY <2>1, FreeIs
<1>4. [v \in Workers |-> AttemptOf(v)'] = [v \in Workers |-> AttemptOf(v)]
  BY <1>1, AttemptIs
<1>5. CASE job.retries < MaxRetries
  <2>1. job' = [job EXCEPT !.status = "pending", !.retries = @ + 1]
    BY <1>1, <1>5
  <2>2. job'.status = "pending" /\ job'.retries = job.retries + 1
    BY <1>2, <2>1 DEF Job
  <2> QED
    BY <1>1, <1>3, <1>4, <1>5, <2>2 DEF Queue!Reap
<1>6. CASE ~(job.retries < MaxRetries)
  <2>1. job' = [job EXCEPT !.status = "dead_letter"]
    BY <1>1, <1>6
  <2>2. job'.status = "dead_letter" /\ job'.retries = job.retries
    BY <1>2, <2>1 DEF Job
  <2> QED
    BY <1>1, <1>3, <1>4, <1>6, <2>2 DEF Queue!Reap
<1> QED
  BY <1>5, <1>6

LEMMA RequestImplements ==
  ASSUME MInv, LInv, NEW c \in Sessions, CommitStart(c) \/ CommitCancel(c)
  PROVE  [Queue!Next]_Queue!vars
<1>0. job \in Job /\ (job.lock # None => job.status = "pending")
  BY DEF MInv, Types, LInv, ClaimIsHeld
<1>1. worker' = worker
  BY DEF CommitStart, CommitCancel
<1>2. /\ \A v \in Workers : AttemptOf(v)' = AttemptOf(v)
      /\ [v \in Workers |-> AttemptOf(v)'] = [v \in Workers |-> AttemptOf(v)]
  BY <1>1, AttemptIs
<1>3. CASE job' = job
  BY <1>2, <1>3, Unseen
<1>4. CASE CommitStart(c) /\ session[c].read = "none"
  <2>1. job.status = "none" /\ job' = [job EXCEPT !.status = "pending"]
    BY <1>4 DEF CommitStart
  <2>2. job'.status = "pending" /\ job'.retries = job.retries
    BY <1>0, <2>1 DEF Job
  <2>3. Queue!Create("import")
    BY <1>2, <2>1, <2>2, RowIs DEF Queue!Create
  <2> QED
    BY <2>3 DEF Queue!Next
<1>5. CASE CommitCancel(c) /\ session[c].read
  <2>1. job.lock = None /\ job.status # "none" /\ job' = [job EXCEPT !.status = "cancelled"]
    BY <1>5 DEF CommitCancel, LInv, HasJob
  <2>2. job'.status = "cancelled" /\ job'.retries = job.retries
    BY <1>0, <2>1 DEF Job
  <2>3. Queue!Free("import", {})
    BY <2>1, FreeIs
  <2>4. Queue!Request("import", "cancelled")
    BY <1>2, <2>1, <2>2, <2>3, RowIs DEF Queue!Request
  <2> QED
    BY <2>4 DEF Queue!Next
<1> QED
  BY <1>3, <1>4, <1>5 DEF CommitStart, CommitCancel

LEMMA StepImplements ==
  ASSUME MInv, LInv, [Next]_vars
  PROVE  [Queue!Next]_Queue!vars
<1>1. CASE job' = job /\ worker' = worker
  BY <1>1, AttemptIs, Unseen
<1>2. ASSUME NEW w \in Workers,
             Claim(w) \/ ImportChunk(w) \/ CompleteRun(w) \/ Finish(w) \/ Fail(w) \/ Crash(w)
      PROVE  [Queue!Next]_Queue!vars
  BY <1>2, WorkImplements
<1>3. CASE Reap
  <2>1. Queue!Reap({"import"}) /\ {"import"} \in SUBSET {"import"}
    BY <1>3, ReapImplements
  <2> QED
    BY <2>1 DEF Queue!Next
<1>4. ASSUME NEW c \in Sessions, CommitStart(c) \/ CommitCancel(c)
      PROVE  [Queue!Next]_Queue!vars
  BY <1>4, RequestImplements
<1>5. ASSUME NEW c \in Sessions,
             \/ SaveMapping(c) \/ RunValidation(c) \/ RequestApproval(c) \/ Approve(c)
             \/ RejectApproval(c) \/ StartImport(c) \/ Reconcile(c) \/ Cutover(c)
             \/ Cancel(c) \/ Rollback(c) \/ RollbackRun(c)
             \/ CommitCutover(c) \/ CommitRollback(c) \/ RollBack(c)
             \/ \E op, to : CommitStatus(c, op, to)
      PROVE  job' = job /\ worker' = worker
  BY <1>5 DEF SaveMapping, RunValidation, RequestApproval, Approve, RejectApproval, StartImport,
              Reconcile, Cutover, Cancel, Rollback, RollbackRun, Begin,
              CommitCutover, CommitRollback, RollBack, CommitStatus
<1> QED
  BY <1>1, <1>2, <1>3, <1>4, <1>5 DEF Next, vars

(* The row of the import's job is locked exactly while an attempt has      *)
(* committed nothing: no dead attempt leaves a claim behind.               *)
THEOREM NoClaimIsOrphaned == Spec => []ClaimIsHeld
<1>1. Init => LInv
  BY InitClaims
<1>2. MInv /\ LInv /\ [Next]_vars => LInv'
  BY ClaimsStep
<1>3. LInv => ClaimIsHeld
  BY DEF LInv
<1> QED
  BY <1>1, <1>2, <1>3, Invariance, PTL DEF Spec

(* run_project_import under its worker, the requests that start and cancel *)
(* it and the reaper implement DurableJobs.                                *)
THEOREM JobImplements == Spec => ImplementsQueue
<1>1. Init => LInv /\ Queue!Init
  BY InitClaims, InitImplements
<1>2. MInv /\ LInv /\ [Next]_vars => LInv' /\ [Queue!Next]_Queue!vars
  BY ClaimsStep, StepImplements
<1> QED
  BY <1>1, <1>2, Invariance, PTL DEF Spec, ImplementsQueue, Queue!Spec
=============================================================================
