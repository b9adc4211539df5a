----------------------------- MODULE DurableJobs -----------------------------
(***************************************************************************)
(* What the job queue promises whoever writes a handler, with no polls,    *)
(* row locks or sessions: a job is worked on in attempts; while an attempt *)
(* is open nobody else writes its job, and an attempt that dies open has   *)
(* changed nothing; a job is retried at most Limit times on its own.       *)
(***************************************************************************)
EXTENDS Integers

CONSTANTS
    Jobs, Workers,
    Limit,      \* how often the queue retries each job
    Handled,    \* the jobs somebody can work on
    Asked       \* the statuses clients may ask for

VARIABLES
    status,     \* of each job, "none" before it is created
    retries,    \* how often each job was retried
    attempt     \* the attempt each worker is at, if any: the job, the retry
                \* it is, and whether it is open, with nothing committed yet

vars == <<status, retries, attempt>>

Init ==
    /\ status = [j \in Jobs |-> "none"]
    /\ retries = [j \in Jobs |-> 0]
    /\ attempt = [w \in Workers |-> {}]

(* Nobody but the workers of W has an open attempt at j.                   *)
Free(j, W) == \A w \in Workers \ W : \A a \in attempt[w] : ~(a.open /\ a.job = j)

Create(j) ==
    /\ status[j] = "none"
    /\ status' = [status EXCEPT ![j] = "pending"]
    /\ UNCHANGED <<retries, attempt>>

Begin(w, j) ==
    /\ attempt[w] = {}
    /\ status[j] = "pending" /\ Free(j, {})
    /\ attempt' = [attempt EXCEPT ![w] = {[job |-> j, retries |-> retries[j], open |-> TRUE]}]
    /\ UNCHANGED <<status, retries>>

(* The attempt commits for the first time.                                 *)
Show(w) ==
    \E a \in attempt[w] :
       /\ a.open
       /\ attempt' = [attempt EXCEPT ![w] =
             {[job |-> a.job, retries |-> a.retries, open |-> FALSE]}]
       /\ status' = [status EXCEPT ![a.job] = "running"]
       /\ UNCHANGED retries

Settle(w, a, s) ==
    /\ Free(a.job, {w})
    /\ status' = [status EXCEPT ![a.job] = s]
    /\ attempt' = [attempt EXCEPT ![w] = {}]

Finish(w) ==
    \E a \in attempt[w] :
       \/ a.job \in Handled /\ Settle(w, a, "completed") /\ UNCHANGED retries
       \/ /\ a.job \in Handled /\ a.retries < Limit[a.job]
          /\ Settle(w, a, "pending")
          /\ retries' = [retries EXCEPT ![a.job] = a.retries + 1]
       \/ /\ a.job \notin Handled \/ a.retries >= Limit[a.job]
          /\ Settle(w, a, "dead_letter") /\ UNCHANGED retries

Die(w) ==
    /\ attempt' = [attempt EXCEPT ![w] = {}]
    /\ UNCHANGED <<status, retries>>

(* The jobs of S have not been heard of for long.                          *)
Reap(S) ==
    /\ \A j \in S : status[j] = "running" /\ Free(j, {})
    /\ status' = [j \in Jobs |->
            IF j \notin S THEN status[j]
            ELSE IF retries[j] < Limit[j] THEN "pending" ELSE "dead_letter"]
    /\ retries' = [j \in Jobs |->
            IF j \in S /\ retries[j] < Limit[j] THEN retries[j] + 1 ELSE retries[j]]
    /\ UNCHANGED attempt

(* A client has its way with the job, whoever works on it; a job that is   *)
(* put back in the queue may have its retries counted anew.                *)
Request(j, s) ==
    /\ status[j] # "none" /\ Free(j, {})
    /\ status' = [status EXCEPT ![j] = s]
    /\ \/ UNCHANGED retries
       \/ s = "pending" /\ retries' = [retries EXCEPT ![j] = 0]
    /\ UNCHANGED attempt

Next ==
    \/ \E j \in Jobs : Create(j) \/ \E s \in Asked : Request(j, s)
    \/ \E w \in Workers : (\E j \in Jobs : Begin(w, j)) \/ Show(w) \/ Finish(w) \/ Die(w)
    \/ \E S \in SUBSET Jobs : Reap(S)

Spec == Init /\ [][Next]_vars
=============================================================================
