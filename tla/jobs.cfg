\* Two workers, one crash and two requests: a job of an unknown type, and one
\* that checkpoints and is slow to report progress.
SPECIFICATION FairSpec
CONSTANTS
    j1 = j1  j2 = j2
    Jobs = {j1, j2}
    Workers = {w1, w2}
    Clients = {c1, c2}
    Ops = {"cancel", "retry", "patch_failed"}
    Rank <- RankOf
    MaxRetries <- RetriesOf
    Checkpointing = {j2}
    Slow = {j2}
    Unregistered = {j1}
    MaxCrashes = 1
    None = None
INVARIANTS OneWorkerPerJob WorkIsDoneOnce BudgetPlusCrashes
PROPERTIES EveryJobSettles ImplementsQueue
CHECK_DEADLOCK FALSE
