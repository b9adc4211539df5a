\* Three transactions, two campuses, a checkpoint, verifications by both scripts.
SPECIFICATION Spec
CONSTANTS
    t1 = t1  t2 = t2  t3 = t3
    Transactions = {t1, t2, t3}
    Campuses = {c1, c2}
    MaxEvents <- TwoOneNone
    MaxCheckpoints = 1
    Scripts = {TRUE, FALSE}
    None = None
SYMMETRY Symmetry
INVARIANTS OnlyOverlapsFork OneEntryPerEvent QuietVerdictIsRight
CHECK_DEADLOCK FALSE
