\* Three requests on two dues of one student, run by the event loop to an answer.
SPECIFICATION FairSpec
CONSTANTS
    r1 = r1  r2 = r2  r3 = r3  r4 = r4
    d1 = d1  d2 = d2  s1 = s1
    None = None
    Requests = {r1, r2, r3}
    Dues = {d1, d2}
    Students = {s1}
    Keys = {k1}
    MaxAmount = 2
    StudentOf <- OneStudentOf
    Original <- OriginalTwo
CHECK_DEADLOCK FALSE
INVARIANTS DueInRange KeysAreHonoured NoDoubleRefund LedgerChain
PROPERTIES EveryRequestAnswered
