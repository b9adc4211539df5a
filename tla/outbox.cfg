\* Two workers with batches of two, two events, one published twice.
SPECIFICATION FairSpec
CONSTANTS
    e1 = e1  e2 = e2  e3 = e3
    p1 = p1  p2 = p2  p3 = p3
    Events = {e1, e2}
    Producers = {p1, p2, p3}
    Workers = {w1, w2}
    BatchSize = 2
    MaxAttempts = 2
    Unroutable = {e2}
    InAppLast = {TRUE, FALSE}
    MaxCrashes = 1
    EventOf <- TwoPublishE1
    Age <- AgeOf
    None = None
INVARIANTS EventIffChange NotifiedIffCompleted
PROPERTIES ImplementsDurable SettlesUnlessInAppLast
CHECK_DEADLOCK FALSE
