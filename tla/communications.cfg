\* Two workers and a request, a schedule that recurs once, two recipients of
\* which one may fail, and one crash.
SPECIFICATION FairSpec
CONSTANTS
    Messages = {m1}
    Recipients = {r1, r2}
    Unreliable = {r2}
    Occurrences <- OccurrencesOf
    Workers = {w1, w2}
    Clients = {c1}
    Given = {"failed"}
    MaxCrashes = 1
    NoValue = NoValue
INVARIANTS NotifiedOnce StatusTells
PROPERTIES DueIsDispatched
CHECK_DEADLOCK FALSE
