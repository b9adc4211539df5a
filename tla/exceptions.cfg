\* Three requests at a time; a timeline of up to five entries, as the three
\* may all have begun when it had two.
SPECIFICATION Spec
CONSTANTS
    Sessions = {c1, c2, c3}
    Severities = {low, high}
    Values = {v1}
    Items = {i1, i2}
    Outcomes = {fixed, duplicate}
    MaxEvents = 3
    None = None
SYMMETRY Symmetry
INVARIANTS CurrentIsFresh TimelineReplays
CHECK_DEADLOCK FALSE
