\* Two sessions, a risk rule and a data-quality check, one case made of a finding
\* (cases only meet at creation) with up to three timeline entries.
SPECIFICATION CasesSpec
CONSTANTS
    Sessions = {c1, c2}
    Rules = {absence, address}
    Risk = {absence}
    Asked = {"resolved", "closed", "open"}
    Manual = {}
    MaxCases = 1
    MaxEvents = 3
    MaxRaced = 2
    NoValue = NoValue
SYMMETRY Symmetry
INVARIANTS TimelineTells LoopIsClosed
CHECK_DEADLOCK FALSE
