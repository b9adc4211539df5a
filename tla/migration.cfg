\* Two requests and two workers; a file of two chunks, one of them there already.
SPECIFICATION Spec
CONSTANTS
    Sessions = {c1, c2}
    Workers = {w1, w2}
    Chunks = 2
    Existing = {2}
    MaxRetries = 1
    MaxMishaps = 3
    None = None
SYMMETRY Symmetry
INVARIANTS OneRecordPerChunk RowsAreAccounted CutoverStands ImportIsApproved
CHECK_DEADLOCK FALSE
