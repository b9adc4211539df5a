\* Two sessions, two instances, one leave request, two workflows.
SPECIFICATION Spec
CONSTANTS
    draft = draft  review = review  approved = approved  foreign = foreign
    staff = staff  boss = boss  leaves = leaves  other = other
    Sessions = {c1, c2}
    Workflows = {leaves, other}
    Steps = {draft, review, approved, foreign}
    Graph <- TheGraph
    AllEdges <- TheEdges
    FirstEdges <- Seeded
    Users = {staff, boss}
    Roles <- TheRoles
    Leaves = {l1}
    LeaveWorkflow = leaves
    Ids = {1, 2}
    MaxHistory = 3
    MaxEdits = 1
    MaxAdmin = 1
    Changeable <- Changed
    None = None
SYMMETRY Symmetry
INVARIANTS LiveStepIsOwn OnlyOverlapsDiverge ReviewedAsSubmitted
CHECK_DEADLOCK FALSE
