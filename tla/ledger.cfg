\* Two sessions, two accounts, two periods, three entries.
SPECIFICATION Spec
CONSTANTS
    cash = cash  fees = fees  term = term  year = year
    Sessions = {c1, c2}
    Accounts = {cash, fees}
    Periods = {term, year}
    Covers <- TheCovers
    Dates = {1, 2}
    Data <- TheData
    Retired = {fees}
    k1 = k1
    Keys = {k1}
    Ids = {1, 2, 3}
    MaxCreated = 1
    None = None
SYMMETRY Symmetry
INVARIANTS BooksBalance ReversalCancels OnlyRacesBreak
PROPERTY ClosedIsFinal
CHECK_DEADLOCK FALSE
