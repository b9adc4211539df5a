\* Two sessions, one campus, three provider events, two units of time.
SPECIFICATION BillingSpec
CONSTANTS
    school = school  monthly = monthly
    full = full  short = short  failure = failure
    Sessions = {c1, c2}
    Campuses = {school}
    Plans = {monthly}
    Price <- ThePrice
    Length <- TheLength
    TrialPlan = monthly
    Events = {full, short, failure}
    Event <- TheEvent
    Horizon = 2
    NoValue = NoValue
SYMMETRY Symmetry
INVARIANTS OneInvoiceOwed OnlyRacesMisbill
PROPERTY OverIsFinal
CHECK_DEADLOCK FALSE
