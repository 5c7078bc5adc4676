SPECIFICATION Spec
CONSTANTS
    s1 = s1
    s2 = s2
    r1 = r1
    r2 = r2
    e1 = e1
    e2 = e2
    NoOne = NoOne
    Slots = {s1, s2}
    Rows = {r1, r2}
    Employees = {e1, e2}
    Limit = 1
    MonthDays = 1
    Ahead = 1
    MaxDay = 1
SYMMETRY RequestsSymmetry
INVARIANT ApprovalsWithinLimit
INVARIANT ApprovalsAreBooked
PROPERTY UncontestedDecisionIsFinal
CHECK_DEADLOCK FALSE
