SPECIFICATION FairSpec
CONSTANTS
    s1 = s1
    s2 = s2
    r1 = r1
    e1 = e1
    NoOne = NoOne
    Slots = {s1, s2}
    Rows = {r1}
    Employees = {e1}
    Limit = 1
    MonthDays = 2
    Ahead = 1
    MaxDay = 2
PROPERTY ExpiredOtIsDecided
PROPERTY EveryCallAnswered
PROPERTY DecidedAtTheDesk
CHECK_DEADLOCK FALSE
