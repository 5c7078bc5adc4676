SPECIFICATION FairSpec
CONSTANTS
    r1 = r1
    r2 = r2
    d1 = d1
    c1 = c1
    e1 = e1
    e2 = e2
    NoOne = NoOne
    Req = {r1, r2}
    Devices = {d1}
    Credentials = {c1}
    Employees = {e1, e2}
    MaxClock = 2
    DayTicks = 2
    GraceTicks = 1
INVARIANT TypeOK
INVARIANT ShownSuccessIsLogged
PROPERTY EntersScansInBook
PROPERTY EveryRequestAnswered
CHECK_DEADLOCK FALSE
