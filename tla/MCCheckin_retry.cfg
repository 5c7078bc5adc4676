SPECIFICATION Spec
CONSTANTS
    r1 = r1
    r2 = r2
    d1 = d1
    c1 = c1
    e1 = e1
    NoOne = NoOne
    Req = {r1, r2}
    Devices = {d1}
    Credentials = {c1}
    Employees = {e1}
    MaxClock = 2
    DayTicks = 4
    GraceTicks = 0
PROPERTY RetryReturnsOriginal
CHECK_DEADLOCK FALSE
