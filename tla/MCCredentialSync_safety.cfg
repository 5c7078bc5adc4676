SPECIFICATION Spec
CONSTANTS
    d1 = d1
    d2 = d2
    e1 = e1
    e2 = e2
    NoOne = NoOne
    Devices = {d1, d2}
    Employees = {e1, e2}
    MaxSlot = 2
    MaxPending = 1
    MaxAttempts = 2
    EnrollAt = {d1, d2}
    Removable = {e1}
    MaxEnrolls = 1
    MaxFaults = 1
SYMMETRY SyncSymmetry
INVARIANT SlotsAreExplained
INVARIANT SequentialEnrolmentIsOwn
INVARIANT FingersStayWithOwners
CHECK_DEADLOCK FALSE
