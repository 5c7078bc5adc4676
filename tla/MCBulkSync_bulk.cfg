SPECIFICATION FairSpec
CONSTANTS
    Employees = {1, 2}
    NoOne = NoOne
    MaxSlot = 3
    PageSize = 1
    MaxRetries = 2
    MaxStarts = 1
    Removable = {1}
    MaxFaults = 2
INVARIANT SlotsAreExplained
INVARIANT DoneIsComplete
PROPERTY SyncEnds
CHECK_DEADLOCK FALSE
