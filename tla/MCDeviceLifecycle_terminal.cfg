SPECIFICATION FairSpec
CONSTANTS
    c1 = c1
    c2 = c2
    m1 = m1
    m2 = m2
    NoCall = NoCall
    Calls = {c1, c2}
    Managers = {m1}
    MaxChanges = 2
    MaxFaults = 1
INVARIANT TypeOK
PROPERTY HeartbeatsKeepDecisions
PROPERTY FollowsBackend
PROPERTY PendingClearRuns
PROPERTY BackInService
