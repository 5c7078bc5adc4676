SPECIFICATION FairSpec
CONSTANTS
    Users = {"u1", "u2"}
    NoUser = "nobody"
    New = {"u2"}
    Notes = {1, 2}
    PageSize = 1
    Old <- OneOfTheFirst
    MaxSteps = 2
INVARIANT SessionFollowsToken
INVARIANT QuietBellIsExact
PROPERTY SessionSettles
PROPERTY StaysSubscribed
CHECK_DEADLOCK FALSE
