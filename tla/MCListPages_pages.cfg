SPECIFICATION FairSpec
CONSTANTS
    Kinds <- AllPages
    Terminals = {"a", "b"}
    Searches = {"x", "y"}
    Choices = {"p", "q"}
    MaxRows = 2
    MaxSteps = 2
    MaxFaults = 2
INVARIANT SettledPageFits
INVARIANT OwnChangeIsShown
INVARIANT BoardShowsLastWord
PROPERTY PagesCatchUp
CHECK_DEADLOCK FALSE
