SPECIFICATION PaySpec
CONSTANTS
    Minute = 2
    Instants <- LimitInstants
    Ends <- MidnightOrNoon
    Staff = {1, 2}
    Live = 1
    Rest <- RestOfTheMonth
    Rates = {333, 515}
    Raised = {1}
    Leaving = {2}
    Publishers = {1, 2}
    MaxEvents = 2
    Paid <- LongDay
INVARIANT PayslipsMatchFiles
INVARIANT PayIsExact
INVARIANT PublishedIsComplete
INVARIANT RoundedFiguresAgree
PROPERTY CreditIsTimePresent
PROPERTY EarnedNeverShrinks
CHECK_DEADLOCK FALSE
