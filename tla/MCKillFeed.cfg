\* One process at a time, started twice, with every fault.
CONSTANTS
    p1 = p1
    p2 = p2
    Processes = {p1}
    MaxCards = 3
    MaxItems = 2
    MaxGroup = 2
    MaxPending = 2
    Refusals <- OneRefused
    MaxStarts = 2
    MaxMishaps = 2
SPECIFICATION FairSpec
INVARIANT SentOnce
INVARIANT RowsTrue
INVARIANT Capacity
INVARIANT Tracked
INVARIANT InOrder
PROPERTY ShownInTheEnd
CHECK_DEADLOCK FALSE
