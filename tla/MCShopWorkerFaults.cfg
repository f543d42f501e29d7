\* One order with every fault, then with people who resume and edit the file;
\* one order over two boots and two orders in one file when nothing fails.
CONSTANTS
    o1 = o1
    o2 = o2
    Orders = {o1, o2}
    MaxAttempts = 2
    Price = 1
    StartBalance = 2
    StartStock = 2
    MaxStaged = 2
    Lead = 1
    Quiet = 3
    Settings <- Every
    Garbage = Garbage
SPECIFICATION WSpec
INVARIANT WTypeOK
INVARIANT CandidateClean
INVARIANT FileMatchesLedger
INVARIANT AskedSpawned
INVARIANT NeverOutstanding
INVARIANT SpawnedTwiceReviewed
INVARIANT ReviewHasTicket
PROPERTY PromiseKept
CHECK_DEADLOCK FALSE
