\* A person restores the file and resumes after an uncertain write.
CONSTANTS
    o1 = o1
    o2 = o2
    Orders = {o1}
    MaxAttempts = 2
    Price = 1
    StartBalance = 1
    StartStock = 1
    MaxStaged = 1
    Lead = 1
    Quiet = 2
    Settings <- Resumed
    Garbage = Garbage
SPECIFICATION WSpec
INVARIANT PlansOnlyUnspawned
CHECK_DEADLOCK FALSE
