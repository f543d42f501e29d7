\* The delivery worker with two installations.
CONSTANTS
    p1 = p1
    p2 = p2
    i1 = i1
    i2 = i2
    None = None
    Processes = {p1, p2}
    Installations = {i1, i2}
    Lease = 4
    PassTime = 3
    Upfront = TRUE
    MaxTime = 10
SPECIFICATION Spec
INVARIANT Exclusive
CHECK_DEADLOCK FALSE
