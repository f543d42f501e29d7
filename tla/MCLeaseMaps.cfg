\* The rotation worker with one installation.
CONSTANTS
    p1 = p1
    p2 = p2
    i1 = i1
    i2 = i2
    None = None
    Processes = {p1, p2}
    Installations = {i1}
    Lease = 7
    PassTime = 6
    Upfront = FALSE
    MaxTime = 18
SPECIFICATION Spec
INVARIANT Exclusive
CHECK_DEADLOCK FALSE
