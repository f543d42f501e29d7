\* One process is stopped and started again.
CONSTANTS
    p1 = p1
    p2 = p2
    None = None
    Processes = {p1}
    MaxBoots = 2
    MaxLines = 2
    MaxWritten = 3
    MaxFaults = 1
    MaxCrashes = 1
SPECIFICATION FairSpec
PROPERTY StoredInTheEnd
CHECK_DEADLOCK FALSE
