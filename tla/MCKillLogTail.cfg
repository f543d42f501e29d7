\* One process, and nothing fails.
CONSTANTS
    p1 = p1
    p2 = p2
    None = None
    Processes = {p1}
    MaxBoots = 2
    MaxLines = 2
    MaxWritten = 2
    MaxFaults = 0
    MaxCrashes = 0
SPECIFICATION Spec
INVARIANT OldFileDrained
CHECK_DEADLOCK FALSE
