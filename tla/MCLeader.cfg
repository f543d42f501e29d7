\* Two processes, a crash, broken connections and a failed request.
CONSTANTS
    p1 = p1
    p2 = p2
    None = None
    Processes = {p1, p2}
    MaxCrashes = 1
    MaxDrops = 2
    MaxErrors = 1
SPECIFICATION FairSpec
INVARIANTS
    LeadsHolding
    OneWorks
PROPERTY WorkersServed
CHECK_DEADLOCK FALSE
