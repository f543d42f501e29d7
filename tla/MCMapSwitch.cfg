\* Two maps, two processes that overlap, and two mishaps of any kind.
CONSTANTS
    p1 = p1
    p2 = p2
    m1 = m1
    m2 = m2
    Bad = Bad
    None = None
    Processes = {p1, p2}
    Maps = {m1, m2}
    Loaded = m1
    MaxAttempts = 3
    MaxFailures = 3
    MaxSwitches = 1
    MaxMishaps = 2
SPECIFICATION FairSpec
INVARIANT TypeOK
INVARIANT FilesAgree
INVARIANT StoppedOnce
INVARIANT DownTracked
PROPERTY AppliedInPlace
PROPERTY ServerUpAgain
PROPERTY SwitchEnds
CHECK_DEADLOCK FALSE
