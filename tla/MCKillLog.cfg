\* Two processes overlap across a reboot of the game server.
CONSTANTS
    p1 = p1
    p2 = p2
    None = None
    Processes = {p1, p2}
    MaxBoots = 2
    MaxLines = 2
    MaxWritten = 2
    MaxFaults = 1
    MaxCrashes = 1
SPECIFICATION Spec
SYMMETRY Alike
INVARIANT PostedOnce
INVARIANT CheckpointAccounts
PROPERTY PostsInOrder
CHECK_DEADLOCK FALSE
