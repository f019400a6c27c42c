SPECIFICATION Spec
CONSTANTS
    Conn = {c1, c2, c3}
    Listener = Listener
    Free = Free
    MaxFD = 2
    MaxWait = 2
INVARIANT OneOwner
PROPERTIES
    OnlyResetEnds
    ClientsServed
    ResetReleases
CHECK_DEADLOCK FALSE
