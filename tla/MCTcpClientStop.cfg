SPECIFICATION Spec
CONSTANTS
    Sock = Sock
    Cli = Cli
    SendMsg = {s1}
    CloseMsg = CloseMsg
    BufLen = 1
    MaxRx = 1
    MaxWait = 8
INVARIANT DestructorAsserts
CHECK_DEADLOCK FALSE
