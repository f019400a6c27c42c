SPECIFICATION GameSpec
CONSTANTS
    Sock = Sock
    Cli = Cli
    SendMsg = {s1, s2}
    CloseMsg = CloseMsg
    BufLen = 2
    MaxRx = 1
    MaxWait = 8
INVARIANT NoCallAfterDestruction
PROPERTIES
    CleanExit
    LoginGoesOut
    OnlyPeerEnds
CHECK_DEADLOCK FALSE
