SPECIFICATION Spec
CONSTANTS
    Sock = Sock
    Cli = Cli
    SendMsg = {s1, s2, s3}
    CloseMsg = CloseMsg
    BufLen = 2
    MaxRx = 1
    MaxWait = 8
INVARIANTS
    TypeOK
    NoCallOnTheGone
    OneOwner
    InterestFollowsQueue
    AttemptIsWatched
    NothingLost
    DroppedOnce
PROPERTIES
    ImplementsLink
    StopReturns
    AttemptEnds
    QueueDrains
CHECK_DEADLOCK FALSE
