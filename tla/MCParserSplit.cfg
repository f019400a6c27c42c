SPECIFICATION Spec
CONSTANTS
    NPacket = 2
    HdrLen = 3
    MaxSize = 3
    MaxRecv = 8
    WholeHeaders = FALSE
INVARIANT Framed
CHECK_DEADLOCK FALSE
