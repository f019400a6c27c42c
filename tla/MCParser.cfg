SPECIFICATION Spec
CONSTANTS
    NPacket = 3
    HdrLen = 3
    MaxSize = 3
    MaxRecv = 8
    WholeHeaders = TRUE
INVARIANTS InStep Framed NotLate
CHECK_DEADLOCK FALSE
