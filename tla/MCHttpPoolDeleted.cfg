SPECIFICATION Spec
CONSTANTS
    NReq = 2
    NWorker = 1
    Outcome = {"keep"}
    Env = {"leave"}
INVARIANT NoUseAfterDelete
CHECK_DEADLOCK FALSE
