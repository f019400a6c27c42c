SPECIFICATION Spec
CONSTANTS
    NReq = 3
    NWorker = 2
    Outcome = {"keep", "close", "detach"}
    Env = {"pipeline", "leave", "idle", "malformed", "exhaust"}
INVARIANTS InterestFollowsQueue RefsCounted OneClose
PROPERTIES RequestAnswered ObjectIsFreed
CHECK_DEADLOCK FALSE
