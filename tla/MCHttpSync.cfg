SPECIFICATION Spec
CONSTANTS
    NReq = 3
    NWorker = 0
    Outcome = {"keep", "close", "detach"}
    Env = {"pipeline", "leave", "idle", "malformed", "exhaust"}
INVARIANTS DetachKeepsSocket CloseHonoured
CHECK_DEADLOCK FALSE
