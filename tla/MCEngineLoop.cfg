SPECIFICATION Spec
CONSTANTS
    Event = {e1, e2, e3}
    MaxWait = 2
INVARIANTS CalledIsRegistered BatchOK
