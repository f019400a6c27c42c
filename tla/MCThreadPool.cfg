SPECIFICATION Spec
CONSTANTS
    NThread = 2
    Task = {t1, t2, t3}
    Limit = 10
INVARIANTS TypeOK PayloadCounts PickExists
PROPERTIES TaskEnds StopEnds
