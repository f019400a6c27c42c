SPECIFICATION Spec
CONSTANTS
    Thread = {t1, t2}
    Ctx = {x1, x2, x3, x4, x5}
    None = None
    MaxConnSum = 2
INVARIANTS
    Accounted
    PoolBounded
    FailsOnce
PROPERTY Refilled
CHECK_DEADLOCK FALSE
