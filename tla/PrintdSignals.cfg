SPECIFICATION Spec
CONSTANTS
    NULL = NULL
    Threads = {t1, t2, t3}
    MaxEdits = 1
INVARIANTS
    WorkersAreTracked
    HupIsHonoured
PROPERTIES
    HupTakesEffect
CHECK_DEADLOCK FALSE
