SPECIFICATION Spec
CONSTANTS
    NULL = NULL
    Threads = {t1, t2}
    MaxEdits = 0
PROPERTIES
    KillsOutstanding
CHECK_DEADLOCK FALSE
