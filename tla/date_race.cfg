SPECIFICATION Spec
CONSTANTS
    t1 = t1
    t2 = t2
    Threads = {t1, t2}
    None = None
    Hours = 2
    Offset = 1
    MaxTime = 2
    MaxLog = 3
INVARIANTS
    DateIsGmt
CHECK_DEADLOCK FALSE
