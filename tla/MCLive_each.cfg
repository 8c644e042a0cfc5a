SPECIFICATION SpecEach
CONSTANTS
    t1 = t1
    t2 = t2
    Uses <- Several
    MaxSize = 2
    Cap = 2
INVARIANT WaitIsComplete
PROPERTIES NothingHangs LocksEnd HooksRunOnce
CHECK_DEADLOCK FALSE
