SPECIFICATION SpecEach
CONSTANTS
    t1 = t1
    t2 = t2
    Uses <- TooMuch
    MaxSize = 2
    Cap = 2
PROPERTY StartReturns
CHECK_DEADLOCK FALSE
