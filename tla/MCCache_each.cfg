SPECIFICATION SpecEach
CONSTANTS
    t1 = t1
    t2 = t2
    t3 = t3
    Tasks <- ThreeTasks
    Driver = "database"
    Ttl = 2
    Wait = 2
    Sleep = 1
    Second = 2
    Aborts = TRUE
    MaxClock = 4
    u1 = u1
    u2 = u2
    Callers <- TwoCallers
    Tags = {1, 2}
    Memos = {TRUE, FALSE}
    MaxIds = 3
    MaxValues = 2
    Parts = {"locks", "tags"}
INVARIANTS TypeOK Exclusive NoLeak FlushInvalidates
PROPERTY ImplementsLease
SYMMETRY Alike
CHECK_DEADLOCK FALSE
