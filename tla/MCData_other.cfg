SPECIFICATION SpecEach
CONSTANTS
    p1 = p1
    p2 = p2
    Migrators <- Two
    N = 2
    Statements = 1
    Commands = {"migrate"}
    Connection = "other"
    MaxCommands = 1
    MaxCrashes = 0
    Parts = {"migrator"}
    Instances = {"a", "b"}
    Keys = {1, 2}
    Vals = {1, 2, 3}
    Same <- SameNumber
    MaxSets = 2
    Absent = Absent
    Null = Null
    MaxCalls = 2
    Altering = {"decimal"}
INVARIANT OnItsConnection
CHECK_DEADLOCK FALSE
