SPECIFICATION SpecEach
CONSTANTS
    p1 = p1
    p2 = p2
    Migrators <- Two
    N = 3
    Statements = 2
    Commands = {"migrate", "rollback", "reset", "refresh", "fresh"}
    Connection = "default"
    MaxCommands = 4
    MaxCrashes = 2
    Parts = {"relations"}
    Instances = {"a", "b"}
    Keys = {1, 2}
    Vals = {1, 2, 3}
    Same <- SameNumber
    MaxSets = 2
    Absent = Absent
    Null = Null
    MaxCalls = 2
    Altering = {"decimal"}
INVARIANT MorphedAsNamed
CHECK_DEADLOCK FALSE
