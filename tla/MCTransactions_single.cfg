SPECIFICATION SpecAlone
CONSTANTS
    t1 = t1
    t2 = t2
    Tasks <- TwoTasks
    Main = t1
    Conns = {1, 2}
    Txs = {1, 2, 3}
    Callbacks = {1, 2}
    PoolSize = 1
    Inherit = FALSE
    AnyOrder = FALSE
INVARIANTS TypeOK RunsOnlyDurable NoSilentLoss NoSurvivors NoSelfWait
PROPERTIES NestedCommitDefers ImplementsAfterCommit DueIsRun
CHECK_DEADLOCK FALSE
