SPECIFICATION SpecPair
CONSTANTS
    t1 = t1
    t2 = t2
    Tasks <- TwoTasks
    Main = t1
    Conns = {1, 2}
    Txs = {1, 2, 3}
    Callbacks = {1}
    PoolSize = 2
    Inherit = TRUE
    AnyOrder = TRUE
INVARIANTS AtMostOnce HeldByTransaction
CHECK_DEADLOCK FALSE
