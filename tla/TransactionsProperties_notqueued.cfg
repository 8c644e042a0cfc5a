SPECIFICATION Spec
CONSTANTS
    Tasks = {t1}
    Main = t1
    Conns = {1}
    Txs = {1, 2}
    Callbacks = {1}
    PoolSize = 1
    Inherit = FALSE
    AnyOrder = FALSE
PROPERTY QueuedWhileActive
CHECK_DEADLOCK FALSE
