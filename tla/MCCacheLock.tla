------------------------------ MODULE MCCacheLock ------------------------------
EXTENDS CacheLock
\* The three ways in which a store decides, one of them chosen at the start: by
\* itself without an await, in one operation of its own, or in statements.
VARIABLE driver
Array == INSTANCE CacheLock WITH Driver <- "array"
Redis == INSTANCE CacheLock WITH Driver <- "redis"
Database == INSTANCE CacheLock WITH Driver <- "database"

InitAny == driver \in {"array", "redis", "database"} /\ Init
NextAny ==
    /\ UNCHANGED driver
    /\ \/ driver = "array" /\ Array!Next
       \/ driver = "redis" /\ Redis!Next
       \/ driver = "database" /\ Database!Next

\* What is fair in CacheLock, for the store that was chosen.
ServesAny(p) == IF driver = "database" THEN Database!Serve(p) ELSE Redis!Serve(p)
ContinuesAny(p) ==
    CASE driver = "array" -> Array!Continue(p)
      [] driver = "redis" -> Redis!Continue(p)
      [] driver = "database" -> Database!Continue(p)
=============================================================================
