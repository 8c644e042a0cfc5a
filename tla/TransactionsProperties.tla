------------------------ MODULE TransactionsProperties ------------------------
(* What the transaction layer promises.  ADR numbers are docs/adr/.          *)
EXTENDS Transactions

\* Where a queued callback can be: on a record, in a batch whose connection is
\* being released, in a running loop, or invoked already.
FrameOf(p) == UNION {frames[p][i].left : i \in DOMAIN frames[p]}
Waiting == (UNION {cbs[t] : t \in Txs}) \cup (UNION {arg[p].batch \cup FrameOf(p) : p \in Tasks})

(* A callback is in one place only, so no list merge, detach or callback     *)
(* loop can make it run twice.                                               *)
AtMostOnce ==
    /\ \A t, u \in Txs : t # u => cbs[t] \cap cbs[u] = {}
    /\ \A p, q \in Tasks : p # q => arg[p].batch \cap arg[q].batch = {}
    /\ \A p, q \in Tasks : \A i \in DOMAIN frames[p], j \in DOMAIN frames[q] :
        <<p, i>> # <<q, j>> => frames[p][i].left \cap frames[q][j].left = {}
    /\ \A t \in Txs, p \in Tasks : cbs[t] \cap (arg[p].batch \cup FrameOf(p)) = {}
    /\ \A p, q \in Tasks : arg[p].batch \cap FrameOf(q) = {}
    /\ ran \cap Waiting = {}

(* A queued callback runs only when the writes of the transaction it was     *)
(* queued on are durable (ADR 006: "only once a database change is durable").*)
RunsOnlyDurable == \A k \in ran : fate[reg[k]] = "durable"

(* A callback of a durable transaction is still to be run, has run, or was   *)
(* given up by an operation that raised: none is lost silently.              *)
NoSilentLoss ==
    \A k \in Callbacks : reg[k] \in Txs /\ fate[reg[k]] = "durable"
        => k \in Waiting \cup ran \cup reported

(* Records belong to the root transaction their connection is in: nothing    *)
(* queued survives into a later one (ADR 006, line 29).                      *)
NoSurvivors ==
    \A t \in recorded : root[home[t]] # NoTx /\ root[home[t]] <= t

(* A connection is never left open with no transaction on it: if there is    *)
(* none, some task is about to return it to the pool.                        *)
HeldByTransaction ==
    \A c \in Conns : conn[c] = "open" /\ root[c] = NoTx
        => \E p \in Tasks : pc[p] = "close" /\ arg[p].conn = c

(* A task that waits for a connection holds none itself: with a pool of one, *)
(* a callback, or code after a failed operation, cannot wait for its own.    *)
NoSelfWait ==
    \A p \in Tasks, c \in Conns : pc[p] = "connect" /\ conn[c] = "open"
        => \E q \in live \ {p} : ctx[q] = c

(* While a transaction of the ORM is open, after_commit queues: the callback *)
(* does not run at once (ADR 006, line 24).                                  *)
QueuedWhileActive ==
    [][\A p \in Tasks : Current(p) # NoConn /\ InTransaction(Current(p)) /\ AfterCommit(p)
         => \A k \in Callbacks : reg'[k] = Immediate => reg[k] = Immediate]_vars

(* The commit of a savepoint inside a root that the registry knows runs no   *)
(* callback: its callbacks merge into the parent (ADR 006, line 27).         *)
NestedCommitDefers ==
    [][\A p \in Tasks : pc[p] = "commit" /\ frames'[p] # frames[p]
         => LET c == home[arg[p].tx] IN ~(StaysIn(c) /\ root[c] \in recorded)]_vars

(* The layer implements the queue of AfterCommit: a connection's queue is    *)
(* the union of its records' lists, a batch is due from the root's commit    *)
(* until its loop ends.                                                      *)
Batches == UNION {{arg[p].batch} \cup {frames[p][i].left : i \in DOMAIN frames[p]} : p \in Tasks}

Promise == INSTANCE AfterCommit WITH
    seen <- {k \in Callbacks : reg[k] # Unused},
    queued <- [c \in Conns |-> UNION {cbs[t] : t \in OnConn(c)}],
    due <- Batches \ {{}}

ImplementsAfterCommit == Promise!Spec

(* Every batch that is due is run to its end, or given up with an error.     *)
DueIsRun ==
    \A k \in Callbacks :
        (\E p \in Tasks : k \in arg[p].batch \cup FrameOf(p)) ~> (k \in ran \cup reported)
=============================================================================
