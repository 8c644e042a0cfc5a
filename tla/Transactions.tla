----------------------------- MODULE Transactions -----------------------------
(***************************************************************************)
(* connections/manages_transactions.py, connections/transactions.py and    *)
(* the close/reconnect half of connections/connection.py: asyncio tasks    *)
(* that begin, commit and roll back nested transactions on connections     *)
(* found through a ContextVar, and the registry of after-commit callbacks. *)
(*                                                                         *)
(* An operation is split where the code awaits the database: what it read  *)
(* before the await is kept in `arg`, and its second half runs the         *)
(* continuation up to the next await.                                      *)
(*                                                                         *)
(* A record's callback list is the set `cbs` of its callbacks, and the     *)
(* relation `before` between callbacks of one list: append and extend add  *)
(* pairs, a batch runs in that order.                                      *)
(***************************************************************************)
EXTENDS Session, Sequences

CONSTANTS
    Tasks,          \* asyncio tasks
    Main,           \* the task that is running at the start
    Callbacks,      \* callbacks, numbered in the order they are registered
    Inherit,        \* may a task be created inside a transaction?
    AnyOrder        \* may an outer savepoint be ended before an inner one?

ASSUME TransactionsAssumption ==
    /\ Main \in Tasks
    /\ Callbacks \subseteq Nat \ {0} /\ IsFiniteSet(Callbacks)
    /\ Inherit \in BOOLEAN /\ AnyOrder \in BOOLEAN

VARIABLES
    live,       \* tasks created so far
    ctx,        \* the ContextVar _connection_context, one value per task
    pc, arg,    \* the await a task is suspended in, and its local variables
    entered,    \* transactions a task began and still holds an object of
    frames,     \* execute_callbacks loops on a task's stack, innermost first
    recorded,   \* keys of TransactionsManager._records, over all connections
    up,         \* records that a record descends from, through `parent`
    cbs,        \* TransactionRecord.callbacks
    before,     \* <<j, k>>: j stands before k in the list they are in
    reg,        \* history: the transaction a callback was queued on
    ran,        \* history: queued callbacks that were invoked
    reported    \* history: callbacks given up by an operation that raised

tasks == <<live, ctx, pc, arg, entered, frames>>
registry == <<recorded, up, cbs, before>>
history == <<reg, ran, reported>>
vars == <<session, tasks, registry, history>>

Unused == -1
Immediate == 0

Nothing == [tx |-> NoTx, conn |-> NoConn, batch |-> {}]
Arg == [tx : Txs \cup {NoTx}, conn : Conns \cup {NoConn}, batch : SUBSET Callbacks]
Frame == [left : SUBSET Callbacks, outer : SUBSET Txs]
PC == {"idle", "connect", "savepoint", "commit", "rollback", "close", "callbacks"}

TypeOK ==
    /\ SessionTypeOK
    /\ live \subseteq Tasks
    /\ ctx \in [Tasks -> Conns \cup {NoConn}]
    /\ pc \in [Tasks -> PC]
    /\ arg \in [Tasks -> Arg]
    /\ entered \in [Tasks -> SUBSET Txs]
    /\ frames \in [Tasks -> Seq(Frame)]
    /\ recorded \subseteq Txs
    /\ up \in [Txs -> SUBSET Txs]
    /\ cbs \in [Txs -> SUBSET Callbacks]
    /\ before \subseteq Callbacks \X Callbacks
    /\ reg \in [Callbacks -> Txs \cup {Unused, Immediate}]
    /\ ran \subseteq Callbacks
    /\ reported \subseteq Callbacks

Init ==
    /\ SessionInit
    /\ live = {Main}
    /\ ctx = [p \in Tasks |-> NoConn]
    /\ pc = [p \in Tasks |-> "idle"]
    /\ arg = [p \in Tasks |-> Nothing]
    /\ entered = [p \in Tasks |-> {}]
    /\ frames = [p \in Tasks |-> <<>>]
    /\ recorded = {}
    /\ up = [t \in Txs |-> {}]
    /\ cbs = [t \in Txs |-> {}]
    /\ before = {}
    /\ reg = [k \in Callbacks |-> Unused]
    /\ ran = {}
    /\ reported = {}
-----------------------------------------------------------------------------
(* ManagesTransactions.connection: a closed connection counts as none.      *)
Current(p) == IF ctx[p] # NoConn /\ conn[ctx[p]] # "closed" THEN ctx[p] ELSE NoConn
CurrentTx(p) == IF Current(p) = NoConn THEN NoTx ELSE Innermost(Current(p))

Idle(p) == p \in live /\ pc[p] = "idle"
Suspend(p, where, a) == pc' = [pc EXCEPT ![p] = where] /\ arg' = [arg EXCEPT ![p] = a]
Resume(p) == Suspend(p, "idle", Nothing)

Greatest(S) == CHOOSE x \in S : \A y \in S : x >= y
-----------------------------------------------------------------------------
(* TransactionsManager.  `recorded` holds the records of every connection;  *)
(* a record that is not in it any more has no callbacks left.               *)

\* Bug: open inner transactions stay recorded.
DetachedAlone(t) == {t} \cap recorded
\* What _detach pops: the record and the recorded transactions below it.
Detached(t) == IF t \in recorded THEN {t} \cup {u \in recorded : t \in up[u]} ELSE {}
\* Bug: the records are collected instead of their callbacks.
CollectedRecords(t) == Detached(t)
\* Bug: the lists of open inner transactions are not collected.
CollectedOwn(t) == cbs[t]
Collected(t) == UNION {cbs[u] : u \in Detached(t)}
\* The record whose list commit() extends, if the detached one has a parent.
Heir(t) == IF t \in recorded /\ up[t] # {} THEN Greatest(up[t]) ELSE NoTx
\* Bug: every commit makes its callbacks due.
BatchOfAny(t) == Collected(t)
\* The record commit() returns is a root's: its callbacks are due.
Batch(t) == IF Heir(t) = NoTx THEN Collected(t) ELSE {}

\* extend: lists are joined in the order of their transactions, parent first.
Joined(R) == {jk \in Callbacks \X Callbacks :
    \E u, v \in R : u < v /\ jk[1] \in cbs[u] /\ jk[2] \in cbs[v]}

Keep(S) == /\ recorded' = S
           /\ cbs' = [u \in Txs |-> IF u \in S THEN cbs[u] ELSE {}]

ManagerBegin(c, t, parent) ==
    /\ Keep({t} \cup (IF parent = NoTx THEN recorded \ OnConn(c) ELSE recorded))
    /\ up' = [up EXCEPT ![t] = IF parent \in recorded THEN {parent} \cup up[parent] ELSE {}]
    /\ UNCHANGED before

\* rollback(), then forget() of the connection when `forget`.
ManagerRollback(c, t, forget) ==
    /\ Keep(recorded \ (Detached(t) \cup (IF forget THEN OnConn(c) ELSE {})))
    /\ UNCHANGED <<up, before>>

\* Bug: forget() leaves the records of the connection.
ManagerForgetNothing(c) == UNCHANGED registry
ManagerForget(c) == Keep(recorded \ OnConn(c)) /\ UNCHANGED <<up, before>>

\* Bug: the committed record is not popped.
ManagerCommitKeeps(c, t, forget) == UNCHANGED registry

ManagerCommit(c, t, forget) ==
    LET rootRecord == t \in recorded /\ up[t] = {} IN
    /\ recorded' = recorded \ (Detached(t) \cup (IF forget \/ rootRecord THEN OnConn(c) ELSE {}))
    /\ cbs' = [u \in Txs |-> IF u \notin recorded' THEN {}
                             ELSE cbs[u] \cup (IF u = Heir(t) THEN Collected(t) ELSE {})]
    /\ before' = before \cup Joined(Detached(t) \cup ({Heir(t)} \cap recorded))
    /\ UNCHANGED up
-----------------------------------------------------------------------------
(* begin_transaction *)

InFlight(where) == {p \in Tasks : pc[p] = where}
RoomForTx == Cardinality(Fresh) > Cardinality(InFlight("connect") \cup InFlight("savepoint"))
RoomForConn == Cardinality({c \in Conns : conn[c] = "free"}) > Cardinality(InFlight("connect"))

Entered(p, t) == entered' = [entered EXCEPT ![p] = @ \cup {t}]

\* No connection in the context: engine.connect() is awaited.
StartConnect(p) ==
    /\ Idle(p) /\ Current(p) = NoConn
    /\ RoomForTx /\ RoomForConn
    /\ Suspend(p, "connect", Nothing)
    /\ UNCHANGED <<session, live, ctx, entered, frames, registry, history>>

\* Bug: the context is not set.
FinishConnectUnset(p) ==
    /\ pc[p] = "connect"
    /\ \E c \in Conns, t \in Txs :
         Connect(c) /\ BeginRoot(c, t) /\ ManagerBegin(c, t, NoTx) /\ Entered(p, t)
    /\ Resume(p)
    /\ UNCHANGED <<live, ctx, frames, history>>

\* The connection is there: the root begins and is registered at once.
FinishConnect(p) ==
    /\ pc[p] = "connect"
    /\ \E c \in Conns, t \in Txs :
         /\ Connect(c) /\ BeginRoot(c, t)
         /\ ctx' = [ctx EXCEPT ![p] = c]
         /\ ManagerBegin(c, t, NoTx)
         /\ Entered(p, t)
    /\ Resume(p)
    /\ UNCHANGED <<live, frames, history>>

\* begin() raises after the connection was made: it is released again.
BeginFails(p) ==
    /\ pc[p] = "connect"
    /\ \E c \in Conns :
         /\ Connect(c)
         /\ ctx' = [ctx EXCEPT ![p] = c]
         /\ ManagerForget(c)
         /\ Suspend(p, "close", [Nothing EXCEPT !.conn = c])
    /\ UNCHANGED <<home, root, nested, prev, active, fate, live, entered, frames, history>>

\* The pool timed out or the database refused the connection.
FailConnect(p) ==
    /\ pc[p] = "connect"
    /\ Resume(p)
    /\ UNCHANGED <<session, live, ctx, entered, frames, registry, history>>

\* A connection without a transaction: begin() needs no await.
BeginOnConnection(p) ==
    /\ Idle(p) /\ Current(p) # NoConn /\ CurrentTx(p) = NoTx /\ RoomForTx
    /\ \E t \in Txs : LET c == Current(p) IN
         BeginRoot(c, t) /\ UNCHANGED conn /\ ManagerBegin(c, t, NoTx) /\ Entered(p, t)
    /\ UNCHANGED <<live, ctx, pc, arg, frames, history>>

\* The parent is read before begin_nested() is awaited.
StartSavepoint(p) ==
    /\ Idle(p) /\ CurrentTx(p) # NoTx /\ RoomForTx
    /\ Suspend(p, "savepoint", [Nothing EXCEPT !.conn = Current(p), !.tx = CurrentTx(p)])
    /\ UNCHANGED <<session, live, ctx, entered, frames, registry, history>>

FinishSavepoint(p) ==
    /\ pc[p] = "savepoint"
    /\ \E t \in Txs :
         /\ BeginNested(arg[p].conn, t)
         /\ ManagerBegin(arg[p].conn, t, arg[p].tx)
         /\ Entered(p, t)
    /\ Resume(p)
    /\ UNCHANGED <<live, ctx, frames, history>>

\* begin_nested() raises: this task did not make the connection and keeps it.
FailSavepoint(p) ==
    /\ pc[p] = "savepoint"
    /\ \/ UNCHANGED session
       \/ Drop(arg[p].conn, "undone") /\ UNCHANGED <<home, root, nested, prev, active>>
    /\ Resume(p)
    /\ UNCHANGED <<live, ctx, entered, frames, registry, history>>
-----------------------------------------------------------------------------
(* commit_transaction and rollback *)

\* A transaction object of this task, or none given: the innermost one.
Given(p) == entered[p] \cup ({CurrentTx(p)} \ {NoTx})
InOrder(t) == AnyOrder \/ ~active[t] \/ t \in {root[home[t]], Innermost(home[t])}

End(p, t, how) == Suspend(p, how, [Nothing EXCEPT !.tx = t])

Commit(p) ==
    /\ Idle(p)
    /\ \E t \in Given(p) : InOrder(t) /\ End(p, t, "commit")
    /\ UNCHANGED <<session, live, ctx, entered, frames, registry, history>>

Rollback(p) ==
    /\ Idle(p)
    /\ \E t \in Given(p) : InOrder(t) /\ End(p, t, "rollback")
    /\ UNCHANGED <<session, live, ctx, entered, frames, registry, history>>

\* connection.in_transaction() once the statement is done.
StaysIn(c) == root'[c] # NoTx /\ active'[root'[c]]

Release(p, c, batch) == Suspend(p, "close", [tx |-> NoTx, conn |-> c, batch |-> batch])

\* execute_callbacks() begins; an empty batch returns to the caller.
Execute(p, batch) ==
    IF batch = {} THEN Resume(p) /\ UNCHANGED frames
    ELSE /\ Suspend(p, "callbacks", Nothing)
         /\ frames' = [frames EXCEPT ![p] = <<[left |-> batch, outer |-> entered[p]]>> \o @]

FinishCommit(p) ==
    /\ pc[p] = "commit"
    /\ LET t == arg[p].tx
           c == home[t]
       IN /\ CommitOk(t)
          /\ ManagerCommit(c, t, ~StaysIn(c))
          /\ IF StaysIn(c) THEN Execute(p, Batch(t))
                                  ELSE Release(p, c, Batch(t)) /\ UNCHANGED frames
    /\ UNCHANGED <<live, ctx, entered, history>>

\* The callbacks are discarded and the error raised; nothing is released.
FailCommit(p) ==
    /\ pc[p] = "commit"
    /\ LET t == arg[p].tx IN
         /\ CommitFails(t)
         /\ ManagerRollback(home[t], t, FALSE)
         /\ reported' = reported \cup Collected(t)
    /\ Resume(p)
    /\ UNCHANGED <<live, ctx, entered, frames, reg, ran>>

\* Bug: an idle connection is not released.
AfterRollbackHeld(p, t) == ManagerRollback(home[t], t, ~StaysIn(home[t])) /\ Resume(p)
\* Bug: what a rollback discards is run.
AfterRollbackRuns(p, t) == LET c == home[t] IN
    /\ ManagerRollback(c, t, ~StaysIn(c))
    /\ IF StaysIn(c) THEN Resume(p) ELSE Release(p, c, Collected(t))

\* The `finally` of rollback(): discard, then release an idle connection.
AfterRollback(p, t) == LET c == home[t] IN
    /\ ManagerRollback(c, t, ~StaysIn(c))
    /\ IF StaysIn(c) THEN Resume(p) ELSE Release(p, c, {})

FinishRollback(p) ==
    /\ pc[p] = "rollback"
    /\ RollbackOk(arg[p].tx)
    /\ AfterRollback(p, arg[p].tx)
    /\ UNCHANGED <<live, ctx, entered, frames, history>>

FailRollback(p) ==
    /\ pc[p] = "rollback"
    /\ RollbackFails(arg[p].tx)
    /\ AfterRollback(p, arg[p].tx)
    /\ reported' = reported \cup Collected(arg[p].tx)
    /\ UNCHANGED <<live, ctx, entered, frames, reg, ran>>

\* Transaction.__aexit__.  Leaving an outer block drops the objects of the
\* transactions begun inside it without a block of their own.
Outer(p) == IF frames[p] = <<>> THEN {} ELSE Head(frames[p]).outer

Exit(p) ==
    /\ Idle(p)
    /\ \E t \in entered[p] \ Outer(p) :
         /\ entered' = [entered EXCEPT ![p] = {u \in @ : u < t}]
         /\ IF active[t]
            THEN /\ InOrder(t)
                 /\ End(p, t, "commit") \/ End(p, t, "rollback")
                 /\ UNCHANGED registry
            ELSE IF InTransaction(home[t])
            THEN UNCHANGED <<pc, arg, registry>>
            ELSE ManagerForget(home[t]) /\ Release(p, home[t], {})
    /\ UNCHANGED <<session, live, ctx, frames, history>>
-----------------------------------------------------------------------------
(* close, reconnect and the second half of _release_connection *)

Close(p) ==
    /\ Idle(p) /\ Current(p) # NoConn
    /\ ManagerForget(Current(p))
    /\ Release(p, Current(p), {})
    /\ UNCHANGED <<session, live, ctx, entered, frames, history>>

\* Bug: the batch is dropped once the connection is released.
FinishCloseDrops(p) ==
    /\ pc[p] = "close"
    /\ CloseOk(arg[p].conn)
    /\ Resume(p)
    /\ UNCHANGED <<live, ctx, entered, frames, registry, history>>

\* After a successful close the context still names the closed connection.
FinishClose(p) ==
    /\ pc[p] = "close"
    /\ CloseOk(arg[p].conn)
    /\ Execute(p, arg[p].batch)
    /\ UNCHANGED <<live, ctx, entered, registry, history>>

FailClose(p) ==
    /\ pc[p] = "close"
    /\ CloseFails(arg[p].conn)
    /\ ctx' = [ctx EXCEPT ![p] = IF @ = arg[p].conn THEN NoConn ELSE @]
    /\ reported' = reported \cup arg[p].batch
    /\ Resume(p)
    /\ UNCHANGED <<live, entered, frames, registry, reg, ran>>
-----------------------------------------------------------------------------
(* after_commit and execute_callbacks *)

Queue(k, t) == /\ cbs' = [cbs EXCEPT ![t] = @ \cup {k}]
               /\ before' = before \cup (cbs[t] \X {k})
               /\ reg' = [reg EXCEPT ![k] = t]
RunAtOnce(k) == reg' = [reg EXCEPT ![k] = Immediate] /\ UNCHANGED <<cbs, before>>

AfterCommit(p) ==
    /\ Idle(p)
    /\ \E k \in Callbacks :
         /\ \A j \in Callbacks : reg[j] = Unused <=> j >= k
         /\ IF CurrentTx(p) \in recorded THEN Queue(k, CurrentTx(p)) ELSE RunAtOnce(k)
    /\ UNCHANGED <<session, tasks, recorded, up, ran, reported>>

Without(frame, k) == [left |-> frame.left \ {k}, outer |-> frame.outer]
First(S) == {k \in S : \A j \in S : <<j, k>> \notin before}

Invoke(p) ==
    /\ pc[p] = "callbacks"
    /\ \E k \in First(Head(frames[p]).left) :
         /\ ran' = ran \cup {k}
         /\ frames' = [frames EXCEPT ![p] = <<Without(Head(@), k)>> \o Tail(@)]
    /\ Suspend(p, "idle", Nothing)
    /\ UNCHANGED <<session, live, ctx, entered, registry, reg, reported>>

InCallback(p) == Idle(p) /\ frames[p] # <<>>

CallbackReturns(p) ==
    /\ InCallback(p)
    /\ IF Head(frames[p]).left = {}
       THEN frames' = [frames EXCEPT ![p] = Tail(@)] /\ UNCHANGED <<pc, arg>>
       ELSE Suspend(p, "callbacks", Nothing) /\ UNCHANGED frames
    /\ entered' = [entered EXCEPT ![p] = Outer(p)]
    /\ UNCHANGED <<session, live, ctx, registry, history>>

\* The error leaves the loop: the rest of the batch is skipped.
CallbackRaises(p) ==
    /\ InCallback(p)
    /\ reported' = reported \cup Head(frames[p]).left
    /\ frames' = [frames EXCEPT ![p] = Tail(@)]
    /\ entered' = [entered EXCEPT ![p] = Outer(p)]
    /\ UNCHANGED <<session, live, ctx, pc, arg, registry, reg, ran>>

\* create_task copies the context, unless it is given a clean one.
Spawn(p) ==
    /\ Idle(p)
    /\ \E q \in Tasks \ live, c \in {ctx[p], NoConn} :
         /\ c # NoConn => Inherit \/ Current(p) = NoConn
         /\ live' = live \cup {q}
         /\ ctx' = [ctx EXCEPT ![q] = c]
    /\ UNCHANGED <<session, pc, arg, entered, frames, registry, history>>
-----------------------------------------------------------------------------
Begin(p) == StartConnect(p) \/ BeginOnConnection(p) \/ StartSavepoint(p)

\* The second half of an operation, or the next turn of a callback loop.
Continue(p) ==
    \/ FinishConnect(p) \/ BeginFails(p) \/ FailConnect(p)
    \/ FinishSavepoint(p) \/ FailSavepoint(p)
    \/ FinishCommit(p) \/ FailCommit(p)
    \/ FinishRollback(p) \/ FailRollback(p)
    \/ FinishClose(p) \/ FailClose(p)
    \/ Invoke(p)

EndCallback(p) == CallbackReturns(p) \/ CallbackRaises(p)

Step(p) ==
    \/ Begin(p) \/ Commit(p) \/ Rollback(p) \/ Exit(p) \/ Close(p)
    \/ AfterCommit(p) \/ EndCallback(p) \/ Spawn(p)
    \/ Continue(p)

Next == \E p \in Tasks : Step(p)

\* The event loop resumes every awaited operation; a callback ends.
Fairness == \A p \in Tasks : WF_vars(Continue(p)) /\ SF_vars(EndCallback(p))

Spec == Init /\ [][Next]_vars
FairSpec == Spec /\ Fairness
=============================================================================
