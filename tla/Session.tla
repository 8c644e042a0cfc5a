------------------------------- MODULE Session -------------------------------
(***************************************************************************)
(* What lies under masoniteorm/connections: SQLAlchemy's AsyncConnection   *)
(* and AsyncTransaction objects, the engine's pool and the database        *)
(* session behind each pooled connection, as manages_transactions.py       *)
(* drives them (connect, begin, begin_nested, commit, rollback, close).    *)
(*                                                                         *)
(* Transactions are numbered in the order they begin, so that "later" is   *)
(* ">" and the insertion order of a Python dict is the numeric order.      *)
(* A statement and the bookkeeping that follows it are one step.           *)
(***************************************************************************)
EXTENDS Integers, FiniteSets

CONSTANTS
    Conns,      \* AsyncConnection objects, one per engine.connect()
    Txs,        \* AsyncTransaction objects: roots and savepoints
    PoolSize    \* connections the engine's pool hands out at a time

NoConn == 0
NoTx == 0

ASSUME SessionAssumption ==
    /\ Conns \subseteq Nat \ {NoConn}
    /\ Txs \subseteq Nat \ {NoTx}
    /\ IsFiniteSet(Conns) /\ IsFiniteSet(Txs)
    /\ PoolSize \in Nat \ {0}

VARIABLES
    conn,       \* "free" (not made yet), "open", "lost" (invalidated), "closed"
    home,       \* the connection of a transaction, NoConn until it begins
    root,       \* connection.get_transaction()
    nested,     \* connection.get_nested_transaction()
    prev,       \* what `nested` was when a savepoint began
    active,     \* transaction.is_active
    fate        \* what the database holds of the transaction's own writes

session == <<conn, home, root, nested, prev, active, fate>>

ConnState == {"free", "open", "lost", "closed"}
Fate == {"none", "open", "merged", "undone", "durable"}

SessionTypeOK ==
    /\ conn \in [Conns -> ConnState]
    /\ home \in [Txs -> Conns \cup {NoConn}]
    /\ root \in [Conns -> Txs \cup {NoTx}]
    /\ nested \in [Conns -> Txs \cup {NoTx}]
    /\ prev \in [Txs -> Txs \cup {NoTx}]
    /\ active \in [Txs -> BOOLEAN]
    /\ fate \in [Txs -> Fate]

SessionInit ==
    /\ conn = [c \in Conns |-> "free"]
    /\ home = [t \in Txs |-> NoConn]
    /\ root = [c \in Conns |-> NoTx]
    /\ nested = [c \in Conns |-> NoTx]
    /\ prev = [t \in Txs |-> NoTx]
    /\ active = [t \in Txs |-> FALSE]
    /\ fate = [t \in Txs |-> "none"]

OnConn(c) == {t \in Txs : home[t] = c}
Live(c) == {t \in OnConn(c) : fate[t] \in {"open", "merged"}}
Fresh == {t \in Txs : home[t] = NoConn}

\* get_nested_transaction() or get_transaction()
Innermost(c) == IF nested[c] # NoTx THEN nested[c] ELSE root[c]
InTransaction(c) == root[c] # NoTx /\ active[root[c]]
\* SQLAlchemy runs no statement while the root or the top savepoint is inactive.
Usable(c) == InTransaction(c) /\ (nested[c] # NoTx => active[nested[c]])

Settle(S, f) == fate' = [t \in Txs |-> IF t \in S THEN f ELSE fate[t]]
Deactivate(S) == active' = [t \in Txs |-> active[t] /\ t \notin S]
\* A savepoint leaves the connection only when it is the top one; otherwise
\* SQLAlchemy warns ("already deassociated") and `nested` stays as it is.
Popped(t) == LET c == home[t] IN
             IF nested[c] = t THEN [nested EXCEPT ![c] = prev[t]] ELSE nested
\* The end of a root cancels every savepoint of the connection.
EndRoot(c) == /\ root' = [root EXCEPT ![c] = NoTx]
              /\ nested' = [nested EXCEPT ![c] = NoTx]
              /\ Deactivate(OnConn(c))

Start(c, t) ==
    /\ t \in Fresh /\ \A u \in Fresh : t <= u
    /\ home' = [home EXCEPT ![t] = c]
    /\ active' = [active EXCEPT ![t] = TRUE]

\* begin(): no statement is sent, so it cannot interleave or be refused.
BeginRoot(c, t) ==
    /\ root[c] = NoTx
    /\ Start(c, t)
    /\ root' = [root EXCEPT ![c] = t]
    /\ fate' = [fate EXCEPT ![t] = IF conn[c] = "lost" THEN "undone" ELSE "open"]
    /\ UNCHANGED <<nested, prev>>

\* engine.connect(): a free slot of the pool.
Connect(c) ==
    /\ conn[c] = "free"
    /\ \A d \in Conns : conn[d] = "free" => c <= d
    /\ Cardinality({d \in Conns : conn[d] = "open"}) < PoolSize
    /\ conn' = [conn EXCEPT ![c] = "open"]

BeginNested(c, t) ==
    /\ conn[c] = "open" /\ Usable(c)
    /\ Start(c, t)
    /\ nested' = [nested EXCEPT ![c] = t]
    /\ prev' = [prev EXCEPT ![t] = nested[c]]
    /\ fate' = [fate EXCEPT ![t] = "open"]
    /\ UNCHANGED <<conn, root>>

\* The connection drops, or its task is cancelled inside the statement: the
\* session ends and what it held is undone, or kept if it was being committed.
Drop(c, f) ==
    /\ conn[c] = "open"
    /\ conn' = [conn EXCEPT ![c] = "lost"]
    /\ Settle(Live(c), f)

CommitOk(t) == LET c == home[t] IN
    /\ active[t] /\ conn[c] = "open"
    /\ \/ t = root[c] /\ Settle(Live(c), "durable") /\ EndRoot(c)
       \/ /\ t # root[c] /\ fate[t] = "open" /\ Usable(c)
          /\ Settle({u \in Live(c) : u >= t}, "merged")
          /\ Deactivate({t}) /\ nested' = Popped(t) /\ UNCHANGED root
    /\ UNCHANGED <<conn, home, prev>>

\* A failed commit leaves the transaction on the connection, inactive; a failed
\* COMMIT also cancels the savepoints.  A refused COMMIT may have rolled back.
CommitFails(t) == LET c == home[t] IN
    /\ IF t = root[c] THEN /\ Deactivate(OnConn(c))
                           /\ nested' = [nested EXCEPT ![c] = NoTx]
                      ELSE Deactivate({t}) /\ UNCHANGED nested
    /\ \/ UNCHANGED <<conn, fate>>
       \/ t = root[c] /\ active[t] /\ Settle(Live(c), "undone") /\ UNCHANGED conn
       \/ active[t] /\ Drop(c, "undone")
       \/ t = root[c] /\ active[t] /\ Drop(c, "durable")
    /\ UNCHANGED <<home, root, prev>>

\* Rolling back an inactive transaction, or one whose connection is gone, sends
\* nothing and only detaches it from the connection.
Sends(t) == active[t] /\ conn[home[t]] = "open"

RollbackOk(t) == LET c == home[t] IN
    /\ \/ /\ t = root[c] /\ EndRoot(c)
          /\ Settle(IF Sends(t) THEN Live(c) ELSE {}, "undone")
       \/ /\ t # root[c] /\ (Sends(t) => Usable(c) /\ fate[t] = "open")
          /\ Settle(IF Sends(t) THEN {u \in Live(c) : u >= t} ELSE {}, "undone")
          /\ Deactivate({t}) /\ nested' = Popped(t) /\ UNCHANGED root
    /\ UNCHANGED <<conn, home, prev>>

RollbackFails(t) == LET c == home[t] IN
    /\ Sends(t)
    /\ IF t = root[c] THEN root' = [root EXCEPT ![c] = NoTx] /\ UNCHANGED nested
                      ELSE nested' = Popped(t) /\ UNCHANGED root
    /\ Deactivate({t})
    /\ \/ UNCHANGED <<conn, fate>>
       \/ Drop(c, "undone")
    /\ UNCHANGED <<home, prev>>

\* close(): rolls back what is open and returns the connection to the pool.
CloseOk(c) ==
    /\ conn' = [conn EXCEPT ![c] = "closed"]
    /\ Settle(Live(c), "undone")
    /\ EndRoot(c)
    /\ UNCHANGED <<home, prev>>

CloseFails(c) ==
    /\ Drop(c, "undone")
    /\ root' = [root EXCEPT ![c] = NoTx]
    /\ Deactivate({root[c]})
    /\ UNCHANGED <<home, nested, prev>>
=============================================================================
